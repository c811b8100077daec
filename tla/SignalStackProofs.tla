------------------------- MODULE SignalStackProofs -------------------------
(***************************************************************************)
(* The chain is right for any set of signals, threads, handlers, actions   *)
(* and sets: the program's actions, the handling mark and the masks.  The  *)
(* bounds (MaxRaises, MaxCalls, MaxHandlers, MaxFrames) have no part in    *)
(* the argument.  The inductive invariant has three layers:                *)
(*  - ActionInv: every frame has a registered signal, walks inside its     *)
(*    stack of handlers and holds the saved action (GoodFrames); tasks and *)
(*    the runtime's handler in the kernel too are of registered signals    *)
(*    (Known);                                                             *)
(*  - HandlingInv: the mark is set exactly while a synchronous handler     *)
(*    runs, and above it no frame walks the handlers (Handled);            *)
(*  - MaskInv: the mask a thread will have when its frames are gone, which *)
(*    is in uc or previous_mask meanwhile, holds only what the thread      *)
(*    blocked before the mark (Masked), and a set on its way to the kernel *)
(*    holds nothing that was marked when it was filtered (CallsFiltered).  *)
(***************************************************************************)
EXTENDS SignalStack, SequenceTheorems, TLAPS

-----------------------------------------------------------------------------
(* Stacks of frames *)

\* Front and Last of a stack that is not empty.
LEMMA FrontLast ==
  ASSUME NEW S, NEW q \in Seq(S), q # <<>>
  PROVE  /\ Len(q) \in Nat \ {0} /\ Last(q) = q[Len(q)] /\ Last(q) \in S
         /\ Front(q) \in Seq(S) /\ Len(Front(q)) = Len(q) - 1
         /\ \A i \in 1..(Len(q) - 1) : Front(q)[i] = q[i]
<1>1. Len(q) \in Nat \ {0}
  BY EmptySeq
<1>2. /\ Last(q) = q[Len(q)] /\ Last(q) \in S
  BY <1>1, ElementOfSeq DEF Last
<1>3. \A i \in 1..(Len(q) - 1) : q[i] \in S
  <2>1. \A i \in 1..(Len(q) - 1) : i \in 1..Len(q)
    BY <1>1
  <2>2. QED
    BY <2>1, ElementOfSeq
<1>4. /\ SubSeq(q, 1, Len(q) - 1) \in Seq(S)
      /\ Len(SubSeq(q, 1, Len(q) - 1)) = Len(q) - 1
      /\ \A i \in 1..(Len(q) - 1) : SubSeq(q, 1, Len(q) - 1)[i] = q[i]
  <2>1. Len(q) - 1 \in Int /\ 1 \in Int /\ (Len(q) - 1) - 1 + 1 = Len(q) - 1
    BY <1>1
  <2> DEFINE n == Len(q) - 1
  <2>2. /\ SubSeq(q, 1, n) \in Seq(S)
        /\ Len(SubSeq(q, 1, n)) = IF 1 <= n THEN n - 1 + 1 ELSE 0
        /\ \A i \in 1..(n - 1 + 1) : SubSeq(q, 1, n)[i] = q[1 + i - 1]
    <3>1. n \in Int /\ \A i \in 1..n : q[i] \in S
      BY <2>1, <1>3
    <3> HIDE DEF n
    <3>2. QED
      BY <3>1, SubSeqProperties
  <2>3. \A i \in 1..n : 1 + i - 1 = i
    BY <2>1
  <2>4. QED
    BY <2>1, <2>2, <2>3, <1>1
<1>5. QED
  BY <1>1, <1>2, <1>4 DEF Front

\* A new invocation stands on the others (Push).
LEMMA AddTop ==
  ASSUME NEW S, NEW q \in Seq(S), NEW f \in S
  PROVE  /\ Append(q, f) \in Seq(S) /\ Len(Append(q, f)) = Len(q) + 1
         /\ Len(q) \in Nat /\ Append(q, f)[Len(q) + 1] = f
         /\ Append(q, f) # <<>> /\ \A i \in 1..Len(q) : Append(q, f)[i] = q[i]
<1>1. /\ Append(q, f) \in Seq(S) /\ Len(Append(q, f)) = Len(q) + 1
      /\ Len(q) \in Nat /\ Append(q, f)[Len(q) + 1] = f
      /\ \A i \in 1..Len(q) : Append(q, f)[i] = q[i]
  BY AppendProperties
<1>2. QED
  BY <1>1, EmptySeq

\* A sequence without one of its elements.
LEMMA WithoutOne ==
  ASSUME NEW S, NEW q \in Seq(S), NEW n \in 1..Len(q)
  PROVE  RemoveAt(q, n) \in Seq(S)
<1>1. Len(q) \in Nat /\ n \in Int /\ n - 1 \in Int /\ n + 1 \in Int /\ Len(q) \in Int /\ 1 \in Int
  BY LenProperties
<1>2. /\ \A i \in 1..(n - 1) : i \in 1..Len(q)
      /\ \A i \in (n + 1)..Len(q) : i \in 1..Len(q)
  BY <1>1
<1>3. /\ \A i \in 1..(n - 1) : q[i] \in S
      /\ \A i \in (n + 1)..Len(q) : q[i] \in S
  BY <1>2, ElementOfSeq
<1>4. SubSeq(q, 1, n - 1) \in Seq(S) /\ SubSeq(q, n + 1, Len(q)) \in Seq(S)
  BY <1>1, <1>3, SubSeqProperties
<1>5. QED
  BY <1>4, ConcatProperties DEF RemoveAt

\* Replacing the top of a stack keeps the rest (SetTop).
LEMMA ReplaceTop ==
  ASSUME NEW S, NEW q \in Seq(S), q # <<>>, NEW f \in S
  PROVE  /\ Append(Front(q), f) \in Seq(S)
         /\ Len(Append(Front(q), f)) = Len(q)
         /\ Append(Front(q), f)[Len(q)] = f /\ Append(Front(q), f) # <<>>
         /\ \A i \in 1..(Len(q) - 1) : Append(Front(q), f)[i] = q[i]
<1>1. /\ Len(q) \in Nat \ {0} /\ Front(q) \in Seq(S) /\ Len(Front(q)) = Len(q) - 1
      /\ \A i \in 1..(Len(q) - 1) : Front(q)[i] = q[i]
  BY FrontLast
<1>2. /\ Append(Front(q), f) \in Seq(S)
      /\ Len(Append(Front(q), f)) = Len(Front(q)) + 1
      /\ Append(Front(q), f)[Len(Front(q)) + 1] = f
      /\ Append(Front(q), f) # <<>>
      /\ \A i \in 1..Len(Front(q)) : Append(Front(q), f)[i] = Front(q)[i]
  BY <1>1, AddTop
<1>3. QED
  BY <1>1, <1>2

-----------------------------------------------------------------------------
(* Types *)

\* Changing fields of a frame gives a frame.
LEMMA FrameFields ==
  ASSUME NEW f \in Frame, NEW pc \in {"Handler", "HandlerImpl", "walk", "flag", "run",
                                      "action", "call", "user", "return"}
  PROVE  /\ [f EXCEPT !.pc = pc] \in Frame
         /\ \A n \in Nat : [f EXCEPT !.pc = pc, !.it = n] \in Frame
         /\ \A m \in SUBSET Signals : [f EXCEPT !.pc = pc, !.previous_mask = m] \in Frame
         /\ \A b \in BOOLEAN : [f EXCEPT !.pc = pc, !.previous_value = b] \in Frame
         /\ \A a \in Action : [f EXCEPT !.pc = pc, !.flags = a] \in Frame
BY DEF Frame

\* What the fields of the changed frame are.
LEMMA FieldValues ==
  ASSUME NEW f \in Frame, NEW pc, NEW v
  PROVE  /\ [f EXCEPT !.pc = pc].pc = pc
         /\ [f EXCEPT !.pc = pc].isAsync = f.isAsync
         /\ [f EXCEPT !.pc = pc].uc = f.uc
         /\ [f EXCEPT !.pc = pc].previous_mask = f.previous_mask
         /\ [f EXCEPT !.pc = pc, !.it = v].pc = pc
         /\ [f EXCEPT !.pc = pc, !.it = v].isAsync = f.isAsync
         /\ [f EXCEPT !.pc = pc, !.it = v].uc = f.uc
         /\ [f EXCEPT !.pc = pc, !.previous_mask = v].pc = pc
         /\ [f EXCEPT !.pc = pc, !.previous_mask = v].isAsync = f.isAsync
         /\ [f EXCEPT !.pc = pc, !.previous_mask = v].uc = f.uc
         /\ [f EXCEPT !.pc = pc, !.previous_mask = v].previous_mask = v
         /\ [f EXCEPT !.pc = pc, !.previous_value = v].pc = pc
         /\ [f EXCEPT !.pc = pc, !.previous_value = v].isAsync = f.isAsync
         /\ [f EXCEPT !.pc = pc, !.previous_value = v].uc = f.uc
         /\ [f EXCEPT !.pc = pc, !.previous_value = v].previous_mask = f.previous_mask
         /\ [f EXCEPT !.pc = pc, !.previous_value = v].previous_value = v
         /\ [f EXCEPT !.pc = pc, !.flags = v].pc = pc
         /\ [f EXCEPT !.pc = pc, !.flags = v].isAsync = f.isAsync
         /\ [f EXCEPT !.pc = pc, !.flags = v].uc = f.uc
BY DEF Frame

LEMMA ActionTypes ==
  /\ Runtime \in Action /\ Plain("dfl") \in Action /\ UserActions \subseteq Action
  /\ Main \in Threads
  /\ \A a \in UserActions : a.fn # "runtime"
BY ProgramActions, SignalClasses DEF Action, Runtime, Plain, Threads

LEMMA NewFrameType ==
  ASSUME NEW s \in Signals, NEW async \in BOOLEAN, NEW pc \in {"Handler", "HandlerImpl"},
         NEW uc \in SUBSET Signals
  PROVE  NewFrame(s, async, pc, uc) \in Frame
BY ActionTypes DEF Frame, NewFrame

LEMMA InitTypes == Init => TypeOK
BY ActionTypes, ProgramSets DEF Init, TypeOK, Call, NoCall

\* What SetTop, Push and Pop make of the stacks.
Below(q, r, n) == \A i \in 1..n : r[i] = q[i]
Replaces(q, r, f) ==
  /\ q \in Seq(Frame) /\ r \in Seq(Frame) /\ f \in Frame /\ q # <<>> /\ r # <<>>
  /\ Len(q) \in Nat \ {0} /\ Len(r) = Len(q) /\ r[Len(q)] = f
  /\ q[Len(q)] \in Frame /\ Below(q, r, Len(q) - 1)
Adds(q, r, f) ==
  /\ q \in Seq(Frame) /\ r \in Seq(Frame) /\ f \in Frame /\ r # <<>>
  /\ Len(q) \in Nat /\ Len(r) = Len(q) + 1 /\ r[Len(q) + 1] = f /\ Below(q, r, Len(q))
Drops(q, r) ==
  /\ q \in Seq(Frame) /\ r \in Seq(Frame) /\ q # <<>>
  /\ Len(q) \in Nat \ {0} /\ Len(r) = Len(q) - 1 /\ q[Len(q)] \in Frame
  /\ Below(q, r, Len(q) - 1)

\* The stacks of the other threads stay.
Only(t) == \A u \in Threads : u # t => frames'[u] = frames[u]

LEMMA TopFrame ==
  ASSUME TypeOK, NEW t \in Threads, frames[t] # <<>>
  PROVE  Top(t) = frames[t][Len(frames[t])] /\ Top(t) \in Frame
<1>1. frames[t] \in Seq(Frame)
  BY DEF TypeOK
<1>2. QED
  BY <1>1, FrontLast DEF Top

LEMMA SetTopEffect ==
  ASSUME TypeOK, NEW t \in Threads, NEW f \in Frame, frames[t] # <<>>, SetTop(t, f)
  PROVE  /\ frames' \in [Threads -> Seq(Frame)] /\ Only(t)
         /\ Replaces(frames[t], frames'[t], f)
<1>1. frames \in [Threads -> Seq(Frame)] /\ frames[t] \in Seq(Frame)
  BY DEF TypeOK
<1> DEFINE r == Append(Front(frames[t]), f)
<1>2. frames' = [frames EXCEPT ![t] = r]
  BY DEF SetTop
<1>3. Replaces(frames[t], r, f)
  BY <1>1, FrontLast, ReplaceTop DEF Replaces, Below
<1> HIDE DEF r
<1>4. r \in Seq(Frame)
  BY <1>3 DEF Replaces
<1>5. QED
  BY <1>1, <1>2, <1>3, <1>4 DEF Only

LEMMA PushEffect ==
  ASSUME TypeOK, NEW t \in Threads, NEW f \in Frame, Push(t, f)
  PROVE  /\ frames' \in [Threads -> Seq(Frame)] /\ Only(t)
         /\ Adds(frames[t], frames'[t], f)
<1>1. frames \in [Threads -> Seq(Frame)] /\ frames[t] \in Seq(Frame)
  BY DEF TypeOK
<1> DEFINE r == Append(frames[t], f)
<1>2. frames' = [frames EXCEPT ![t] = r]
  BY DEF Push
<1>3. Adds(frames[t], r, f)
  BY <1>1, AddTop DEF Adds, Below
<1> HIDE DEF r
<1>4. r \in Seq(Frame)
  BY <1>3 DEF Adds
<1>5. QED
  BY <1>1, <1>2, <1>3, <1>4 DEF Only

LEMMA PopEffect ==
  ASSUME TypeOK, NEW t \in Threads, frames[t] # <<>>, Pop(t)
  PROVE  /\ frames' \in [Threads -> Seq(Frame)] /\ Only(t)
         /\ Drops(frames[t], frames'[t])
         /\ mask' \in [Threads -> SUBSET Signals]
         /\ mask' = IF Top(t).isAsync THEN mask ELSE [mask EXCEPT ![t] = Top(t).uc]
<1>1. /\ frames \in [Threads -> Seq(Frame)] /\ frames[t] \in Seq(Frame)
      /\ mask \in [Threads -> SUBSET Signals]
  BY DEF TypeOK
<1> DEFINE r == Front(frames[t])
<1>2. frames' = [frames EXCEPT ![t] = r]
  BY DEF Pop
<1>3. Drops(frames[t], r)
  BY <1>1, FrontLast DEF Drops, Below
<1>4. mask' = IF Top(t).isAsync THEN mask ELSE [mask EXCEPT ![t] = Top(t).uc]
  BY DEF Pop
<1>5. Top(t).uc \in SUBSET Signals
  BY TopFrame DEF Frame
<1>6. mask' \in [Threads -> SUBSET Signals]
  BY <1>1, <1>4, <1>5
<1> HIDE DEF r
<1>7. r \in Seq(Frame)
  BY <1>3 DEF Drops
<1>8. QED
  BY <1>1, <1>2, <1>3, <1>4, <1>6, <1>7 DEF Only
\* The top of a stack and what Goto makes of it.
LEMMA TopAt ==
  ASSUME TypeOK, NEW t \in Threads, NEW pc, At(t, pc)
  PROVE  /\ frames[t] # <<>> /\ Top(t) \in Frame /\ Top(t).pc = pc
         /\ Top(t) = frames[t][Len(frames[t])] /\ Top(t).signal \in Signals
         /\ Len(frames[t]) \in 1..Len(frames[t])
<1>1. frames[t] # <<>> /\ Top(t).pc = pc /\ frames[t] \in Seq(Frame)
  BY DEF At, TypeOK
<1>2. Len(frames[t]) \in Nat \ {0}
  BY <1>1, FrontLast
<1>3. QED
  BY <1>1, <1>2, TopFrame DEF Frame

LEMMA GotoEffect ==
  ASSUME TypeOK, NEW t \in Threads, frames[t] # <<>>, NEW pc \in
           {"Handler", "HandlerImpl", "walk", "flag", "run", "action", "call", "user", "return"},
         Goto(t, pc)
  PROVE  /\ frames' \in [Threads -> Seq(Frame)] /\ Only(t)
         /\ Replaces(frames[t], frames'[t], [Top(t) EXCEPT !.pc = pc])
BY TopFrame, FrameFields, SetTopEffect DEF Goto

-----------------------------------------------------------------------------
(* Every frame: its signal is registered, the walk is inside the stack of   *)
(* handlers, and the action it read is the saved one.                       *)

InStack(f) ==
  /\ f.pc = "walk" => f.it <= Len(handlerStack[f.signal])
  /\ f.pc \in {"flag", "run"} => f.it \in 1..Len(handlerStack[f.signal])

Formed(f) == f.pc = "call" => f.flags = sigAction[f.signal] \/ f.signal \in torn

GoodFrame(f) == Registered(f.signal) /\ InStack(f) /\ Formed(f)

GoodFrames == \A t \in Threads : \A i \in 1..Len(frames[t]) : GoodFrame(frames[t][i])

\* A handler that declines leaves a place to go on from.
LEMMA CursorBack ==
  ASSUME TypeOK, GoodFrames, NEW t \in Threads, HandlerDeclines(t)
  PROVE  Top(t).it - 1 \in Nat
<1>1. /\ Top(t).signal \in Signals /\ Top(t).pc = "run" /\ GoodFrame(Top(t))
  BY TopAt DEF HandlerDeclines, GoodFrames
<1>2. handlerStack[Top(t).signal] \in Seq(Handler)
  BY <1>1 DEF TypeOK
<1>3. /\ Top(t).it \in 1..Len(handlerStack[Top(t).signal])
      /\ Len(handlerStack[Top(t).signal]) \in Nat
  BY <1>1, <1>2, LenProperties DEF GoodFrame, InStack
<1>4. QED
  BY <1>3

LEMMA ChainTypes ==
  ASSUME TypeOK, GoodFrames, NEW t \in Threads, Chain(t)
  PROVE  TypeOK'
<1>1. CASE SignalHandler(t)
  <2>1. frames[t] # <<>>
    BY <1>1, TopAt DEF SignalHandler
  <2>2. CASE RunsHere(Top(t).signal)
    <3>1. frames' \in [Threads -> Seq(Frame)]
      BY <1>1, <2>1, <2>2, GotoEffect DEF SignalHandler
    <3>2. QED
      BY <1>1, <2>2, <3>1 DEF SignalHandler, TypeOK, stackVars, threadVars, ghosts
  <2>3. CASE ~RunsHere(Top(t).signal)
    <3>1. frames' \in [Threads -> Seq(Frame)] /\ mask' \in [Threads -> SUBSET Signals]
      BY <1>1, <2>1, <2>3, PopEffect DEF SignalHandler
    <3>2. tasks' \subseteq Signals
      BY <1>1, <2>3, TopAt DEF SignalHandler, TypeOK
    <3>3. QED
      BY <1>1, <3>1, <3>2 DEF SignalHandler, TypeOK, stackVars, threadVars, ghosts
  <2>4. QED
    BY <2>2, <2>3
<1>2. CASE HandlerImpl(t)
  <2>1. frames' \in [Threads -> Seq(Frame)]
    <3>1. handlerStack[Top(t).signal] \in Seq(Handler)
      BY <1>2, TopAt DEF HandlerImpl, TypeOK
    <3>2. Len(handlerStack[Top(t).signal]) \in Nat
      BY <3>1, LenProperties
    <3>3. QED
      BY <1>2, <3>2, TopAt, FrameFields, GotoEffect, SetTopEffect DEF HandlerImpl
  <2>2. QED
    BY <1>2, <2>1 DEF HandlerImpl, TypeOK, stackVars, threadVars, ghosts
<1>3. CASE WalkStack(t)
  <2> DEFINE f == Top(t)  stack == handlerStack[f.signal]
  <2>1. /\ frames[t] # <<>> /\ f \in Frame /\ f.signal \in Signals
        /\ mask[t] \in SUBSET Signals /\ f.pc = "walk" /\ stack \in Seq(Handler)
    BY <1>3, TopAt DEF WalkStack, TypeOK
  <2>2. CASE f.it = 0 \/ stack[f.it].fn = NullAction
    <3>1. frames' \in [Threads -> Seq(Frame)] /\ mask' = mask
      BY <1>3, <2>1, <2>2, GotoEffect DEF WalkStack
    <3>2. QED
      BY <1>3, <3>1 DEF WalkStack, TypeOK, stackVars, threadVars, ghosts
  <2>3. CASE ~(f.it = 0 \/ stack[f.it].fn = NullAction)
    <3>1. f.it \in 1..Len(stack)
      <4>1. GoodFrame(f) /\ f.it \in Nat /\ Len(stack) \in Nat
        BY <1>3, <2>1, TopAt, LenProperties DEF WalkStack, GoodFrames, Frame
      <4>2. QED
        BY <2>1, <2>3, <4>1 DEF GoodFrame, InStack
    <3>2. stack[f.it].scMask \in SUBSET Signals
      <4>1. stack[f.it] \in Handler
        BY <2>1, <3>1, ElementOfSeq
      <4>2. QED
        BY <4>1 DEF Handler
    <3>3. frames' \in [Threads -> Seq(Frame)]
      BY <1>3, <2>1, <2>3, FrameFields, SetTopEffect DEF WalkStack
    <3>4. QED
      BY <1>3, <2>3, <3>2, <3>3 DEF WalkStack, TypeOK, stackVars, threadVars, ghosts
  <2>4. QED
    BY <2>2, <2>3
<1>4. CASE MarkHandling(t)
  <2>1. frames' \in [Threads -> Seq(Frame)]
    <3>1. GetHandlingSignal(t) \in BOOLEAN
      BY DEF GetHandlingSignal, TypeOK
    <3>2. QED
      BY <1>4, <3>1, TopAt, FrameFields, SetTopEffect DEF MarkHandling
  <2>2. QED
    BY <1>4, <2>1 DEF MarkHandling, SetHandlingSignal, TypeOK, stackVars, threadVars, ghosts
<1>5. CASE HandlerAccepts(t)
  <2>1. frames' \in [Threads -> Seq(Frame)] /\ Top(t).previous_value \in BOOLEAN
    BY <1>5, TopAt, GotoEffect DEF HandlerAccepts, Frame
  <2>2. QED
    BY <1>5, <2>1 DEF HandlerAccepts, SetHandlingSignal, TypeOK, stackVars, threadVars
<1>6. CASE HandlerDeclines(t)
  <2> DEFINE f == Top(t)
  <2>1. f \in Frame /\ frames[t] # <<>> /\ f.it - 1 \in Nat
    BY <1>6, TopAt, CursorBack DEF HandlerDeclines
  <2>2. frames' \in [Threads -> Seq(Frame)]
    BY <1>6, <2>1, FrameFields, SetTopEffect DEF HandlerDeclines
  <2>3. f.previous_mask \in SUBSET Signals /\ f.previous_value \in BOOLEAN
    BY <2>1 DEF Frame
  <2>4. QED
    BY <1>6, <2>2, <2>3 DEF HandlerDeclines, SetHandlingSignal, TypeOK, stackVars, threadVars, ghosts
<1>7. CASE ReadSavedAction(t)
  <2>1. frames' \in [Threads -> Seq(Frame)]
    <3>1. sigAction[Top(t).signal] \in Action
      BY <1>7, TopAt DEF ReadSavedAction, TypeOK
    <3>2. QED
      BY <1>7, <3>1, TopAt, FrameFields, SetTopEffect DEF ReadSavedAction
  <2>2. QED
    BY <1>7, <2>1 DEF ReadSavedAction, TypeOK, stackVars, threadVars, ghosts
<1>8. CASE CallSavedAction(t)
  <2> DEFINE f == Top(t)
  <2>1. f \in Frame /\ frames[t] # <<>> /\ f.signal \in Signals
    BY <1>8, TopAt DEF CallSavedAction
  <2>2. UserMask(f) \in SUBSET Signals
    BY <2>1 DEF UserMask, SigOrSet, Frame, Action
  <2>3. frames' \in [Threads -> Seq(Frame)]
    BY <1>8, <2>1, GotoEffect DEF CallSavedAction, TypeOK
  <2>4. /\ kernel' \in [Signals -> Action] /\ pending' \in [Threads -> SUBSET Signals]
        /\ mask' \in [Threads -> SUBSET Signals] /\ wild' \subseteq Signals
        /\ death' \in {"none", "default", "fault", "wild"}
    <3>1. /\ kernel' \in {kernel, [kernel EXCEPT ![f.signal] = Plain("dfl")]}
          /\ pending' \in {pending, [pending EXCEPT ![t] = @ \union {f.signal}]}
          /\ mask' \in {mask, [mask EXCEPT ![t] = UserMask(f)]}
          /\ wild' \in {wild, wild \union {f.signal}} /\ death' \in {death, "wild"}
      BY <1>8 DEF CallSavedAction
    <3>2. kernel' \in [Signals -> Action]
      BY <2>1, <3>1, ActionTypes DEF TypeOK
    <3>3. pending' \in [Threads -> SUBSET Signals]
      <4>1. /\ pending \in [Threads -> SUBSET Signals]
            /\ pending[t] \union {f.signal} \in SUBSET Signals
        BY <2>1 DEF TypeOK
      <4>2. QED
        BY <3>1, <4>1
    <3>4. mask' \in [Threads -> SUBSET Signals]
      BY <2>2, <3>1 DEF TypeOK
    <3>5. QED
      BY <2>1, <3>1, <3>2, <3>3, <3>4 DEF TypeOK
  <2>5. QED
    BY <1>8, <2>3, <2>4 DEF CallSavedAction, TypeOK, stackVars
<1>9. CASE UserFunctionReturns(t)
  <2>1. frames' \in [Threads -> Seq(Frame)]
    BY <1>9, TopAt, GotoEffect DEF UserFunctionReturns
  <2>2. QED
    BY <1>9, <2>1 DEF UserFunctionReturns, TypeOK, stackVars, threadVars, ghosts
<1>10. CASE HandlerReturn(t)
  <2>1. frames' \in [Threads -> Seq(Frame)] /\ mask' \in [Threads -> SUBSET Signals]
    BY <1>10, TopAt, PopEffect DEF HandlerReturn
  <2>2. QED
    BY <1>10, <2>1 DEF HandlerReturn, TypeOK, stackVars, threadVars, ghosts
<1>11. QED
  BY <1>1, <1>2, <1>3, <1>4, <1>5, <1>6, <1>7, <1>8, <1>9, <1>10 DEF Chain
LEMMA KernelTypes ==
  ASSUME TypeOK, Kernel
  PROVE  TypeOK'
<1>1. ASSUME NEW t \in Threads, NEW s \in Signals, Raise(t, s)
      PROVE  TypeOK'
  <2>1. pending[t] \union {s} \in SUBSET Signals
    BY DEF TypeOK
  <2>2. pending' \in [Threads -> SUBSET Signals]
    BY <1>1, <2>1 DEF Raise, TypeOK
  <2>3. QED
    BY <1>1, <2>2 DEF Raise, TypeOK, stackVars, ghosts
<1>2. ASSUME NEW t \in Threads, NEW s \in Signals, NEW uc \in SUBSET Signals,
             NEW async \in BOOLEAN, NEW pc \in {"Handler", "HandlerImpl"},
             Push(t, NewFrame(s, async, pc, uc))
      PROVE  frames' \in [Threads -> Seq(Frame)]
  BY <1>2, NewFrameType, PushEffect
<1>3. ASSUME NEW t \in Threads, mask' = [mask EXCEPT ![t] = Signals]
      PROVE  mask' \in [Threads -> SUBSET Signals]
  BY <1>3 DEF TypeOK
<1>4. ASSUME NEW t \in Threads, NEW s \in Signals, Deliver(t, s)
      PROVE  TypeOK'
  <2>1. mask[t] \in SUBSET Signals
    BY DEF TypeOK
  <2>2. frames' \in [Threads -> Seq(Frame)] /\ mask' \in [Threads -> SUBSET Signals]
    BY <1>2, <1>3, <1>4, <2>1 DEF Deliver, TypeOK
  <2>3. pending' \in [Threads -> SUBSET Signals]
    BY <1>4 DEF Deliver, TypeOK
  <2>4. death' \in {"none", "default", "fault", "wild"}
    BY <1>4 DEF Deliver, TypeOK
  <2>5. QED
    BY <1>4, <2>2, <2>3, <2>4 DEF Deliver, TypeOK, stackVars, ghosts
<1>5. ASSUME NEW t \in Threads, NEW s \in Signals, Fault(t, s)
      PROVE  TypeOK'
  <2>1. mask[t] \in SUBSET Signals
    BY DEF TypeOK
  <2>2. frames' \in [Threads -> Seq(Frame)] /\ mask' \in [Threads -> SUBSET Signals]
    BY <1>2, <1>3, <1>5, <2>1 DEF Fault, TypeOK
  <2>3. death' \in {"none", "default", "fault", "wild"}
    BY <1>5 DEF Fault, TypeOK
  <2>4. QED
    BY <1>5, <2>2, <2>3 DEF Fault, TypeOK, stackVars, ghosts
<1>6. ASSUME NEW w \in Workers, NEW s \in Signals, TakeTask(w, s)
      PROVE  TypeOK'
  <2>1. w \in Threads
    BY DEF Threads
  <2>2. frames' \in [Threads -> Seq(Frame)]
    BY <1>2, <1>6, <2>1 DEF TakeTask
  <2>3. tasks' \subseteq Signals
    BY <1>6 DEF TakeTask, TypeOK
  <2>4. QED
    BY <1>6, <2>2, <2>3 DEF TakeTask, TypeOK, stackVars, threadVars, ghosts
<1>7. QED
  BY <1>1, <1>4, <1>5, <1>6 DEF Kernel

LEMMA CallTypes ==
  ASSUME NEW s \in Signals, NEW a \in UserActions, NEW o \in UserSets,
         NEW how \in {"block", "unblock", "setmask"}, NEW m \in SUBSET Signals
  PROVE  /\ NoCall \in Call /\ [op |-> "mark", signal |-> s] \in Call
         /\ [op |-> "linked", signal |-> s, action |-> a] \in Call
         /\ [op |-> "setmask", how |-> how, set |-> o, marked |-> m] \in Call
BY DEF Call, NoCall

\* What the fields of a call in progress are.
LEMMA CallFields ==
  ASSUME TypeOK, NEW t \in Threads
  PROVE  /\ call[t].op = "mark" => call[t].signal \in Signals
         /\ call[t].op = "linked" =>
              call[t].signal \in Signals /\ call[t].action \in UserActions
         /\ call[t].op = "setmask" =>
              /\ call[t].how \in {"block", "unblock", "setmask"}
              /\ call[t].set \in UserSets /\ call[t].marked \in SUBSET Signals
BY DEF TypeOK, Call

LEMMA SetUpTypes ==
  ASSUME TypeOK, SetUp
  PROVE  TypeOK'
<1> USE ActionTypes
<1>1. ASSUME NEW c \in Call, Enter(Main, c)
      PROVE  call' \in [Threads -> Call]
  BY <1>1 DEF Enter, TypeOK
<1>2. CASE MarkSigMarks
  <2>1. call' \in [Threads -> Call] /\ isMark' \in [Signals -> BOOLEAN]
    BY <1>2, CallFields DEF MarkSigMarks, Calling, Leave, TypeOK, NoCall, Call
  <2>2. QED
    BY <1>2, <2>1 DEF MarkSigMarks, TypeOK, threadVars, ghosts
<1>3. ASSUME NEW s \in Signals, MarkSigRegisters(s)
      PROVE  TypeOK'
  <2>1. call' \in [Threads -> Call]
    BY <1>1, <1>3 DEF MarkSigRegisters, Call
  <2>2. kernel' \in [Signals -> Action] /\ sigAction' \in [Signals -> Action]
    BY <1>3 DEF MarkSigRegisters, Register, TypeOK
  <2>3. QED
    BY <1>3, <2>1, <2>2 DEF MarkSigRegisters, TypeOK, threadVars, ghosts
<1>4. ASSUME NEW s \in Signals, NEW sa \in Entries, AddHandler(s, sa)
      PROVE  TypeOK'
  <2>1. call' \in [Threads -> Call]
    BY <1>1, <1>4 DEF AddHandler, Call, NoCall
  <2>2. Append(handlerStack[s], sa) \in Seq(Handler)
    BY ProgramSets, AppendProperties DEF TypeOK
  <2>3. handlerStack' \in [Signals -> Seq(Handler)]
    BY <1>4, <2>2 DEF AddHandler, TypeOK
  <2>4. QED
    BY <1>4, <2>1, <2>3 DEF AddHandler, TypeOK, threadVars, ghosts
<1>5. ASSUME NEW s \in Signals, NEW fn \in Handlers, RemoveHandler(s, fn)
      PROVE  TypeOK'
  <2>1. call' \in [Threads -> Call]
    BY <1>1, <1>5 DEF RemoveHandler, Call, NoCall
  <2>2. PICK i \in 1..Len(handlerStack[s]) :
          handlerStack' = [handlerStack EXCEPT ![s] = RemoveAt(handlerStack[s], i)]
    <3>1. handlerStack[s] \in Seq(Handler)
      BY DEF TypeOK
    <3>2. DOMAIN handlerStack[s] = 1..Len(handlerStack[s])
      BY <3>1, LenProperties
    <3>3. QED
      BY <1>5, <3>2 DEF RemoveHandler, TypeOK
  <2>3. handlerStack[s] \in Seq(Handler)
    BY DEF TypeOK
  <2>4. handlerStack' \in [Signals -> Seq(Handler)]
    BY <2>2, <2>3, WithoutOne DEF TypeOK
  <2>5. QED
    BY <1>5, <2>1, <2>4 DEF RemoveHandler, TypeOK, threadVars, ghosts
<1>6. ASSUME NEW s \in Signals, NEW flag \in BOOLEAN, SetUserSigHandler(s, flag)
      PROVE  TypeOK'
  <2>1. call' \in [Threads -> Call]
    BY <1>1, <1>6 DEF SetUserSigHandler, Call, NoCall
  <2>2. QED
    BY <1>6, <2>1 DEF SetUserSigHandler, TypeOK, threadVars, ghosts
<1>7. QED
  BY <1>2, <1>3, <1>4, <1>5, <1>6 DEF SetUp
LEMMA FilterTypes ==
  ASSUME TypeOK, NEW t \in Threads, NEW how, NEW o \in UserSets, Filter(t, how, o)
  PROVE  userSet' \in [UserSets -> SUBSET Signals]
<1>1. AdjustSignalMask(how, userSet[o]) \in SUBSET Signals
  BY DEF AdjustSignalMask, TypeOK
<1>2. QED
  BY <1>1 DEF Filter, TypeOK

LEMMA NewMaskType ==
  ASSUME NEW how \in {"block", "unblock", "setmask"}, NEW old \in SUBSET Signals,
         NEW set \in SUBSET Signals
  PROVE  NewMask(how, old, set) \in SUBSET Signals
BY DEF NewMask

LEMMA ProgramTypes ==
  ASSUME TypeOK, NEW t \in Threads, Program(t)
  PROVE  TypeOK'
<1>1. ASSUME NEW c \in Call, Enter(t, c)
      PROVE  call' \in [Threads -> Call]
  BY <1>1 DEF Enter, TypeOK
<1>2. ASSUME Leave(t)
      PROVE  call' \in [Threads -> Call]
  BY <1>2 DEF Leave, TypeOK, NoCall, Call
<1>3. ASSUME NEW s \in Signals, NEW a \in UserActions, SigactionMarked(t, s, a)
      PROVE  TypeOK'
  <2>1. call' \in [Threads -> Call]
    BY <1>1, <1>3 DEF SigactionMarked, Call, NoCall
  <2>2. sigAction' \in [Signals -> Action] /\ userView' \in [Signals -> Action]
    BY <1>3, ActionTypes DEF SigactionMarked, SetAction, TypeOK
  <2>3. QED
    BY <1>3, <2>1, <2>2 DEF SigactionMarked, TypeOK, threadVars
<1>4. ASSUME NEW s \in Signals, NEW a \in UserActions, SigactionUnmarked(t, s, a)
      PROVE  TypeOK'
  <2>1. call' \in [Threads -> Call]
    BY <1>1, <1>4 DEF SigactionUnmarked, Call
  <2>2. QED
    BY <1>4, <2>1 DEF SigactionUnmarked, TypeOK, stackVars, threadVars, ghosts
<1>5. ASSUME NEW s \in Signals, NEW a \in UserActions, Sigaction(t, s, a) \/ Signal(t, s, a)
      PROVE  TypeOK'
  BY <1>3, <1>4, <1>5 DEF Sigaction, Signal
<1>6. CASE SigactionLinked(t)
  <2>1. call[t].signal \in Signals /\ call[t].action \in Action
    BY <1>6, CallFields, ActionTypes DEF SigactionLinked, Calling
  <2>2. kernel' \in [Signals -> Action] /\ userView' \in [Signals -> Action]
    BY <1>6, <2>1 DEF SigactionLinked, TypeOK
  <2>3. call' \in [Threads -> Call]
    BY <1>2, <1>6 DEF SigactionLinked
  <2>4. QED
    BY <1>6, <2>2, <2>3 DEF SigactionLinked, TypeOK, stackVars, threadVars
<1>7. CASE SigprocmaskLinked(t)
  <2> DEFINE new == NewMask(call[t].how, mask[t], userSet[call[t].set])
  <2>1. new \in SUBSET Signals
    <3>1. call[t].how \in {"block", "unblock", "setmask"} /\ call[t].set \in UserSets
      BY <1>7, CallFields DEF SigprocmaskLinked, Calling
    <3>2. mask[t] \in SUBSET Signals /\ userSet[call[t].set] \in SUBSET Signals
      BY <3>1 DEF TypeOK
    <3>3. QED
      BY <3>1, <3>2, NewMaskType
  <2>2. /\ mask' = [mask EXCEPT ![t] = new]
        /\ early' = [early EXCEPT ![t] = (early[t] \union (new \ call[t].marked)) \intersect new]
    BY <1>7 DEF SigprocmaskLinked, TypeOK
  <2> HIDE DEF new
  <2>3. mask' \in [Threads -> SUBSET Signals] /\ early' \in [Threads -> SUBSET Signals]
    <3>1. (early[t] \union (new \ call[t].marked)) \intersect new \in SUBSET Signals
      BY <2>1
    <3>2. QED
      BY <2>1, <2>2, <3>1 DEF TypeOK
  <2>4. call' \in [Threads -> Call]
    BY <1>2, <1>7 DEF SigprocmaskLinked
  <2>5. QED
    BY <1>7, <2>3, <2>4 DEF SigprocmaskLinked, TypeOK, stackVars
<1>8. ASSUME NEW how \in {"block", "unblock", "setmask"}, NEW o \in UserSets,
             SigprocmaskFilter(t, how, o)
      PROVE  TypeOK'
  <2>1. call' \in [Threads -> Call]
    <3>1. {s \in Signals : isMark[s]} \in SUBSET Signals
      OBVIOUS
    <3> DEFINE m == {s \in Signals : isMark[s]}
               c == [op |-> "setmask", how |-> how, set |-> o, marked |-> m]
    <3> HIDE DEF m
    <3>2. c \in Call
      BY <3>1 DEF Call, m
    <3>3. Enter(t, c)
      BY <1>8 DEF SigprocmaskFilter, m
    <3> QED
      BY <1>1, <3>2, <3>3
  <2>2. userSet' \in [UserSets -> SUBSET Signals]
    BY <1>8, FilterTypes DEF SigprocmaskFilter
  <2>3. QED
    BY <1>8, <2>1, <2>2 DEF SigprocmaskFilter, TypeOK, stackVars, threadVars, ghosts
<1>9. ASSUME NEW how \in {"block", "unblock", "setmask"}, NEW o \in UserSets,
             SigprocmaskInHandler(t, how, o)
      PROVE  TypeOK'
  <2>1. userSet' \in [UserSets -> SUBSET Signals]
    BY <1>9, FilterTypes DEF SigprocmaskInHandler
  <2>2. NewMask(how, mask[t], userSet'[o]) \in SUBSET Signals
    BY <2>1, NewMaskType DEF TypeOK
  <2>3. mask' \in [Threads -> SUBSET Signals]
    BY <1>9, <2>2 DEF SigprocmaskInHandler, TypeOK
  <2>4. QED
    BY <1>9, <2>1, <2>3 DEF SigprocmaskInHandler, TypeOK, stackVars, ghosts
<1>10. QED
  BY <1>5, <1>6, <1>7, <1>8, <1>9 DEF Program

LEMMA NextTypes ==
  ASSUME TypeOK, GoodFrames, Next
  PROVE  TypeOK'
BY SetUpTypes, KernelTypes, ProgramTypes, ChainTypes DEF Next

LEMMA StutterTypes ==
  ASSUME TypeOK, UNCHANGED vars
  PROVE  TypeOK'
BY DEF vars, stackVars, threadVars, ghosts, TypeOK
-----------------------------------------------------------------------------
(* Registered signals stay registered *)

LEMMA CallKept ==
  ASSUME TypeOK, NEW t \in Threads, NEW c, isMark' = isMark,
         call' = [call EXCEPT ![t] = c],
         t = Main => call[t].op # "mark" /\ c.op # "mark"
  PROVE  \A s : Registered(s)' <=> Registered(s)
BY ActionTypes DEF Registered, TypeOK

LEMMA RegisteredQuiet ==
  ASSUME UNCHANGED <<isMark, call>>
  PROVE  \A s : Registered(s)' <=> Registered(s)
BY DEF Registered

LEMMA RegisteredProgram ==
  ASSUME TypeOK, NEW t \in Threads, Program(t)
  PROVE  \A s : Registered(s)' <=> Registered(s)
<1>1. ASSUME NEW s, NEW a, SigactionMarked(t, s, a)
      PROVE  \A x : Registered(x)' <=> Registered(x)
  BY <1>1, CallKept DEF SigactionMarked, Calling, Enter, NoCall
<1>2. ASSUME NEW s, NEW a, SigactionUnmarked(t, s, a)
      PROVE  \A x : Registered(x)' <=> Registered(x)
  <2> DEFINE c == [op |-> "linked", signal |-> s, action |-> a]
  <2>1. c.op # "mark" /\ call[t].op # "mark" /\ isMark' = isMark
    BY <1>2 DEF SigactionUnmarked, Calling, stackVars
  <2>2. call' = [call EXCEPT ![t] = c]
    BY <1>2 DEF SigactionUnmarked, Enter
  <2> HIDE DEF c
  <2> QED
    BY <2>1, <2>2, CallKept
<1>3. CASE SigactionLinked(t)
  BY <1>3, CallKept DEF SigactionLinked, Calling, Leave, NoCall, stackVars
<1>4. CASE SigprocmaskLinked(t)
  BY <1>4, CallKept DEF SigprocmaskLinked, Calling, Leave, NoCall, stackVars
<1>5. ASSUME NEW how, NEW o, SigprocmaskFilter(t, how, o)
      PROVE  \A x : Registered(x)' <=> Registered(x)
  <2> DEFINE c == [op |-> "setmask", how |-> how, set |-> o, marked |-> {s \in Signals : isMark[s]}]
  <2>1. c.op # "mark" /\ call[t].op # "mark" /\ isMark' = isMark
    BY <1>5 DEF SigprocmaskFilter, Calling, stackVars
  <2>2. call' = [call EXCEPT ![t] = c]
    BY <1>5 DEF SigprocmaskFilter, Enter
  <2> HIDE DEF c
  <2> QED
    BY <2>1, <2>2, CallKept
<1>6. ASSUME NEW how, NEW o, SigprocmaskInHandler(t, how, o)
      PROVE  \A x : Registered(x)' <=> Registered(x)
  BY <1>6, RegisteredQuiet DEF SigprocmaskInHandler, stackVars
<1>7. QED
  BY <1>1, <1>2, <1>3, <1>4, <1>5, <1>6 DEF Program, Sigaction, Signal

\* Only MarkSig registers a signal.
LEMMA RegisteredSetUp ==
  ASSUME TypeOK, SetUp, NEW x \in Signals
  PROVE  Registered(x)' <=> Registered(x) \/ MarkSigRegisters(x)
<1> USE ActionTypes
<1>1. CASE MarkSigMarks
  BY <1>1, CallFields DEF MarkSigMarks, Calling, Leave, Registered, TypeOK, NoCall, MarkSigRegisters, Free
<1>2. ASSUME NEW s \in Signals, MarkSigRegisters(s)
      PROVE  /\ Registered(s)' /\ \A y \in Signals \ {s} : Registered(y)' <=> Registered(y)
             /\ ~Registered(s) /\ \A y \in Signals \ {s} : ~MarkSigRegisters(y)
  <2>1. /\ call' = [call EXCEPT ![Main] = [op |-> "mark", signal |-> s]]
        /\ call[Main].op = "none" /\ isMark' = isMark /\ ~isMark[s]
    BY <1>2 DEF MarkSigRegisters, Enter, Calling
  <2>2. /\ Registered(s)' /\ \A y \in Signals \ {s} : Registered(y)' <=> Registered(y)
        /\ ~Registered(s)
    BY <2>1 DEF Registered, TypeOK
  <2>3. ASSUME NEW y \in Signals \ {s}
        PROVE  ~MarkSigRegisters(y)
    <3>1. SUFFICES ASSUME MarkSigRegisters(y) PROVE FALSE
      OBVIOUS
    <3>2. call'[Main].signal = y /\ call'[Main].signal = s
      BY <2>1, <3>1 DEF MarkSigRegisters, Enter, TypeOK
    <3>3. QED
      BY <3>2
  <2>4. QED
    BY <2>2, <2>3
<1>3. ASSUME UNCHANGED isMark, Calling(Main, "none"), Enter(Main, NoCall)
      PROVE  (Registered(x)' <=> Registered(x)) /\ ~MarkSigRegisters(x)
  BY <1>3, CallKept DEF Enter, Calling, NoCall, MarkSigRegisters, TypeOK
<1>4. ASSUME NEW s \in Signals, NEW sa \in Entries, AddHandler(s, sa)
      PROVE  (Registered(x)' <=> Registered(x)) /\ ~MarkSigRegisters(x)
  BY <1>3, <1>4 DEF AddHandler
<1>5. ASSUME NEW s \in Signals, NEW fn \in Handlers, RemoveHandler(s, fn)
      PROVE  (Registered(x)' <=> Registered(x)) /\ ~MarkSigRegisters(x)
  BY <1>3, <1>5 DEF RemoveHandler
<1>6. ASSUME NEW s \in Signals, NEW flag \in BOOLEAN, SetUserSigHandler(s, flag)
      PROVE  (Registered(x)' <=> Registered(x)) /\ ~MarkSigRegisters(x)
  BY <1>3, <1>6 DEF SetUserSigHandler
<1>7. QED
  BY <1>1, <1>2, <1>4, <1>5, <1>6 DEF SetUp

LEMMA RegisteredStays ==
  ASSUME TypeOK, Next
  PROVE  \A s \in Signals : Registered(s) => Registered(s)'
<1>1. ASSUME NEW t \in Threads, Chain(t)
      PROVE  UNCHANGED <<isMark, call>>
  BY <1>1 DEF Chain, SignalHandler, HandlerImpl, WalkStack, MarkHandling, HandlerAccepts,
     HandlerDeclines, ReadSavedAction, CallSavedAction, UserFunctionReturns, HandlerReturn, stackVars
<1>2. CASE Kernel
  BY <1>2, RegisteredQuiet DEF Kernel, Raise, Deliver, Fault, TakeTask, stackVars
<1>3. QED
  BY <1>1, <1>2, RegisteredQuiet, RegisteredProgram, RegisteredSetUp DEF Next
-----------------------------------------------------------------------------
(* GoodFrames in every step *)

\* A step that keeps the stacks.
LEMMA GoodQuiet ==
  ASSUME TypeOK, GoodFrames, SetUp \/ \E t \in Threads : Program(t)
  PROVE  GoodFrames'
<1>1. frames' = frames
  BY DEF SetUp, MarkSigMarks, MarkSigRegisters, AddHandler, RemoveHandler, SetUserSigHandler,
     Program, Sigaction, Signal, SigactionMarked, SigactionUnmarked, SigactionLinked,
     SigprocmaskLinked, SigprocmaskFilter, SigprocmaskInHandler
<1>2. ASSUME NEW u \in Threads, NEW i \in 1..Len(frames[u]), NEW f, f = frames[u][i]
      PROVE  GoodFrame(f)'
  <2>1. frames[u] \in Seq(Frame) /\ f \in Frame /\ i \in DOMAIN frames[u]
    BY <1>2, ElementOfSeq, LenProperties DEF TypeOK
  <2>2. f.signal \in Signals /\ GoodFrame(f)
    BY <1>2, <2>1 DEF GoodFrames, Frame
  <2>3. Registered(f.signal)'
    BY <2>2, RegisteredStays DEF Next, GoodFrame
  <2>4. CASE \E t \in Threads : Program(t)
    <3>1. handlerStack' = handlerStack
      BY <2>4 DEF Program, Sigaction, Signal, SigactionMarked, SigactionUnmarked,
         SigactionLinked, SigprocmaskLinked, SigprocmaskFilter, SigprocmaskInHandler, stackVars
    <3>2. ASSUME NEW t \in Threads, NEW s \in Signals, NEW a, SigactionMarked(t, s, a)
          PROVE  Formed(f)'
      <4>1. CASE f.signal = s /\ f.pc = "call"
        BY <1>2, <2>1, <3>2, <4>1 DEF SigactionMarked, SetAction, Reading, Formed
      <4>2. CASE f.signal # s \/ f.pc # "call"
        BY <2>2, <3>2, <4>2 DEF SigactionMarked, SetAction, Formed, GoodFrame, TypeOK
      <4>3. QED
        BY <4>1, <4>2
    <3>3. UNCHANGED sigAction /\ torn' = torn => Formed(f)'
      BY <2>2 DEF Formed, GoodFrame
    <3>4. Formed(f)'
      BY <2>4, <3>2, <3>3 DEF Program, Sigaction, Signal, SigactionUnmarked,
         SigactionLinked, SigprocmaskLinked, SigprocmaskFilter, SigprocmaskInHandler, stackVars, ghosts
    <3>5. QED
      BY <2>2, <2>3, <3>1, <3>4 DEF GoodFrame, InStack
  <2>5. CASE SetUp
    <3>1. Formed(f)'
      <4>1. ASSUME NEW s \in Signals, MarkSigRegisters(s)
            PROVE  Formed(f)'
        <5>1. f.signal # s
          BY <2>2, <4>1 DEF MarkSigRegisters, Calling, GoodFrame, Registered
        <5>2. sigAction'[f.signal] = sigAction[f.signal] /\ torn' = torn
          BY <2>2, <4>1, <5>1 DEF MarkSigRegisters, Register, TypeOK, ghosts
        <5>3. QED
          BY <2>2, <5>2 DEF GoodFrame, Formed
      <4>2. UNCHANGED sigAction /\ torn' = torn => Formed(f)'
        BY <2>2 DEF Formed, GoodFrame
      <4>3. QED
        BY <2>5, <4>1, <4>2 DEF SetUp, MarkSigMarks, AddHandler, RemoveHandler,
           SetUserSigHandler, ghosts
    <3>2. InStack(f)'
      <4>1. UNCHANGED handlerStack => InStack(f)'
        BY <2>2 DEF InStack, GoodFrame
      <4>2. ASSUME NEW s \in Signals, NEW v, ~InChain(s),
                   handlerStack' = [handlerStack EXCEPT ![s] = v]
            PROVE  InStack(f)'
        <5>1. CASE f.signal = s
          <6>1. f.pc \notin {"walk", "flag", "run"}
            BY <1>2, <2>1, <4>2, <5>1 DEF InChain
          <6>2. QED
            BY <6>1 DEF InStack
        <5>2. CASE f.signal # s
          BY <2>2, <4>2, <5>2 DEF InStack, GoodFrame, TypeOK
        <5>3. QED
          BY <5>1, <5>2
      <4>3. ASSUME NEW s \in Signals, NEW sa, AddHandler(s, sa)
            PROVE  InStack(f)'
        BY <4>2, <4>3 DEF AddHandler
      <4>4. ASSUME NEW s \in Signals, NEW fn, RemoveHandler(s, fn)
            PROVE  InStack(f)'
        BY <4>2, <4>4 DEF RemoveHandler
      <4>5. QED
        BY <2>5, <4>1, <4>3, <4>4 DEF SetUp, MarkSigMarks, MarkSigRegisters, SetUserSigHandler
    <3>3. QED
      BY <2>3, <3>1, <3>2 DEF GoodFrame
  <2>6. QED
    BY <2>4, <2>5
<1>3. QED
  BY <1>1, <1>2 DEF GoodFrames, GoodFrame, Registered, InStack, Formed

\* A step of a stack that keeps everything GoodFrame looks at.
LEMMA GoodStack ==
  ASSUME TypeOK, GoodFrames, NEW t \in Threads, Only(t),
         UNCHANGED <<isMark, call, handlerStack, sigAction, torn>>,
         NEW f, GoodFrame(f),
         \/ Replaces(frames[t], frames'[t], f)
         \/ Adds(frames[t], frames'[t], f)
         \/ Drops(frames[t], frames'[t])
  PROVE  GoodFrames'
<1>1. ASSUME NEW u \in Threads, NEW i \in 1..Len(frames'[u])
      PROVE  GoodFrame(frames'[u][i])
  <2>1. CASE u # t
    BY <1>1, <2>1 DEF Only, GoodFrames
  <2>2. CASE u = t
    <3>1. frames'[t][i] = f \/ (i \in 1..Len(frames[t]) /\ frames'[t][i] = frames[t][i])
      BY <1>1, <2>2 DEF Replaces, Adds, Drops, Below
    <3>2. QED
      BY <2>2, <3>1 DEF GoodFrames
  <2>3. QED
    BY <2>1, <2>2
<1>2. QED
  BY <1>1 DEF GoodFrames, GoodFrame, Registered, InStack, Formed
LEMMA GoodChain ==
  ASSUME TypeOK, GoodFrames, NEW t \in Threads, Chain(t)
  PROVE  GoodFrames'
<1> DEFINE f == Top(t)
           n == Len(handlerStack[f.signal])
<1>1. PICK pc : At(t, pc)
  BY DEF Chain, SignalHandler, HandlerImpl, WalkStack, MarkHandling, HandlerAccepts,
     HandlerDeclines, ReadSavedAction, CallSavedAction, UserFunctionReturns, HandlerReturn
<1>2. /\ frames[t] # <<>> /\ f \in Frame /\ f.signal \in Signals /\ GoodFrame(f)
      /\ Len(frames[t]) \in 1..Len(frames[t])
  BY <1>1, TopAt DEF GoodFrames
<1>3. n \in Nat
  BY <1>2, LenProperties DEF TypeOK
<1>4. UNCHANGED <<isMark, call, handlerStack, sigAction, torn>>
  BY DEF Chain, SignalHandler, HandlerImpl, WalkStack, MarkHandling, HandlerAccepts,
     HandlerDeclines, ReadSavedAction, CallSavedAction, UserFunctionReturns, HandlerReturn,
     stackVars, ghosts
<1>5. ASSUME NEW to \in {"HandlerImpl", "action", "user", "return"}, Goto(t, to)
      PROVE  GoodFrames'
  <2> DEFINE g == [f EXCEPT !.pc = to]
  <2>1. Only(t) /\ Replaces(frames[t], frames'[t], g)
    BY <1>2, <1>5, GotoEffect
  <2>2. GoodFrame(g)
    BY <1>2 DEF GoodFrame, InStack, Formed, Frame
  <2> HIDE DEF g
  <2>3. QED
    BY <1>4, <2>1, <2>2, GoodStack
<1>6. ASSUME Pop(t)
      PROVE  GoodFrames'
  BY <1>2, <1>4, <1>6, PopEffect, GoodStack
<1>7. ASSUME NEW g \in Frame, SetTop(t, g), GoodFrame(g)
      PROVE  GoodFrames'
  BY <1>2, <1>4, <1>7, SetTopEffect, GoodStack
<1>8. CASE SignalHandler(t)
  BY <1>5, <1>6, <1>8 DEF SignalHandler
<1>9. CASE HandlerImpl(t)
  <2> DEFINE g == [f EXCEPT !.pc = "walk", !.it = n]
  <2>1. g \in Frame
    BY <1>2, <1>3, FrameFields
  <2>2. GoodFrame(g)
    BY <1>2, <1>3 DEF GoodFrame, InStack, Formed, Frame
  <2>3. Goto(t, "action") \/ SetTop(t, g)
    BY <1>9 DEF HandlerImpl
  <2> HIDE DEF g
  <2>4. QED
    BY <1>5, <1>7, <2>1, <2>2, <2>3
<1>10. CASE WalkStack(t)
  <2> DEFINE g == [f EXCEPT !.pc = "flag", !.previous_mask = mask[t]]
  <2>1. g \in Frame
    BY <1>2, FrameFields DEF TypeOK
  <2>2. CASE f.it = 0 \/ handlerStack[f.signal][f.it].fn = NullAction
    BY <1>5, <1>10, <2>2 DEF WalkStack
  <2>3. CASE ~(f.it = 0 \/ handlerStack[f.signal][f.it].fn = NullAction)
    <3>1. SetTop(t, g)
      BY <1>10, <2>3 DEF WalkStack
    <3>2. f.pc = "walk"
      BY <1>10 DEF WalkStack, At
    <3>3. GoodFrame(g)
      BY <1>2, <1>3, <2>3, <3>2 DEF GoodFrame, InStack, Formed, Frame
    <3> HIDE DEF g
    <3>4. QED
      BY <1>7, <2>1, <3>1, <3>3
  <2>4. QED
    BY <2>2, <2>3
<1>11. CASE MarkHandling(t)
  <2> DEFINE g == [f EXCEPT !.pc = "run", !.previous_value = GetHandlingSignal(t)]
  <2>1. g \in Frame /\ f.pc = "flag"
    BY <1>2, <1>11, FrameFields DEF TypeOK, GetHandlingSignal, MarkHandling, At
  <2>2. GoodFrame(g)
    BY <1>2, <2>1 DEF GoodFrame, InStack, Formed, Frame
  <2>3. SetTop(t, g)
    BY <1>11 DEF MarkHandling
  <2> HIDE DEF g
  <2>4. QED
    BY <1>7, <2>1, <2>2, <2>3
<1>12. CASE HandlerAccepts(t)
  BY <1>5, <1>12 DEF HandlerAccepts
<1>13. CASE HandlerDeclines(t)
  <2> DEFINE g == [f EXCEPT !.pc = "walk", !.it = f.it - 1]
  <2>1. f.pc = "run"
    BY <1>13 DEF HandlerDeclines, At
  <2>2. f.it \in 1..n
    BY <1>2, <2>1 DEF GoodFrame, InStack
  <2>3. g \in Frame
    <3>1. f.it - 1 \in Nat
      BY <1>3, <2>2
    <3>2. QED
      BY <1>2, <3>1, FrameFields
  <2>4. GoodFrame(g)
    BY <1>2, <1>3, <2>2 DEF GoodFrame, InStack, Formed, Frame
  <2>5. SetTop(t, g)
    BY <1>2, <1>13 DEF HandlerDeclines, Frame
  <2> HIDE DEF g
  <2>6. QED
    BY <1>7, <2>3, <2>4, <2>5
<1>14. CASE ReadSavedAction(t)
  <2> DEFINE g == [f EXCEPT !.pc = "call", !.flags = sigAction[f.signal]]
  <2>1. g \in Frame
    BY <1>2, FrameFields DEF TypeOK
  <2>2. GoodFrame(g)
    BY <1>2 DEF GoodFrame, InStack, Formed, Frame
  <2>3. SetTop(t, g)
    BY <1>14 DEF ReadSavedAction
  <2> HIDE DEF g
  <2>4. QED
    BY <1>7, <2>1, <2>2, <2>3
<1>15. CASE CallSavedAction(t)
  <2>1. frames' = frames \/ Goto(t, "user") \/ Goto(t, "return")
    BY <1>15 DEF CallSavedAction
  <2>2. CASE frames' = frames
    BY <1>4, <2>2 DEF GoodFrames, GoodFrame, Registered, InStack, Formed
  <2>3. QED
    BY <1>5, <2>1, <2>2
<1>16. CASE UserFunctionReturns(t)
  BY <1>5, <1>16 DEF UserFunctionReturns
<1>17. CASE HandlerReturn(t)
  BY <1>6, <1>17 DEF HandlerReturn
<1>18. QED
  BY <1>8, <1>9, <1>10, <1>11, <1>12, <1>13, <1>14, <1>15, <1>16, <1>17 DEF Chain

\* The runtime's handler is in the kernel, and a task in the queue, only for
\* registered signals.
Known ==
  /\ \A s \in Signals : kernel[s].fn = "runtime" => Registered(s)
  /\ \A s \in tasks : Registered(s)

LEMMA GoodKernel ==
  ASSUME TypeOK, GoodFrames, Known, Kernel
  PROVE  GoodFrames'
<1>1. UNCHANGED <<isMark, call, handlerStack, sigAction, torn>>
  BY DEF Kernel, Raise, Deliver, Fault, TakeTask, stackVars, ghosts
<1>2. CASE frames' = frames
  BY <1>1, <1>2 DEF GoodFrames, GoodFrame, Registered, InStack, Formed
<1>3. ASSUME NEW t \in Threads, NEW s \in Signals, NEW uc \in SUBSET Signals,
             NEW async \in BOOLEAN, NEW pc \in {"Handler", "HandlerImpl"},
             Push(t, NewFrame(s, async, pc, uc)), Registered(s)
      PROVE  GoodFrames'
  <2> DEFINE f == NewFrame(s, async, pc, uc)
  <2>1. GoodFrame(f)
    BY <1>3 DEF GoodFrame, InStack, Formed, NewFrame
  <2>2. f \in Frame
    BY NewFrameType
  <2> HIDE DEF f
  <2>3. Push(t, f)
    BY <1>3 DEF f
  <2>4. QED
    BY <1>1, <2>1, <2>2, <2>3, PushEffect, GoodStack
<1>4. ASSUME NEW t \in Threads, NEW s \in Signals, Deliver(t, s) \/ Fault(t, s)
      PROVE  GoodFrames'
  <2>1. \/ frames' = frames
        \/ kernel[s].fn = "runtime" /\ Push(t, NewFrame(s, FALSE, "Handler", mask[t]))
    BY <1>4 DEF Deliver, Fault
  <2>2. mask[t] \in SUBSET Signals
    BY DEF TypeOK
  <2>3. QED
    BY <1>2, <1>3, <2>1, <2>2 DEF Known
<1>5. ASSUME NEW w \in Workers, NEW s \in Signals, TakeTask(w, s)
      PROVE  GoodFrames'
  BY <1>3, <1>5 DEF TakeTask, Known, Threads
<1>6. QED
  BY <1>2, <1>4, <1>5 DEF Kernel, Raise
LEMMA NextGood ==
  ASSUME TypeOK, GoodFrames, Known, Next
  PROVE  GoodFrames'
BY GoodQuiet, GoodKernel, GoodChain DEF Next

-----------------------------------------------------------------------------
(* The actions of the program *)

ActionInv == TypeOK /\ GoodFrames /\ Known /\ ProgramSeesItsActions /\ NoWildCall

\* Steps that leave the actions alone, or put a registered signal back to the
\* kernel's default.
LEMMA ActionsQuiet ==
  ASSUME TypeOK, Known, ProgramSeesItsActions,
         UNCHANGED <<isMark, call, sigAction, userView, raced>>,
         \A s \in tasks' : s \in tasks \/ Registered(s),
         \/ UNCHANGED <<kernel, defaulted>>
         \/ \E s \in Signals : /\ kernel' = [kernel EXCEPT ![s] = Plain("dfl")]
                               /\ defaulted' = defaulted \union {s} /\ Registered(s)
  PROVE  Known' /\ ProgramSeesItsActions'
<1>1. \A s : Registered(s)' <=> Registered(s)
  BY RegisteredQuiet
<1>2. CASE UNCHANGED <<kernel, defaulted>>
  BY <1>1, <1>2 DEF Known, ProgramSeesItsActions
<1>3. ASSUME NEW s \in Signals, Registered(s),
             kernel' = [kernel EXCEPT ![s] = Plain("dfl")],
             defaulted' = defaulted \union {s}
      PROVE  Known' /\ ProgramSeesItsActions'
  <2>1. \A x \in Signals : x # s => kernel'[x] = kernel[x]
    BY <1>3 DEF TypeOK
  <2>2. Known'
    <3>1. kernel'[s].fn = "dfl"
      BY <1>3 DEF TypeOK, Plain
    <3>2. QED
      BY <1>1, <2>1, <3>1 DEF Known
  <2>3. ProgramSeesItsActions'
    BY <1>1, <1>3, <2>1 DEF ProgramSeesItsActions
  <2>4. QED
    BY <2>2, <2>3
<1>4. QED
  BY <1>2, <1>3

LEMMA ActionsChain ==
  ASSUME ActionInv, NEW t \in Threads, Chain(t)
  PROVE  Known' /\ ProgramSeesItsActions' /\ NoWildCall'
<1> DEFINE f == Top(t)
<1>1. TypeOK /\ GoodFrames /\ Known /\ ProgramSeesItsActions /\ NoWildCall
  BY DEF ActionInv
<1>2. PICK pc : At(t, pc)
  BY DEF Chain, SignalHandler, HandlerImpl, WalkStack, MarkHandling, HandlerAccepts,
     HandlerDeclines, ReadSavedAction, CallSavedAction, UserFunctionReturns, HandlerReturn
<1>3. f \in Frame /\ f.signal \in Signals /\ GoodFrame(f)
  BY <1>1, <1>2, TopAt DEF GoodFrames
<1>4. UNCHANGED <<isMark, call, sigAction, userView, raced, torn>>
  BY DEF Chain, SignalHandler, HandlerImpl, WalkStack, MarkHandling, HandlerAccepts,
     HandlerDeclines, ReadSavedAction, CallSavedAction, UserFunctionReturns, HandlerReturn,
     stackVars, ghosts
<1>5. CASE CallSavedAction(t)
  <2>1. tasks' = tasks
    BY <1>5 DEF CallSavedAction
  <2>2. \/ UNCHANGED <<kernel, defaulted>>
        \/ /\ kernel' = [kernel EXCEPT ![f.signal] = Plain("dfl")]
           /\ defaulted' = defaulted \union {f.signal}
    BY <1>5 DEF CallSavedAction
  <2>3. Known' /\ ProgramSeesItsActions'
    BY <1>1, <1>3, <1>4, <2>1, <2>2, ActionsQuiet DEF GoodFrame
  <2>4. NoWildCall'
    <3>1. f.pc = "call"
      BY <1>5 DEF CallSavedAction, At
    <3>2. f.flags = sigAction[f.signal] \/ f.signal \in torn
      BY <1>3, <3>1 DEF GoodFrame, Formed
    <3>3. wild' = wild \/ (wild' = wild \union {f.signal} /\ f.flags.info # sigAction[f.signal].info)
      BY <1>5 DEF CallSavedAction
    <3>4. QED
      BY <1>1, <1>4, <3>2, <3>3 DEF NoWildCall
  <2>5. QED
    BY <2>3, <2>4
<1>6. CASE ~CallSavedAction(t)
  <2>1. UNCHANGED <<kernel, defaulted, wild>>
    BY <1>6 DEF Chain, SignalHandler, HandlerImpl, WalkStack, MarkHandling, HandlerAccepts,
       HandlerDeclines, ReadSavedAction, UserFunctionReturns, HandlerReturn, ghosts
  <2>2. tasks' = tasks \/ tasks' = tasks \union {f.signal}
    BY <1>6 DEF Chain, SignalHandler, HandlerImpl, WalkStack, MarkHandling, HandlerAccepts,
       HandlerDeclines, ReadSavedAction, UserFunctionReturns, HandlerReturn
  <2>3. Known' /\ ProgramSeesItsActions'
    BY <1>1, <1>3, <1>4, <2>1, <2>2, ActionsQuiet DEF GoodFrame
  <2>4. QED
    BY <1>1, <1>4, <2>1, <2>3 DEF NoWildCall
<1>7. QED
  BY <1>5, <1>6

LEMMA ActionsKernel ==
  ASSUME ActionInv, Kernel
  PROVE  Known' /\ ProgramSeesItsActions' /\ NoWildCall'
<1>1. /\ UNCHANGED <<isMark, call, sigAction, userView, raced, torn, wild, kernel, defaulted>>
      /\ tasks' \subseteq tasks
  BY DEF Kernel, Raise, Deliver, Fault, TakeTask, stackVars, ghosts
<1>2. QED
  BY <1>1, ActionsQuiet DEF ActionInv, NoWildCall

LEMMA ActionsSetUp ==
  ASSUME ActionInv, SetUp
  PROVE  Known' /\ ProgramSeesItsActions' /\ NoWildCall'
<1>1. TypeOK /\ Known /\ ProgramSeesItsActions /\ NoWildCall
  BY DEF ActionInv
<1>2. UNCHANGED ghosts /\ tasks' = tasks
  BY DEF SetUp, MarkSigMarks, MarkSigRegisters, AddHandler, RemoveHandler, SetUserSigHandler
<1>3. ASSUME NEW s \in Signals, MarkSigRegisters(s)
      PROVE  Known' /\ ProgramSeesItsActions'
  <2>1. /\ kernel' = [kernel EXCEPT ![s] = Runtime]
        /\ sigAction' = [sigAction EXCEPT ![s] = kernel[s]]
        /\ ~Registered(s)
    BY <1>3 DEF MarkSigRegisters, Register, Calling, Registered
  <2>2. /\ kernel'[s] = Runtime /\ sigAction'[s] = kernel[s]
        /\ \A x \in Signals : x # s => kernel'[x] = kernel[x] /\ sigAction'[x] = sigAction[x]
    BY <1>1, <2>1 DEF TypeOK
  <2>3. Registered(s)' /\ \A x \in Signals : x # s => (Registered(x)' <=> Registered(x))
    <3>1. ASSUME NEW x \in Signals, x # s, MarkSigRegisters(x)
          PROVE  FALSE
      <4>1. call'[Main].signal = x /\ call'[Main].signal = s
        BY <1>1, <1>3, <3>1, ActionTypes DEF MarkSigRegisters, Enter, TypeOK
      <4>2. QED
        BY <3>1, <4>1
    <3>2. QED
      BY <1>1, <1>3, <3>1, RegisteredSetUp
  <2>4. Known'
    BY <1>1, <1>2, <2>2, <2>3 DEF Known, TypeOK
  <2>5. ProgramSeesItsActions'
    BY <1>1, <1>2, <2>1, <2>2, <2>3 DEF ProgramSeesItsActions, ghosts
  <2>6. QED
    BY <2>4, <2>5
<1>4. ASSUME \A s \in Signals : ~MarkSigRegisters(s)
      PROVE  Known' /\ ProgramSeesItsActions'
  <2>1. UNCHANGED <<kernel, sigAction>>
    BY <1>4 DEF SetUp, MarkSigMarks, AddHandler, RemoveHandler, SetUserSigHandler
  <2>2. \A s \in Signals : Registered(s)' <=> Registered(s)
    BY <1>1, <1>4, RegisteredSetUp
  <2>3. Known'
    BY <1>1, <1>2, <2>1, <2>2 DEF Known, TypeOK
  <2>4. UNCHANGED <<userView, raced, defaulted>>
    BY <1>2 DEF ghosts
  <2>5. ProgramSeesItsActions'
    BY <1>1, <2>1, <2>2, <2>4 DEF ProgramSeesItsActions
  <2>6. QED
    BY <2>3, <2>5
<1>5. Known' /\ ProgramSeesItsActions'
  BY <1>3, <1>4
<1>6. UNCHANGED <<wild, torn>>
  BY <1>2 DEF ghosts
<1>7. QED
  BY <1>1, <1>5, <1>6 DEF NoWildCall

LEMMA ActionsProgram ==
  ASSUME ActionInv, NEW t \in Threads, Program(t)
  PROVE  Known' /\ ProgramSeesItsActions' /\ NoWildCall'
<1>1. TypeOK /\ Known /\ ProgramSeesItsActions /\ NoWildCall
  BY DEF ActionInv
<1>2. \A s : Registered(s)' <=> Registered(s)
  BY <1>1, RegisteredProgram
<1>3. tasks' = tasks /\ wild' = wild /\ defaulted' = defaulted
  BY DEF Program, Sigaction, Signal, SigactionMarked, SigactionUnmarked, SigactionLinked,
     SigprocmaskLinked, SigprocmaskFilter, SigprocmaskInHandler, ghosts
<1>4. ASSUME UNCHANGED <<kernel, sigAction, userView, raced, torn>>
      PROVE  Known' /\ ProgramSeesItsActions' /\ NoWildCall'
  BY <1>1, <1>2, <1>3, <1>4 DEF Known, ProgramSeesItsActions, NoWildCall, TypeOK
<1>5. ASSUME NEW s \in Signals, NEW a \in UserActions, SigactionMarked(t, s, a)
      PROVE  Known' /\ ProgramSeesItsActions' /\ NoWildCall'
  <2>1. /\ kernel' = kernel /\ raced' = raced /\ torn \subseteq torn'
        /\ sigAction' = [sigAction EXCEPT ![s] = a]
        /\ userView' = [userView EXCEPT ![s] = a] /\ Registered(s)
    BY <1>5 DEF SigactionMarked, SetAction, Registered
  <2>2. /\ sigAction'[s] = userView'[s]
        /\ \A x \in Signals : x # s =>
             sigAction'[x] = sigAction[x] /\ userView'[x] = userView[x]
    BY <1>1, <2>1 DEF TypeOK
  <2>3. Known'
    BY <1>1, <1>2, <1>3, <2>1 DEF Known, TypeOK
  <2>4. ProgramSeesItsActions'
    BY <1>1, <1>2, <1>3, <2>1, <2>2 DEF ProgramSeesItsActions
  <2>5. QED
    BY <1>1, <1>3, <2>1, <2>3, <2>4 DEF NoWildCall
<1>6. CASE SigactionLinked(t)
  <2> DEFINE s == call[t].signal  a == call[t].action
  <2>1. s \in Signals /\ a \in UserActions
    BY <1>1, <1>6, CallFields DEF SigactionLinked, Calling
  <2>2. /\ raced' = IF Registered(s) THEN raced \union {s} ELSE raced
        /\ kernel' = [kernel EXCEPT ![s] = a] /\ userView' = [userView EXCEPT ![s] = a]
        /\ sigAction' = sigAction /\ torn' = torn
    BY <1>6 DEF SigactionLinked, stackVars
  <2> HIDE DEF s, a
  <2>3. /\ kernel'[s] = a /\ userView'[s] = a /\ a.fn # "runtime"
        /\ \A x \in Signals : x # s =>
             kernel'[x] = kernel[x] /\ userView'[x] = userView[x]
    BY <1>1, <2>1, <2>2, ActionTypes DEF TypeOK
  <2>4. Known'
    BY <1>1, <1>2, <1>3, <2>3 DEF Known
  <2>5. ProgramSeesItsActions'
    BY <1>1, <1>2, <1>3, <2>2, <2>3 DEF ProgramSeesItsActions
  <2>6. QED
    BY <1>1, <1>3, <2>2, <2>4, <2>5 DEF NoWildCall
<1>7. ASSUME NEW s, NEW a, SigactionUnmarked(t, s, a)
      PROVE  Known' /\ ProgramSeesItsActions' /\ NoWildCall'
  BY <1>4, <1>7 DEF SigactionUnmarked, stackVars, ghosts
<1>8. ASSUME \/ SigprocmaskLinked(t)
             \/ \E how, o : SigprocmaskFilter(t, how, o) \/ SigprocmaskInHandler(t, how, o)
      PROVE  Known' /\ ProgramSeesItsActions' /\ NoWildCall'
  BY <1>4, <1>8 DEF SigprocmaskLinked, SigprocmaskFilter, SigprocmaskInHandler, stackVars, ghosts
<1>9. QED
  BY <1>5, <1>6, <1>7, <1>8 DEF Program, Sigaction, Signal

LEMMA ActionInvInit == Init => ActionInv
<1> SUFFICES ASSUME Init PROVE ActionInv
  OBVIOUS
<1>1. TypeOK
  BY InitTypes
<1>2. GoodFrames
  BY EmptySeq DEF Init, GoodFrames
<1>3. Known /\ ProgramSeesItsActions /\ NoWildCall
  BY ActionTypes DEF Init, Known, ProgramSeesItsActions, NoWildCall, Plain, Registered, NoCall
<1>4. QED
  BY <1>1, <1>2, <1>3 DEF ActionInv

LEMMA ActionInvNext == ActionInv /\ [Next]_vars => ActionInv'
<1> SUFFICES ASSUME ActionInv, [Next]_vars PROVE ActionInv'
  OBVIOUS
<1>1. TypeOK /\ GoodFrames /\ Known
  BY DEF ActionInv
<1>2. CASE Next
  <2>1. TypeOK' /\ GoodFrames'
    BY <1>1, <1>2, NextTypes, NextGood
  <2>2. Known' /\ ProgramSeesItsActions' /\ NoWildCall'
    BY <1>2, ActionsSetUp, ActionsKernel, ActionsProgram, ActionsChain DEF Next
  <2>3. QED
    BY <2>1, <2>2 DEF ActionInv
<1>3. CASE UNCHANGED vars
  <2>1. TypeOK'
    BY <1>1, <1>3, StutterTypes
  <2>2. UNCHANGED <<kernel, isMark, sigAction, handlerStack, frames, tasks, call, userView,
                    raced, defaulted, torn, wild>>
    BY <1>3 DEF vars, stackVars, ghosts
  <2>3. GoodFrames'
    BY <1>1, <2>2 DEF GoodFrames, GoodFrame, Registered, InStack, Formed
  <2>4. Known' /\ ProgramSeesItsActions' /\ NoWildCall'
    BY <2>2 DEF ActionInv, Known, Registered, ProgramSeesItsActions, NoWildCall
  <2>5. QED
    BY <2>1, <2>3, <2>4 DEF ActionInv
<1>4. QED
  BY <1>2, <1>3

\* The chain's state has its types for any set of signals and threads; the
\* walk of Handler never leaves the vector of handlers (SignalStack.cpp:150).
THEOREM SignalTypes == Spec => []TypeOK
<1>1. ActionInv => TypeOK
  BY DEF ActionInv
<1>2. QED
  BY <1>1, ActionInvInit, ActionInvNext, PTL DEF Spec

\* The program's actions survive any order of registrations and calls
\* (SignalStack.cpp:266, 282-302, 313-339).
THEOREM ActionsAreKept == Spec => []ProgramSeesItsActions
<1>1. ActionInv => ProgramSeesItsActions
  BY DEF ActionInv
<1>2. QED
  BY <1>1, ActionInvInit, ActionInvNext, PTL DEF Spec

\* The saved action is called in its own form unless it was replaced between
\* the two reads (SignalStack.cpp:176-217).
THEOREM CallsAreFormed == Spec => []NoWildCall
<1>1. ActionInv => NoWildCall
  BY DEF ActionInv
<1>2. QED
  BY <1>1, ActionInvInit, ActionInvNext, PTL DEF Spec
-----------------------------------------------------------------------------
(* The handling mark.  q is the stack of a thread and h its mark: h is set   *)
(* exactly while a synchronous handler is active, and above an active one    *)
(* nothing walks the handlers.                                               *)

Walking == {"walk", "flag", "run"}
Active(f) == ~f.isAsync /\ f.pc = "run"

Handled(q, h) ==
  /\ h <=> \E i \in 1..Len(q) : Active(q[i])
  /\ \A i, j \in 1..Len(q) : i < j /\ q[j].pc \in Walking => ~Active(q[i])
  /\ \A i \in 1..Len(q) : q[i].pc = "run" => ~q[i].previous_value

\* While the top walks, no handler is active but its own.
LEMMA HandledTop ==
  ASSUME NEW q \in Seq(Frame), NEW h, Handled(q, h), Len(q) \in Nat \ {0},
         q[Len(q)].pc \in Walking
  PROVE  /\ h <=> Active(q[Len(q)])
         /\ q[Len(q)].pc = "run" => ~q[Len(q)].previous_value
<1>1. \A i \in 1..Len(q) : i = Len(q) \/ i < Len(q)
  OBVIOUS
<1>2. Len(q) \in 1..Len(q)
  OBVIOUS
<1>3. QED
  BY <1>1, <1>2 DEF Handled

LEMMA HandledReplaced ==
  ASSUME NEW q, NEW r, NEW f, NEW h \in BOOLEAN, NEW h2 \in BOOLEAN,
         Handled(q, h), Replaces(q, r, f),
         f.pc \in Walking => q[Len(q)].pc \in Walking \/ ~h,
         f.pc = "run" => ~f.previous_value,
         Active(f) => h2,
         ~Active(f) => h2 = (h /\ ~Active(q[Len(q)]))
  PROVE  Handled(r, h2)
<1> DEFINE n == Len(q)
<1>1. /\ n \in Nat \ {0} /\ Len(r) = n /\ r[n] = f /\ n \in 1..n
      /\ \A i \in 1..n : i < n => r[i] = q[i]
  BY DEF Replaces, Below
<1>2. \A i \in 1..n : i = n \/ i < n
  BY <1>1
<1> HIDE DEF n
<1>3. \A i, j \in 1..n : i < j /\ q[j].pc \in Walking => ~Active(q[i])
  BY DEF Handled, n
<1>4. f.pc \in Walking => \A i \in 1..n : i < n => ~Active(q[i])
  <2>1. ~h => \A i \in 1..n : ~Active(q[i])
    BY DEF Handled, n
  <2>2. QED
    BY <1>1, <1>3, <2>1 DEF n
<1>5. \A i, j \in 1..n : i < j /\ r[j].pc \in Walking => ~Active(r[i])
  <2>1. ASSUME NEW i \in 1..n, NEW j \in 1..n, i < j, r[j].pc \in Walking
        PROVE  ~Active(r[i])
    <3>1. i < n /\ r[i] = q[i] /\ (j = n \/ (j < n /\ r[j] = q[j]))
      BY <1>1, <1>2, <2>1
    <3>2. QED
      BY <1>1, <1>3, <1>4, <2>1, <3>1
  <2>2. QED
    BY <2>1
<1>6. \A i \in 1..n : r[i].pc = "run" => ~r[i].previous_value
  BY <1>1, <1>2 DEF Handled, n
<1>7. h2 <=> \E i \in 1..n : Active(r[i])
  <2>1. h <=> \E i \in 1..n : Active(q[i])
    BY DEF Handled, n
  <2>2. CASE Active(f)
    BY <1>1, <2>2
  <2>3. CASE ~Active(f) /\ ~Active(q[n])
    <3>1. \A i \in 1..n : Active(r[i]) <=> Active(q[i])
      BY <1>1, <1>2, <2>3
    <3>2. QED
      BY <2>1, <2>3, <3>1 DEF n
  <2>4. CASE ~Active(f) /\ Active(q[n])
    <3>1. q[n].pc \in Walking
      BY <2>4 DEF Active, Walking
    <3>2. \A i \in 1..n : i < n => ~Active(r[i])
      BY <1>1, <1>3, <3>1
    <3>3. \A i \in 1..n : ~Active(r[i])
      BY <1>1, <1>2, <2>4, <3>2
    <3>4. QED
      BY <2>4, <3>3 DEF n
  <2>5. QED
    BY <2>2, <2>3, <2>4
<1>8. QED
  BY <1>1, <1>5, <1>6, <1>7 DEF Handled

LEMMA HandledAdded ==
  ASSUME NEW q, NEW r, NEW f, NEW h, Handled(q, h), Adds(q, r, f), f.pc \notin Walking
  PROVE  Handled(r, h)
<1> DEFINE n == Len(q)
<1>1. /\ n \in Nat /\ Len(r) = n + 1 /\ r[n + 1] = f
      /\ \A i \in 1..n : r[i] = q[i]
  BY DEF Adds, Below
<1>2. /\ \A i \in 1..(n + 1) : i = n + 1 \/ i \in 1..n
      /\ \A i \in 1..n : i \in 1..(n + 1) /\ ~(n + 1 < i)
  BY <1>1
<1> HIDE DEF n
<1>3. ~Active(f) /\ f.pc # "run"
  BY DEF Active, Walking
<1>4. \A i \in 1..(n + 1) : Active(r[i]) => i \in 1..n /\ Active(q[i])
  BY <1>1, <1>2, <1>3
<1>5. h <=> \E i \in 1..(n + 1) : Active(r[i])
  BY <1>1, <1>2, <1>4 DEF Handled, n
<1>6. \A i, j \in 1..(n + 1) : i < j /\ r[j].pc \in Walking => ~Active(r[i])
  <2>1. ASSUME NEW i \in 1..(n + 1), NEW j \in 1..(n + 1), i < j,
               r[j].pc \in Walking, Active(r[i])
        PROVE  FALSE
    <3>1. j \in 1..n /\ r[j] = q[j] /\ i \in 1..n /\ Active(q[i])
      BY <1>1, <1>2, <1>4, <2>1
    <3>2. QED
      BY <2>1, <3>1 DEF Handled, n
  <2>2. QED
    BY <2>1
<1>7. \A i \in 1..(n + 1) : r[i].pc = "run" => ~r[i].previous_value
  BY <1>1, <1>2, <1>3 DEF Handled, n
<1>8. QED
  BY <1>1, <1>5, <1>6, <1>7 DEF Handled

LEMMA HandledDropped ==
  ASSUME NEW q, NEW r, NEW h, Handled(q, h), Drops(q, r), q[Len(q)].pc # "run"
  PROVE  Handled(r, h)
<1> DEFINE n == Len(q)
<1>1. /\ n \in Nat \ {0} /\ Len(r) = n - 1
      /\ \A i \in 1..(n - 1) : i \in 1..n /\ r[i] = q[i]
      /\ \A i \in 1..n : i = n \/ i \in 1..(n - 1)
  BY DEF Drops, Below
<1> HIDE DEF n
<1>2. ~Active(q[n])
  BY DEF Active, n
<1>3. h <=> \E i \in 1..(n - 1) : Active(r[i])
  BY <1>1, <1>2 DEF Handled, n
<1>4. /\ \A i, j \in 1..(n - 1) : i < j /\ r[j].pc \in Walking => ~Active(r[i])
      /\ \A i \in 1..(n - 1) : r[i].pc = "run" => ~r[i].previous_value
  BY <1>1 DEF Handled, n
<1>5. QED
  BY <1>1, <1>3, <1>4 DEF Handled

AllHandled == \A t \in Threads : Handled(frames[t], handling[t])

\* A step of one thread keeps the others.
LEMMA HandledOnly ==
  ASSUME TypeOK, AllHandled, NEW t \in Threads, Only(t),
         \A u \in Threads : u # t => handling'[u] = handling[u],
         Handled(frames'[t], handling'[t])
  PROVE  AllHandled'
<1>1. \A u \in Threads : Handled(frames'[u], handling'[u])
  BY DEF AllHandled, Only
<1>2. QED
  BY <1>1 DEF AllHandled, Handled, Active, Walking

LEMMA HandledChain ==
  ASSUME TypeOK, GoodFrames, AllHandled, NEW t \in Threads, Chain(t)
  PROVE  AllHandled'
<1> DEFINE f == Top(t)  q == frames[t]  h == handling[t]
<1>1. PICK pc : At(t, pc)
  BY DEF Chain, SignalHandler, HandlerImpl, WalkStack, MarkHandling, HandlerAccepts,
     HandlerDeclines, ReadSavedAction, CallSavedAction, UserFunctionReturns, HandlerReturn
<1>2. /\ q # <<>> /\ f \in Frame /\ f = q[Len(q)] /\ f.pc = pc /\ h \in BOOLEAN
      /\ q \in Seq(Frame) /\ Handled(q, h) /\ Len(q) \in Nat \ {0}
  BY <1>1, TopAt, FrontLast DEF TypeOK, AllHandled
<1>3. f.pc \in Walking => (h <=> Active(f)) /\ (f.pc = "run" => ~f.previous_value)
  BY <1>2, HandledTop
<1>4. ASSUME NEW g \in Frame, SetTop(t, g), handling' = handling,
             g.pc \in Walking => f.pc \in Walking \/ ~h,
             g.pc = "run" => g.isAsync /\ ~g.previous_value, ~Active(f)
      PROVE  AllHandled'
  <2>1. Only(t) /\ Replaces(q, frames'[t], g)
    BY <1>2, <1>4, SetTopEffect
  <2>2. ~Active(g)
    BY <1>4 DEF Active
  <2>3. Handled(frames'[t], h)
    BY <1>2, <1>4, <2>1, <2>2, HandledReplaced
  <2>4. QED
    BY <1>4, <2>1, <2>3, HandledOnly
<1>5. ASSUME NEW to \in {"HandlerImpl", "action", "user", "return"}, Goto(t, to),
             handling' = handling, f.pc # "run"
      PROVE  AllHandled'
  <2> DEFINE g == [f EXCEPT !.pc = to]
  <2>1. g \in Frame /\ g.pc \notin Walking /\ ~Active(f)
    BY <1>2, <1>5, FrameFields, FieldValues DEF Walking, Active
  <2>2. SetTop(t, g)
    BY <1>5 DEF Goto
  <2> HIDE DEF g
  <2>3. QED
    BY <1>4, <1>5, <2>1, <2>2 DEF Walking
<1>6. ASSUME Pop(t), handling' = handling, f.pc # "run"
      PROVE  AllHandled'
  <2>1. Only(t) /\ Drops(q, frames'[t])
    BY <1>2, <1>6, PopEffect
  <2>2. Handled(frames'[t], h)
    BY <1>2, <1>6, <2>1, HandledDropped
  <2>3. QED
    BY <1>6, <2>1, <2>2, HandledOnly
<1>7. ASSUME NEW g \in Frame, SetTop(t, g), f.pc = "run", g.pc # "run",
             SetHandlingSignal(t, f.previous_value)
      PROVE  AllHandled'
  <2>1. Only(t) /\ Replaces(q, frames'[t], g)
    BY <1>2, <1>7, SetTopEffect
  <2>2. /\ handling'[t] = FALSE
        /\ \A u \in Threads : u # t => handling'[u] = handling[u]
    BY <1>2, <1>3, <1>7 DEF SetHandlingSignal, TypeOK, Frame, Walking
  <2>3. f.pc \in Walking /\ ~Active(g) /\ (h <=> Active(f))
    BY <1>3, <1>7 DEF Walking, Active
  <2>4. Handled(frames'[t], FALSE)
    BY <1>2, <1>7, <2>1, <2>3, HandledReplaced
  <2>5. QED
    BY <2>1, <2>2, <2>4, HandledOnly
<1>8. CASE SignalHandler(t)
  <2>1. handling' = handling /\ f.pc # "run"
    BY <1>8 DEF SignalHandler, At
  <2>2. QED
    BY <1>5, <1>6, <1>8, <2>1 DEF SignalHandler
<1>9. CASE HandlerImpl(t)
  <2>1. handling' = handling /\ f.pc # "run" /\ ~Active(f) /\ f.signal \in Signals
    BY <1>2, <1>9 DEF HandlerImpl, At, threadVars, Active, Frame
  <2>2. CASE h
    BY <1>5, <1>9, <2>1, <2>2 DEF HandlerImpl, GetHandlingSignal
  <2>3. CASE ~h
    <3> DEFINE n == Len(handlerStack[f.signal])
               g == [f EXCEPT !.pc = "walk", !.it = n]
    <3>1. n \in Nat
      BY <2>1, LenProperties DEF TypeOK
    <3>2. g \in Frame /\ g.pc = "walk"
      <4>1. g \in Frame
        BY <1>2, <3>1, FrameFields
      <4>2. g.pc = "walk"
        BY <1>2, <3>1, FieldValues
      <4>3. QED
        BY <4>1, <4>2
    <3>3. SetTop(t, g)
      BY <1>9, <2>3 DEF HandlerImpl, GetHandlingSignal
    <3> HIDE DEF g
    <3>4. QED
      BY <1>4, <2>1, <2>3, <3>2, <3>3
  <2>4. QED
    BY <2>2, <2>3
<1>10. CASE WalkStack(t)
  <2>1. handling' = handling /\ f.pc = "walk" /\ ~Active(f)
    BY <1>10 DEF WalkStack, At, Active
  <2> DEFINE g == [f EXCEPT !.pc = "flag", !.previous_mask = mask[t]]
  <2>2. g \in Frame /\ g.pc = "flag"
    <3>1. g \in Frame
      BY <1>2, FrameFields DEF TypeOK
    <3>2. g.pc = "flag"
      BY <1>2, FieldValues
    <3>3. QED
      BY <3>1, <3>2
  <2>3. Goto(t, "action") \/ SetTop(t, g)
    BY <1>10 DEF WalkStack
  <2> HIDE DEF g
  <2>4. QED
    BY <1>4, <1>5, <2>1, <2>2, <2>3 DEF Walking
<1>11. CASE MarkHandling(t)
  <2> DEFINE g == [f EXCEPT !.pc = "run", !.previous_value = h]
  <2>1. f.pc = "flag" /\ ~Active(f) /\ ~h
    BY <1>3, <1>11 DEF MarkHandling, At, Active, Walking
  <2>2. g \in Frame /\ g.pc = "run" /\ g.previous_value = h /\ g.isAsync = f.isAsync
    <3>1. g \in Frame
      BY <1>2, FrameFields
    <3>2. g.pc = "run" /\ g.previous_value = h /\ g.isAsync = f.isAsync
      BY <1>2, FieldValues
    <3>3. QED
      BY <3>1, <3>2
  <2>3. SetTop(t, g)
    BY <1>11 DEF MarkHandling, GetHandlingSignal
  <2>4. /\ f.isAsync => handling' = handling
        /\ ~f.isAsync => handling' = [handling EXCEPT ![t] = TRUE]
    BY <1>11 DEF MarkHandling, SetHandlingSignal
  <2> HIDE DEF g
  <2>5. CASE f.isAsync
    BY <1>4, <2>1, <2>2, <2>3, <2>4, <2>5
  <2>6. CASE ~f.isAsync
    <3>1. Only(t) /\ Replaces(q, frames'[t], g)
      BY <1>2, <2>2, <2>3, SetTopEffect
    <3>2. Active(g)
      BY <2>2, <2>6 DEF Active
    <3>3. Handled(frames'[t], TRUE)
      BY <1>2, <2>1, <2>2, <3>1, <3>2, HandledReplaced
    <3>4. /\ handling'[t] = TRUE
          /\ \A u \in Threads : u # t => handling'[u] = handling[u]
      BY <2>4, <2>6 DEF TypeOK
    <3>5. QED
      BY <3>1, <3>3, <3>4, HandledOnly
  <2>7. QED
    BY <2>5, <2>6
<1>12. CASE HandlerAccepts(t)
  <2> DEFINE g == [f EXCEPT !.pc = "return"]
  <2>1. g \in Frame /\ g.pc = "return" /\ f.pc = "run"
    BY <1>2, <1>12, FrameFields, FieldValues DEF HandlerAccepts, At
  <2>2. SetTop(t, g) /\ SetHandlingSignal(t, f.previous_value)
    BY <1>12 DEF HandlerAccepts, Goto
  <2> HIDE DEF g
  <2>3. QED
    BY <1>7, <2>1, <2>2
<1>13. CASE HandlerDeclines(t)
  <2> DEFINE g == [f EXCEPT !.pc = "walk", !.it = f.it - 1]
  <2>1. SetTop(t, g) /\ f.pc = "run" /\ SetHandlingSignal(t, f.previous_value)
    BY <1>2, <1>13 DEF HandlerDeclines, At, Frame
  <2>2. g \in Frame /\ g.pc = "walk"
    <3>1. g \in Frame
      BY <1>2, <1>13, CursorBack, FrameFields
    <3>2. g.pc = "walk"
      BY <1>2, <1>13, FieldValues
    <3>3. QED
      BY <3>1, <3>2
  <2> HIDE DEF g
  <2>3. QED
    BY <1>7, <2>1, <2>2
<1>14. CASE ReadSavedAction(t)
  <2> DEFINE g == [f EXCEPT !.pc = "call", !.flags = sigAction[f.signal]]
  <2>1. g \in Frame /\ g.pc = "call"
    <3>1. g \in Frame
      <4>1. sigAction[f.signal] \in Action
        BY <1>1, TopAt DEF TypeOK
      <4>2. QED
        BY <1>2, <4>1, FrameFields
    <3>2. g.pc = "call"
      BY <1>2, FieldValues
    <3>3. QED
      BY <3>1, <3>2
  <2>2. SetTop(t, g) /\ handling' = handling /\ ~Active(f)
    BY <1>14 DEF ReadSavedAction, threadVars, At, Active
  <2> HIDE DEF g
  <2>3. QED
    BY <1>4, <2>1, <2>2 DEF Walking
<1>15. CASE CallSavedAction(t)
  <2>1. handling' = handling /\ f.pc # "run"
    BY <1>15 DEF CallSavedAction, At
  <2>2. frames' = frames \/ Goto(t, "user") \/ Goto(t, "return")
    BY <1>15 DEF CallSavedAction
  <2>3. QED
    BY <1>5, <2>1, <2>2 DEF AllHandled, Handled, Active, Walking
<1>16. CASE UserFunctionReturns(t)
  BY <1>5, <1>16 DEF UserFunctionReturns, threadVars, At
<1>17. CASE HandlerReturn(t)
  BY <1>6, <1>17 DEF HandlerReturn, At
<1>18. QED
  BY <1>8, <1>9, <1>10, <1>11, <1>12, <1>13, <1>14, <1>15, <1>16, <1>17 DEF Chain
LEMMA HandledKernel ==
  ASSUME TypeOK, AllHandled, Kernel
  PROVE  AllHandled'
<1>1. handling' = handling
  BY DEF Kernel, Raise, Deliver, Fault, TakeTask, threadVars
<1>2. CASE frames' = frames
  BY <1>1, <1>2 DEF AllHandled, Handled, Active, Walking
<1>3. ASSUME NEW t \in Threads, NEW s \in Signals, NEW uc \in SUBSET Signals,
             NEW async \in BOOLEAN, NEW pc \in {"Handler", "HandlerImpl"},
             Push(t, NewFrame(s, async, pc, uc))
      PROVE  AllHandled'
  <2> DEFINE f == NewFrame(s, async, pc, uc)
  <2>1. f \in Frame
    BY NewFrameType
  <2>2. f.pc \notin Walking
    BY DEF NewFrame, Walking
  <2>3. Push(t, f)
    BY <1>3
  <2> HIDE DEF f
  <2>4. Only(t) /\ Adds(frames[t], frames'[t], f)
    BY <2>1, <2>3, PushEffect
  <2>5. Handled(frames'[t], handling'[t])
    BY <1>1, <2>2, <2>4, HandledAdded DEF AllHandled
  <2>6. QED
    BY <1>1, <2>4, <2>5, HandledOnly
<1>4. ASSUME NEW t \in Threads, NEW s \in Signals, Deliver(t, s) \/ Fault(t, s)
      PROVE  AllHandled'
  <2>1. frames' = frames \/ Push(t, NewFrame(s, FALSE, "Handler", mask[t]))
    BY <1>4 DEF Deliver, Fault
  <2>2. mask[t] \in SUBSET Signals
    BY DEF TypeOK
  <2>3. QED
    BY <1>2, <1>3, <2>1, <2>2
<1>5. ASSUME NEW w \in Workers, NEW s \in Signals, TakeTask(w, s)
      PROVE  AllHandled'
  BY <1>3, <1>5 DEF TakeTask, Threads
<1>6. QED
  BY <1>2, <1>4, <1>5 DEF Kernel, Raise

\* SetUp and the program's calls touch neither the stacks nor the marks.
LEMMA StacksQuiet ==
  ASSUME SetUp \/ \E t \in Threads : Program(t)
  PROVE  UNCHANGED <<frames, handling>>
BY DEF SetUp, MarkSigMarks, MarkSigRegisters, AddHandler, RemoveHandler, SetUserSigHandler,
   Program, Sigaction, Signal, SigactionMarked, SigactionUnmarked, SigactionLinked,
   SigprocmaskLinked, SigprocmaskFilter, SigprocmaskInHandler, threadVars

HandlingInv == ActionInv /\ AllHandled

LEMMA HandlingInvInit == Init => HandlingInv
<1> SUFFICES ASSUME Init PROVE HandlingInv
  OBVIOUS
<1>1. AllHandled
  BY EmptySeq DEF Init, AllHandled, Handled
<1>2. QED
  BY <1>1, ActionInvInit DEF HandlingInv

LEMMA HandlingInvNext == HandlingInv /\ [Next]_vars => HandlingInv'
<1> SUFFICES ASSUME HandlingInv, [Next]_vars PROVE HandlingInv'
  OBVIOUS
<1>1. ActionInv' /\ TypeOK /\ GoodFrames /\ AllHandled
  BY ActionInvNext DEF HandlingInv, ActionInv
<1>2. CASE UNCHANGED <<frames, handling>>
  BY <1>1, <1>2 DEF AllHandled, Handled, Active, Walking, HandlingInv
<1>3. CASE Kernel \/ \E t \in Threads : Chain(t)
  BY <1>1, <1>3, HandledKernel, HandledChain DEF HandlingInv
<1>4. QED
  BY <1>2, <1>3, StacksQuiet DEF Next, vars, threadVars

\* A thread outside handlers has its handling mark cleared, however they were
\* nested (SignalStack.cpp:158-173).
THEOREM MarkIsCleared == Spec => []MarkClearedOutside
<1>1. HandlingInv => MarkClearedOutside
  BY EmptySeq DEF HandlingInv, AllHandled, Handled, MarkClearedOutside
<1>2. QED
  BY <1>1, HandlingInvInit, HandlingInvNext, PTL DEF Spec

\* No synchronous handler runs inside another on one thread
\* (SignalStack.cpp:148, 162-165).
THEOREM HandlersDoNotNest == Spec => []OneSynchronousHandler
<1>1. HandlingInv => OneSynchronousHandler
  <2> SUFFICES ASSUME HandlingInv, NEW t \in Threads, NEW i \in DOMAIN frames[t],
                      NEW j \in DOMAIN frames[t], Active(frames[t][i]), Active(frames[t][j])
               PROVE  i = j
    BY DEF OneSynchronousHandler, Active
  <2>1. frames[t] \in Seq(Frame) /\ Handled(frames[t], handling[t])
    BY DEF HandlingInv, ActionInv, TypeOK, AllHandled
  <2>2. DOMAIN frames[t] = 1..Len(frames[t]) /\ Len(frames[t]) \in Nat
    BY <2>1, LenProperties
  <2>3. frames[t][i].pc \in Walking /\ frames[t][j].pc \in Walking
    BY DEF Active, Walking
  <2>4. ~(i < j) /\ ~(j < i)
    BY <2>1, <2>2, <2>3 DEF Handled
  <2>5. QED
    BY <2>2, <2>4
<1>2. QED
  BY <1>1, HandlingInvInit, HandlingInvNext, PTL DEF Spec
-----------------------------------------------------------------------------
(* Masks.  Base is the mask a thread will have when its frames are gone: q   *)
(* is its stack and m its mask now.  A task (isAsync) is the first frame of  *)
(* a worker; it keeps the mask it found in previous_mask while a handler     *)
(* runs.  A signal frame keeps the mask it found in uc.                      *)

Own(f, m) == IF f.pc \in {"flag", "run"} THEN f.previous_mask ELSE m

Base(q, m) ==
  IF Len(q) = 0 THEN m
  ELSE IF ~q[1].isAsync THEN q[1].uc
  ELSE Own(q[1], IF Len(q) = 1 THEN m ELSE q[2].uc)

\* e is what the thread blocked early, l that a task left another mask.
Masked(q, m, e, l) ==
  /\ \A i \in 1..Len(q) : q[i].isAsync => i = 1
  /\ Len(q) # 0 /\ q[1].isAsync /\ q[1].pc = "user" => l
  /\ ~l => Base(q, m) \subseteq e

LEMMA MaskedReplaced ==
  ASSUME NEW q, NEW r, NEW f, NEW m, NEW m2, NEW e, NEW l, NEW l2,
         Masked(q, m, e, l), Replaces(q, r, f), l => l2,
         f.isAsync = q[Len(q)].isAsync, f.uc = q[Len(q)].uc,
         ~l2 /\ f.isAsync => f.pc # "user" /\ Own(f, m2) = Own(q[Len(q)], m)
  PROVE  Masked(r, m2, e, l2)
<1> DEFINE n == Len(q)  o == q[n]
<1>1. /\ n \in Nat \ {0} /\ Len(r) = n /\ r[n] = f
      /\ \A i \in 1..(n - 1) : r[i] = q[i]
  BY DEF Replaces, Below
<1>2. /\ n \in 1..n /\ \A i \in 1..n : i = n \/ i \in 1..(n - 1)
      /\ n # 1 => 1 \in 1..(n - 1)
      /\ n # 1 /\ n # 2 => 2 \in 1..(n - 1)
  BY <1>1
<1> HIDE DEF n
<1>3. \A i \in 1..n : r[i].isAsync => i = 1
  BY <1>1, <1>2 DEF Masked, n
<1>4. CASE n = 1
  <2>1. ~l2 => Base(r, m2) \subseteq e
    BY <1>1, <1>4 DEF Masked, Base, n
  <2>2. r[1].isAsync /\ r[1].pc = "user" => l2
    BY <1>1, <1>4
  <2>3. QED
    BY <1>1, <1>3, <2>1, <2>2 DEF Masked
<1>5. CASE n # 1
  <2>1. r[1] = q[1] /\ r[2].uc = q[2].uc
    BY <1>1, <1>2, <1>5 DEF n
  <2>2. Base(r, m2) = Base(q, m)
    BY <1>1, <1>5, <2>1 DEF Base, n
  <2>3. QED
    BY <1>1, <1>3, <2>1, <2>2 DEF Masked, n
<1>6. QED
  BY <1>4, <1>5

LEMMA MaskedAdded ==
  ASSUME NEW q, NEW r, NEW f, NEW m, NEW m2, NEW e, NEW l,
         Masked(q, m, e, l), Adds(q, r, f), f.pc \notin {"user", "flag", "run"},
         f.isAsync => Len(q) = 0 /\ m2 = m,
         ~f.isAsync => f.uc = m
  PROVE  Masked(r, m2, e, l)
<1> DEFINE n == Len(q)
<1>1. /\ n \in Nat /\ Len(r) = n + 1 /\ r[n + 1] = f
      /\ \A i \in 1..n : r[i] = q[i]
  BY DEF Adds, Below
<1> HIDE DEF n
<1>2. /\ \A i \in 1..(n + 1) : i = n + 1 \/ i \in 1..n
      /\ n # 0 => 1 \in 1..n
      /\ n # 0 /\ n # 1 => 2 \in 1..n
  BY <1>1
<1>3. \A i \in 1..(n + 1) : r[i].isAsync => i = 1
  BY <1>1, <1>2 DEF Masked, n
<1>4. Base(r, m2) = Base(q, m)
  <2>1. CASE n = 0
    BY <1>1, <2>1 DEF Base, Own, n
  <2>2. CASE n = 1
    BY <1>1, <1>2, <2>2 DEF Base, n
  <2>3. CASE n # 0 /\ n # 1
    BY <1>1, <1>2, <2>3 DEF Base, n
  <2>4. QED
    BY <2>1, <2>2, <2>3
<1>5. r[1].isAsync /\ r[1].pc = "user" => l
  BY <1>1, <1>2 DEF Masked, n
<1>6. QED
  BY <1>1, <1>3, <1>4, <1>5 DEF Masked

LEMMA MaskedDropped ==
  ASSUME NEW q, NEW r, NEW m, NEW m2, NEW e, NEW l,
         Masked(q, m, e, l), Drops(q, r), q[Len(q)].pc \notin {"flag", "run"},
         m2 = IF q[Len(q)].isAsync THEN m ELSE q[Len(q)].uc
  PROVE  Masked(r, m2, e, l)
<1> DEFINE n == Len(q)
<1>1. /\ n \in Nat \ {0} /\ Len(r) = n - 1
      /\ \A i \in 1..(n - 1) : i \in 1..n /\ r[i] = q[i]
  BY DEF Drops, Below
<1>2. /\ n # 1 => 1 \in 1..(n - 1)
      /\ n # 1 /\ n # 2 => 2 \in 1..(n - 1)
      /\ n \in 1..n
  BY <1>1
<1> HIDE DEF n
<1>3. \A i \in 1..(n - 1) : r[i].isAsync => i = 1
  BY <1>1 DEF Masked, n
<1>4. n # 1 => ~q[n].isAsync
  BY <1>2 DEF Masked, n
<1>5. Base(r, m2) = Base(q, m)
  <2>1. CASE n = 1
    BY <1>1, <2>1 DEF Base, Own, n
  <2>2. CASE n = 2
    BY <1>1, <1>2, <1>4, <2>2 DEF Base, n
  <2>3. CASE n # 1 /\ n # 2
    BY <1>1, <1>2, <2>3 DEF Base, n
  <2>4. QED
    BY <2>1, <2>2, <2>3
<1>6. Len(r) # 0 /\ r[1].isAsync /\ r[1].pc = "user" => l
  BY <1>1, <1>2 DEF Masked, n
<1>7. QED
  BY <1>1, <1>3, <1>5, <1>6 DEF Masked

AllMasked == \A t \in Threads : Masked(frames[t], mask[t], early[t], t \in leaked)

LEMMA MaskedOnly ==
  ASSUME TypeOK, AllMasked, NEW t \in Threads, Only(t),
         \A u \in Threads : u # t => mask'[u] = mask[u] /\ early'[u] = early[u]
                                    /\ (u \in leaked' <=> u \in leaked),
         Masked(frames'[t], mask'[t], early'[t], t \in leaked')
  PROVE  AllMasked'
<1>1. ASSUME NEW u \in Threads
      PROVE  Masked(frames'[u], mask'[u], early'[u], u \in leaked')
  <2>1. CASE u = t
    BY <2>1
  <2>2. CASE u # t
    <3>1. frames'[u] = frames[u] /\ mask'[u] = mask[u] /\ early'[u] = early[u]
          /\ (u \in leaked' <=> u \in leaked)
      BY <2>2 DEF Only
    <3>2. Masked(frames[u], mask[u], early[u], u \in leaked)
      BY DEF AllMasked
    <3>3. QED
      BY <3>1, <3>2 DEF Masked
  <2>3. QED
    BY <2>1, <2>2
<1>2. QED
  BY <1>1 DEF AllMasked, Masked, Base, Own
LEMMA MaskedChain ==
  ASSUME TypeOK, GoodFrames, AllMasked, NEW t \in Threads, Chain(t)
  PROVE  AllMasked'
<1> DEFINE f == Top(t)  q == frames[t]  m == mask[t]  e == early[t]  l == (t \in leaked)
<1>1. PICK pc : At(t, pc)
  BY DEF Chain, SignalHandler, HandlerImpl, WalkStack, MarkHandling, HandlerAccepts,
     HandlerDeclines, ReadSavedAction, CallSavedAction, UserFunctionReturns, HandlerReturn
<1>2. /\ q # <<>> /\ f \in Frame /\ f = q[Len(q)] /\ f.pc = pc /\ f.signal \in Signals
      /\ q \in Seq(Frame) /\ Masked(q, m, e, l) /\ Len(q) \in Nat \ {0}
      /\ q[1].isAsync /\ q[1].pc = "user" => l
      /\ \A i \in 1..Len(q) : q[i].isAsync => i = 1
  BY <1>1, TopAt, FrontLast DEF TypeOK, AllMasked, Masked
<1>3. early' = early
  BY DEF Chain, SignalHandler, HandlerImpl, WalkStack, MarkHandling, HandlerAccepts,
     HandlerDeclines, ReadSavedAction, CallSavedAction, UserFunctionReturns, HandlerReturn, ghosts
<1>4. ASSUME NEW g \in Frame, SetTop(t, g), g.isAsync = f.isAsync, g.uc = f.uc,
             NEW m2, mask' = [mask EXCEPT ![t] = m2],
             leaked' = leaked \/ leaked' = leaked \union {t},
             (t \notin leaked' /\ g.isAsync) => g.pc # "user" /\ Own(g, m2) = Own(f, m)
      PROVE  AllMasked'
  <2>1. Only(t) /\ Replaces(q, frames'[t], g)
    BY <1>2, <1>4, SetTopEffect
  <2>2. mask'[t] = m2 /\ \A u \in Threads : u # t => mask'[u] = mask[u]
    BY <1>4 DEF TypeOK
  <2> DEFINE l2 == (t \in leaked')
  <2>3. l => l2
    BY <1>4
  <2>4. Masked(frames'[t], m2, e, l2)
    <3>1. (~l2 /\ g.isAsync) => g.pc # "user" /\ Own(g, m2) = Own(q[Len(q)], m)
      BY <1>2, <1>4
    <3>2. g.isAsync = q[Len(q)].isAsync /\ g.uc = q[Len(q)].uc
      BY <1>2, <1>4
    <3>3. Masked(q, m, e, l) /\ Replaces(q, frames'[t], g)
      BY <1>2, <2>1
    <3> DEFINE r == frames'[t]
    <3> HIDE DEF q, m, e, l, l2, r
    <3>4. Masked(r, m2, e, l2)
      BY <2>3, <3>1, <3>2, <3>3, MaskedReplaced DEF r
    <3>5. QED
      BY <3>4 DEF r
  <2>5. \A u \in Threads : u # t => (u \in leaked' <=> u \in leaked)
    BY <1>4
  <2>6. QED
    BY <1>3, <2>1, <2>2, <2>4, <2>5, MaskedOnly
<1>5. mask = [mask EXCEPT ![t] = m]
  BY DEF TypeOK
<1>6. ASSUME NEW to \in {"HandlerImpl", "action", "return"}, Goto(t, to),
             UNCHANGED <<mask, leaked>>, f.pc \notin {"flag", "run"}
      PROVE  AllMasked'
  <2> DEFINE g == [f EXCEPT !.pc = to]
  <2>1. g \in Frame
    BY <1>2, FrameFields
  <2>2. g.pc = to /\ g.isAsync = f.isAsync /\ g.uc = f.uc
    BY <1>2, FieldValues
  <2>3. SetTop(t, g)
    BY <1>6 DEF Goto
  <2> HIDE DEF g
  <2>4. Own(g, m) = Own(f, m)
    BY <1>6, <2>2 DEF Own
  <2>5. QED
    BY <1>4, <1>5, <1>6, <2>1, <2>2, <2>3, <2>4
<1>7. ASSUME Pop(t), leaked' = leaked, f.pc \notin {"flag", "run"}
      PROVE  AllMasked'
  <2>1. Only(t) /\ Drops(q, frames'[t])
    BY <1>2, <1>7, PopEffect
  <2>2. mask' = IF f.isAsync THEN mask ELSE [mask EXCEPT ![t] = f.uc]
    BY <1>7 DEF Pop
  <2>3. /\ mask'[t] = IF f.isAsync THEN m ELSE f.uc
        /\ \A u \in Threads : u # t => mask'[u] = mask[u]
    BY <2>2 DEF TypeOK
  <2>4. Masked(frames'[t], mask'[t], e, l)
    BY <1>2, <1>7, <2>1, <2>3, MaskedDropped
  <2>5. QED
    BY <1>3, <1>7, <2>1, <2>3, <2>4, MaskedOnly
<1>8. CASE SignalHandler(t)
  <2>1. leaked' = leaked /\ f.pc \notin {"flag", "run"}
    BY <1>8 DEF SignalHandler, At, ghosts
  <2>2. QED
    BY <1>6, <1>7, <1>8, <2>1 DEF SignalHandler
<1>9. CASE HandlerImpl(t)
  <2> DEFINE n == Len(handlerStack[f.signal])
             g == [f EXCEPT !.pc = "walk", !.it = n]
  <2>1. UNCHANGED <<mask, leaked>> /\ f.pc = "HandlerImpl"
    BY <1>9 DEF HandlerImpl, At, threadVars, ghosts
  <2>2. n \in Nat
    BY <1>2, LenProperties DEF TypeOK
  <2>3. g \in Frame
    BY <1>2, <2>2, FrameFields
  <2>4. g.pc = "walk" /\ g.isAsync = f.isAsync /\ g.uc = f.uc
    BY <1>2, FieldValues
  <2>5. Goto(t, "action") \/ SetTop(t, g)
    BY <1>9 DEF HandlerImpl
  <2> HIDE DEF g
  <2>6. Own(g, m) = Own(f, m)
    BY <2>1, <2>4 DEF Own
  <2>7. CASE Goto(t, "action")
    BY <1>6, <2>1, <2>7
  <2>8. CASE SetTop(t, g)
    BY <1>4, <1>5, <2>1, <2>3, <2>4, <2>6, <2>8
  <2>9. QED
    BY <2>5, <2>7, <2>8
<1>10. CASE WalkStack(t)
  <2> DEFINE g == [f EXCEPT !.pc = "flag", !.previous_mask = m]
             m2 == handlerStack[f.signal][f.it].scMask
  <2>1. leaked' = leaked /\ f.pc = "walk"
    BY <1>10 DEF WalkStack, At, ghosts
  <2>2. g \in Frame
    <3>1. m \in SUBSET Signals
      BY DEF TypeOK
    <3>2. QED
      BY <1>2, <3>1, FrameFields
  <2>3. g.pc = "flag" /\ g.isAsync = f.isAsync /\ g.uc = f.uc /\ g.previous_mask = m
    BY <1>2, FieldValues
  <2>4. \/ Goto(t, "action") /\ mask' = mask
        \/ SetTop(t, g) /\ mask' = [mask EXCEPT ![t] = m2]
    BY <1>10 DEF WalkStack
  <2> HIDE DEF g, m2
  <2>5. Own(g, m2) = Own(f, m)
    BY <2>1, <2>3 DEF Own
  <2>6. CASE Goto(t, "action") /\ mask' = mask
    BY <1>6, <2>1, <2>6
  <2>7. CASE SetTop(t, g) /\ mask' = [mask EXCEPT ![t] = m2]
    BY <1>4, <2>1, <2>2, <2>3, <2>5, <2>7
  <2>8. QED
    BY <2>4, <2>6, <2>7
<1>11. CASE MarkHandling(t)
  <2> DEFINE g == [f EXCEPT !.pc = "run", !.previous_value = handling[t]]
  <2>1. UNCHANGED <<mask, leaked>> /\ f.pc = "flag" /\ SetTop(t, g)
    BY <1>11 DEF MarkHandling, At, GetHandlingSignal, ghosts
  <2>2. g \in Frame
    <3>1. handling[t] \in BOOLEAN
      BY DEF TypeOK
    <3>2. QED
      BY <1>2, <3>1, FrameFields
  <2>3. g.pc = "run" /\ g.isAsync = f.isAsync /\ g.uc = f.uc /\ g.previous_mask = f.previous_mask
    BY <1>2, FieldValues
  <2> HIDE DEF g
  <2>4. Own(g, m) = Own(f, m)
    BY <2>1, <2>3 DEF Own
  <2>5. QED
    BY <1>4, <1>5, <2>1, <2>2, <2>3, <2>4
<1>12. CASE HandlerAccepts(t)
  <2> DEFINE g == [f EXCEPT !.pc = "return"]
  <2>1. SetTop(t, g) /\ mask' = mask
    BY <1>12 DEF HandlerAccepts, Goto
  <2>2. /\ f.isAsync => leaked' = leaked \union {t}
        /\ ~f.isAsync => leaked' = leaked
    BY <1>12 DEF HandlerAccepts, Leaks
  <2>3. g \in Frame
    BY <1>2, FrameFields
  <2>4. g.isAsync = f.isAsync /\ g.uc = f.uc
    BY <1>2, FieldValues
  <2> HIDE DEF g
  <2>5. QED
    BY <1>4, <1>5, <2>1, <2>2, <2>3, <2>4
<1>13. CASE HandlerDeclines(t)
  <2> DEFINE g == [f EXCEPT !.pc = "walk", !.it = f.it - 1]
             m2 == f.previous_mask
  <2>1. SetTop(t, g)
    BY <1>2, <1>13 DEF HandlerDeclines, Frame
  <2>2. f.pc = "run" /\ mask' = [mask EXCEPT ![t] = m2] /\ leaked' = leaked
    BY <1>13 DEF HandlerDeclines, At, ghosts
  <2>3. g \in Frame
    BY <1>2, <1>13, CursorBack, FrameFields
  <2>4. g.pc = "walk" /\ g.isAsync = f.isAsync /\ g.uc = f.uc
    BY <1>2, FieldValues
  <2>5. Own(g, m2) = Own(f, m)
    BY <2>2, <2>4 DEF Own
  <2> HIDE DEF g, m2
  <2>6. QED
    BY <1>4, <2>1, <2>2, <2>3, <2>4, <2>5
<1>14. CASE ReadSavedAction(t)
  <2> DEFINE g == [f EXCEPT !.pc = "call", !.flags = sigAction[f.signal]]
  <2>1. SetTop(t, g) /\ f.pc = "action" /\ UNCHANGED <<mask, leaked>>
    BY <1>14 DEF ReadSavedAction, At, threadVars, ghosts
  <2>2. g \in Frame
    <3>1. sigAction[f.signal] \in Action
      BY <1>2 DEF TypeOK
    <3>2. QED
      BY <1>2, <3>1, FrameFields
  <2>3. g.pc = "call" /\ g.isAsync = f.isAsync /\ g.uc = f.uc
    BY <1>2, FieldValues
  <2> HIDE DEF g
  <2>4. Own(g, m) = Own(f, m)
    BY <2>1, <2>3 DEF Own
  <2>5. QED
    BY <1>4, <1>5, <2>1, <2>2, <2>3, <2>4
<1>15. CASE CallSavedAction(t)
  <2>1. f.pc = "call"
    BY <1>15 DEF CallSavedAction, At
  <2>2. \/ UNCHANGED <<frames, mask, leaked>>
        \/ Goto(t, "return") /\ UNCHANGED <<mask, leaked>>
        \/ /\ Goto(t, "user") /\ mask' = [mask EXCEPT ![t] = UserMask(f)] /\ Leaks(t)
    BY <1>15 DEF CallSavedAction
  <2>3. CASE UNCHANGED <<frames, mask, leaked>>
    BY <1>3, <2>3 DEF AllMasked, Masked, Base, Own
  <2>4. CASE Goto(t, "return") /\ UNCHANGED <<mask, leaked>>
    BY <1>6, <2>1, <2>4
  <2>5. CASE Goto(t, "user") /\ mask' = [mask EXCEPT ![t] = UserMask(f)] /\ Leaks(t)
    <3> DEFINE g == [f EXCEPT !.pc = "user"]  m2 == UserMask(f)
    <3>1. SetTop(t, g) /\ mask' = [mask EXCEPT ![t] = m2]
      BY <2>5 DEF Goto
    <3>2. /\ f.isAsync => leaked' = leaked \union {t}
          /\ ~f.isAsync => leaked' = leaked
      BY <2>5 DEF Leaks
    <3>3. g \in Frame
      BY <1>2, FrameFields
    <3>4. g.isAsync = f.isAsync /\ g.uc = f.uc
      BY <1>2, FieldValues
    <3> HIDE DEF g, m2
    <3>5. QED
      BY <1>4, <3>1, <3>2, <3>3, <3>4
  <2>6. QED
    BY <2>2, <2>3, <2>4, <2>5
<1>16. CASE UserFunctionReturns(t)
  BY <1>6, <1>16 DEF UserFunctionReturns, At, threadVars, ghosts
<1>17. CASE HandlerReturn(t)
  BY <1>7, <1>17 DEF HandlerReturn, At, ghosts
<1>18. QED
  BY <1>8, <1>9, <1>10, <1>11, <1>12, <1>13, <1>14, <1>15, <1>16, <1>17 DEF Chain
LEMMA MaskedKernel ==
  ASSUME TypeOK, AllMasked, Kernel
  PROVE  AllMasked'
<1>1. early' = early /\ leaked' = leaked
  BY DEF Kernel, Raise, Deliver, Fault, TakeTask, ghosts
<1>2. CASE UNCHANGED <<frames, mask>>
  BY <1>1, <1>2 DEF AllMasked, Masked, Base, Own
<1>3. ASSUME NEW t \in Threads, NEW f \in Frame, Push(t, f), NEW m2,
             mask' = [mask EXCEPT ![t] = m2],
             f.pc \in {"Handler", "HandlerImpl"},
             f.isAsync => Len(frames[t]) = 0 /\ m2 = mask[t],
             ~f.isAsync => f.uc = mask[t]
      PROVE  AllMasked'
  <2> DEFINE q == frames[t]  r == frames'[t]  m == mask[t]  e == early[t]  l == t \in leaked
  <2>1. Only(t) /\ Adds(q, r, f)
    BY <1>3, PushEffect
  <2>2. mask'[t] = m2 /\ \A u \in Threads : u # t => mask'[u] = mask[u]
    BY <1>3 DEF TypeOK
  <2>3. Masked(q, m, e, l)
    BY DEF AllMasked
  <2>4. /\ f.isAsync => Len(q) = 0 /\ m2 = m
        /\ ~f.isAsync => f.uc = m
        /\ f.pc \notin {"user", "flag", "run"}
    BY <1>3
  <2> HIDE DEF q, r, m, e, l
  <2>5. Masked(r, m2, e, l)
    BY <2>1, <2>3, <2>4, MaskedAdded
  <2>6. Masked(frames'[t], mask'[t], early'[t], t \in leaked')
    BY <1>1, <2>2, <2>5 DEF r, e, l
  <2>7. QED
    BY <1>1, <2>1, <2>2, <2>6, MaskedOnly
<1>4. ASSUME NEW t \in Threads, NEW s \in Signals, Deliver(t, s) \/ Fault(t, s)
      PROVE  AllMasked'
  <2> DEFINE f == NewFrame(s, FALSE, "Handler", mask[t])
  <2>1. \/ UNCHANGED <<frames, mask>>
        \/ Push(t, f) /\ mask' = [mask EXCEPT ![t] = Signals]
    BY <1>4 DEF Deliver, Fault
  <2>2. f \in Frame
    <3>1. mask[t] \in SUBSET Signals
      BY DEF TypeOK
    <3>2. QED
      BY <3>1, NewFrameType
  <2>3. f.pc = "Handler" /\ f.isAsync = FALSE /\ f.uc = mask[t]
    BY DEF NewFrame
  <2> HIDE DEF f
  <2>4. QED
    BY <1>2, <1>3, <2>1, <2>2, <2>3
<1>5. ASSUME NEW w \in Workers, NEW s \in Signals, TakeTask(w, s)
      PROVE  AllMasked'
  <2>1. PICK uc \in {{}, Signals} : Push(w, NewFrame(s, TRUE, "HandlerImpl", uc))
    BY <1>5 DEF TakeTask
  <2> DEFINE f == NewFrame(s, TRUE, "HandlerImpl", uc)
  <2>2. w \in Threads /\ f \in Frame
    BY <2>1, NewFrameType DEF Threads
  <2>3. f.pc = "HandlerImpl" /\ f.isAsync = TRUE
    BY DEF NewFrame
  <2>4. Push(w, f)
    BY <2>1
  <2> HIDE DEF f
  <2>5. Len(frames[w]) = 0 /\ mask' = mask
    BY <1>5, EmptySeq DEF TakeTask, threadVars
  <2>6. mask' = [mask EXCEPT ![w] = mask[w]]
    BY <2>5 DEF TypeOK
  <2>7. QED
    BY <1>3, <2>2, <2>3, <2>4, <2>5, <2>6
<1>6. QED
  BY <1>2, <1>4, <1>5 DEF Kernel, Raise, threadVars

-----------------------------------------------------------------------------
(* The sets of the program *)

\* The set a thread is about to block holds nothing that was marked when it was
\* filtered: other threads only take signals out of it.
CallsFiltered ==
  \A t \in Threads : call[t].op = "setmask" /\ call[t].how # "unblock" =>
     userSet[call[t].set] \intersect call[t].marked = {}

LEMMA SetsShrink ==
  ASSUME TypeOK, Next
  PROVE  \A o \in UserSets : userSet'[o] \subseteq userSet[o]
<1>1. ASSUME NEW t \in Threads, NEW how, NEW o \in UserSets, Filter(t, how, o)
      PROVE  \A x \in UserSets : userSet'[x] \subseteq userSet[x]
  <2>1. AdjustSignalMask(how, userSet[o]) \subseteq userSet[o]
    BY DEF AdjustSignalMask
  <2>2. QED
    BY <1>1, <2>1 DEF Filter, TypeOK
<1>2. ASSUME NEW t \in Threads, Program(t)
      PROVE  \A x \in UserSets : userSet'[x] \subseteq userSet[x]
  BY <1>1, <1>2 DEF Program, Sigaction, Signal, SigactionMarked, SigactionUnmarked,
     SigactionLinked, SigprocmaskLinked, SigprocmaskFilter, SigprocmaskInHandler
<1>3. ASSUME SetUp \/ Kernel \/ \E t \in Threads : Chain(t)
      PROVE  userSet' = userSet
  BY <1>3 DEF SetUp, MarkSigMarks, MarkSigRegisters, AddHandler, RemoveHandler,
     SetUserSigHandler, Kernel, Raise, Deliver, Fault, TakeTask, Chain, SignalHandler,
     HandlerImpl, WalkStack, MarkHandling, HandlerAccepts, HandlerDeclines, ReadSavedAction,
     CallSavedAction, UserFunctionReturns, HandlerReturn
<1>4. QED
  BY <1>2, <1>3 DEF Next

\* A call in progress stays as it is until its thread ends it or begins it.
LEMMA CallStep ==
  ASSUME TypeOK, Next, NEW u \in Threads
  PROVE  \/ call'[u] = call[u] \/ call'[u].op # "setmask"
         \/ \E how \in {"block", "unblock", "setmask"}, o \in UserSets :
              SigprocmaskFilter(u, how, o)
<1>1. ASSUME NEW t \in Threads, NEW c, c.op # "setmask" \/ u # t, call' = [call EXCEPT ![t] = c]
      PROVE  call'[u] = call[u] \/ call'[u].op # "setmask"
  BY <1>1 DEF TypeOK
<1>2. CASE SetUp
  BY <1>1, <1>2, ActionTypes DEF SetUp, MarkSigMarks, MarkSigRegisters, AddHandler, RemoveHandler,
     SetUserSigHandler, Enter, Leave, NoCall
<1>3. ASSUME NEW t \in Threads, Program(t)
      PROVE  \/ call'[u] = call[u] \/ call'[u].op # "setmask"
             \/ \E how \in {"block", "unblock", "setmask"}, o \in UserSets :
                  SigprocmaskFilter(u, how, o)
  <2>1. ASSUME NEW s, NEW a, SigactionMarked(t, s, a)
        PROVE  call'[u] = call[u] \/ call'[u].op # "setmask"
    BY <1>1, <2>1 DEF SigactionMarked, Enter, NoCall
  <2>2. ASSUME NEW s, NEW a, SigactionUnmarked(t, s, a)
        PROVE  call'[u] = call[u] \/ call'[u].op # "setmask"
    BY <1>1, <2>2 DEF SigactionUnmarked, Enter
  <2>3. CASE SigactionLinked(t) \/ SigprocmaskLinked(t)
    BY <1>1, <2>3 DEF SigactionLinked, SigprocmaskLinked, Leave, NoCall
  <2>4. ASSUME NEW how, NEW o, SigprocmaskFilter(t, how, o), u # t
        PROVE  call'[u] = call[u] \/ call'[u].op # "setmask"
    BY <1>1, <2>4 DEF SigprocmaskFilter, Enter
  <2>5. ASSUME NEW how, NEW o, SigprocmaskInHandler(t, how, o)
        PROVE  call'[u] = call[u]
    BY <2>5 DEF SigprocmaskInHandler
  <2>6. QED
    BY <1>3, <2>1, <2>2, <2>3, <2>4, <2>5 DEF Program, Sigaction, Signal
<1>4. ASSUME Kernel \/ \E t \in Threads : Chain(t)
      PROVE  call' = call
  BY <1>4 DEF Kernel, Raise, Deliver, Fault, TakeTask, Chain, SignalHandler,
     HandlerImpl, WalkStack, MarkHandling, HandlerAccepts, HandlerDeclines, ReadSavedAction,
     CallSavedAction, UserFunctionReturns, HandlerReturn
<1>5. QED
  BY <1>2, <1>3, <1>4 DEF Next

LEMMA FilteredNext ==
  ASSUME TypeOK, AllHandled, CallsFiltered, Next
  PROVE  CallsFiltered'
<1> SUFFICES ASSUME NEW u \in Threads, call'[u].op = "setmask", call'[u].how # "unblock"
             PROVE  userSet'[call'[u].set] \intersect call'[u].marked = {}
  BY DEF CallsFiltered
<1>1. CASE call'[u] = call[u]
  <2>1. call[u].set \in UserSets /\ userSet[call[u].set] \intersect call[u].marked = {}
    BY <1>1, CallFields DEF CallsFiltered
  <2>2. QED
    BY <1>1, <2>1, SetsShrink
<1>2. ASSUME NEW how \in {"block", "unblock", "setmask"}, NEW o \in UserSets,
             SigprocmaskFilter(u, how, o)
      PROVE  userSet'[call'[u].set] \intersect call'[u].marked = {}
  <2> DEFINE marked == {s \in Signals : isMark[s]}
  <2>1. call'[u] = [op |-> "setmask", how |-> how, set |-> o, marked |-> marked]
    BY <1>2 DEF SigprocmaskFilter, Enter, TypeOK
  <2>2. call'[u].set = o /\ call'[u].marked = marked /\ how # "unblock"
    BY <2>1
  <2>3. ~handling[u]
    BY <1>2, EmptySeq DEF SigprocmaskFilter, Calling, Free, AllHandled, Handled
  <2>4. userSet'[o] = {s \in userSet[o] : ~isMark[s]}
    BY <1>2, <2>2, <2>3 DEF SigprocmaskFilter, Filter, GetHandlingSignal, AdjustSignalMask, TypeOK
  <2>5. QED
    BY <2>2, <2>4
<1>3. QED
  BY <1>1, <1>2, CallStep

LEMMA MaskedQuiet ==
  ASSUME TypeOK, AllHandled, AllMasked, CallsFiltered,
         SetUp \/ \E t \in Threads : Program(t)
  PROVE  AllMasked'
<1>1. frames' = frames
  BY StacksQuiet
<1>2. ASSUME UNCHANGED <<mask, early, leaked>>
      PROVE  AllMasked'
  BY <1>1, <1>2 DEF AllMasked, Masked, Base, Own
<1>3. ASSUME NEW t \in Threads, SigprocmaskLinked(t)
      PROVE  AllMasked'
  <2> DEFINE how == call[t].how  old == mask[t]  set == userSet[call[t].set]
             marked == call[t].marked
             new == NewMask(how, old, set)
             e == (early[t] \union (new \ marked)) \intersect new
  <2>1. /\ mask' = [mask EXCEPT ![t] = new] /\ early' = [early EXCEPT ![t] = e]
        /\ leaked' = leaked /\ frames[t] = <<>>
    BY <1>3 DEF SigprocmaskLinked, Calling, Free
  <2>2. how \in {"block", "unblock", "setmask"} /\ (how # "unblock" => set \intersect marked = {})
    BY <1>3, CallFields DEF SigprocmaskLinked, Calling, CallsFiltered
  <2>3. t \notin leaked => old \subseteq early[t]
    BY <2>1, EmptySeq DEF AllMasked, Masked, Base
  <2> HIDE DEF how, old, set, marked
  <2>4. t \notin leaked => new \subseteq e
    BY <2>2, <2>3 DEF NewMask
  <2> HIDE DEF new, e
  <2>5. /\ mask'[t] = new /\ early'[t] = e
        /\ \A u \in Threads : u # t => mask'[u] = mask[u] /\ early'[u] = early[u]
    BY <2>1 DEF TypeOK
  <2>6. Masked(frames'[t], mask'[t], early'[t], t \in leaked')
    <3>1. Len(frames'[t]) = 0
      BY <1>1, <2>1, EmptySeq
    <3>2. QED
      BY <2>1, <2>4, <2>5, <3>1 DEF Masked, Base
  <2>7. QED
    BY <1>1, <2>1, <2>5, <2>6, MaskedOnly DEF Only
<1>4. ASSUME NEW t \in Threads, NEW how, NEW o, SigprocmaskInHandler(t, how, o)
      PROVE  AllMasked'
  <2> DEFINE q == frames[t]  new == NewMask(how, mask[t], userSet'[o])
  <2>1. mask' = [mask EXCEPT ![t] = new] /\ early' = early /\ leaked' = leaked
    BY <1>4 DEF SigprocmaskInHandler, ghosts
  <2> HIDE DEF new
  <2>2. mask'[t] = new /\ \A u \in Threads : u # t => mask'[u] = mask[u]
    BY <2>1 DEF TypeOK
  <2>3. PICK pc \in {"run", "user"} : At(t, pc)
    BY <1>4 DEF SigprocmaskInHandler
  <2>4. q # <<>> /\ q[Len(q)].pc \in {"run", "user"} /\ Len(q) # 0
    BY <2>3, TopAt
  <2>5. Masked(q, mask[t], early[t], t \in leaked)
    BY DEF AllMasked
  <2>6. Masked(q, new, early[t], t \in leaked)
    BY <2>4, <2>5 DEF Masked, Base, Own
  <2>7. QED
    BY <1>1, <2>1, <2>2, <2>6, MaskedOnly DEF Only
<1>5. QED
  BY <1>2, <1>3, <1>4 DEF SetUp, MarkSigMarks, MarkSigRegisters, AddHandler, RemoveHandler,
     SetUserSigHandler, Program, Sigaction, Signal, SigactionMarked, SigactionUnmarked,
     SigactionLinked, SigprocmaskFilter, threadVars, ghosts

MaskInv == HandlingInv /\ AllMasked /\ CallsFiltered

LEMMA MaskInvInit == Init => MaskInv
<1> SUFFICES ASSUME Init PROVE MaskInv
  OBVIOUS
<1>1. AllMasked
  BY EmptySeq DEF Init, AllMasked, Masked, Base
<1>2. CallsFiltered
  BY DEF Init, CallsFiltered, NoCall
<1>3. QED
  BY <1>1, <1>2, HandlingInvInit DEF MaskInv

LEMMA MaskInvNext == MaskInv /\ [Next]_vars => MaskInv'
<1> SUFFICES ASSUME MaskInv, [Next]_vars PROVE MaskInv'
  OBVIOUS
<1>1. HandlingInv' /\ TypeOK /\ GoodFrames /\ AllHandled /\ AllMasked /\ CallsFiltered
  BY HandlingInvNext DEF MaskInv, HandlingInv, ActionInv
<1>2. CASE Next
  <2>1. AllMasked'
    BY <1>1, <1>2, MaskedQuiet, MaskedKernel, MaskedChain DEF Next
  <2>2. CallsFiltered'
    BY <1>1, <1>2, FilteredNext
  <2>3. QED
    BY <1>1, <2>1, <2>2 DEF MaskInv
<1>3. CASE UNCHANGED vars
  <2>1. AllMasked'
    BY <1>1, <1>3 DEF AllMasked, Masked, Base, Own, vars, threadVars, ghosts
  <2>2. CallsFiltered'
    BY <1>1, <1>3 DEF CallsFiltered, vars
  <2>3. QED
    BY <1>1, <2>1, <2>2 DEF MaskInv
<1>4. QED
  BY <1>2, <1>3

\* Outside handlers a thread blocks no marked signal but those it blocked before
\* the mark (SignalStack.cpp:153-173, 218, 341-371).
THEOREM SignalsGetThrough == Spec => []MarkedStaysOpen
<1>1. MaskInv => MarkedStaysOpen
  BY EmptySeq DEF MaskInv, AllMasked, Masked, Base, MarkedStaysOpen
<1>2. QED
  BY <1>1, MaskInvInit, MaskInvNext, PTL DEF Spec
=============================================================================

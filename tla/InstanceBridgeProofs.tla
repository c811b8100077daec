------------------------ MODULE InstanceBridgeProofs ------------------------
(***************************************************************************)
(* InstanceNew answers a ready handle, or null without a runtime, for any  *)
(* set of hosts.  The driver's order does it: it enters the sub-scheduler  *)
(* in the runtime's map, writes the handle, and raises the flag last; the  *)
(* creator leaves its wait on the flag alone, so neither the mutex nor the *)
(* notification has a part in the argument.                                *)
(***************************************************************************)
EXTENDS InstanceBridge, TLAPS

HostPCs == {"start", "name", "test", "block", "blocked", "return", "using", "submit"}
DriverPCs == {"none", "create", "publish", "store", "notify", "run", "exited"}

Types ==
    /\ runtime \in BOOLEAN
    /\ host \in [Hosts -> HostPCs]
    /\ driver \in [Hosts -> DriverPCs]
    /\ schedule \in [Hosts -> Hosts \cup {NoHandle}]
    /\ inited \in [Hosts -> BOOLEAN]
    /\ result \in [Hosts -> Hosts \cup {NoHandle}]

\* The flag is up only after the driver has written the handle.
FlagTellsHandle ==
    \A h \in Hosts :
       /\ driver[h] \in {"store", "notify", "run", "exited"} => schedule[h] = h
       /\ inited[h] => driver[h] \in {"notify", "run", "exited"}

\* A driver has a runtime, and once it has made the sub-scheduler the runtime
\* knows it until it is stopped.
DriverIsKnown ==
    \A h \in Hosts :
       /\ host[h] = "name" \/ driver[h] # "none" => runtime
       /\ driver[h] \notin {"none", "create"} => h \in subModelMap \cup stopped

\* A creator leaves the wait, and its frame, only with the flag up; one that was
\* refused has no driver and no handle.
CreatorSawFlag ==
    \A h \in Hosts :
       /\ host[h] \in {"start", "name"} => driver[h] = "none"
       /\ host[h] \in {"test", "block", "blocked", "return"} => driver[h] # "none"
       /\ host[h] = "return" => inited[h]
       /\ host[h] \in {"start", "name", "using", "submit"} =>
             IF driver[h] = "none" THEN result[h] = NoHandle
             ELSE result[h] = h /\ inited[h]

IInv == Types /\ FlagTellsHandle /\ DriverIsKnown /\ CreatorSawFlag

-----------------------------------------------------------------------------
LEMMA InitIInv == Init => IInv
BY DEF Init, IInv, Types, FlagTellsHandle, DriverIsKnown, CreatorSawFlag, HostPCs, DriverPCs

\* The creator's steps move it along without touching the driver's stores.
LEMMA NewKeepsIInv ==
    ASSUME IInv, NEW h \in Hosts,
           CallStep(h) \/ NewStep(h) \/ SpuriousWake(h)
    PROVE  IInv'
<1> USE DEF IInv, Types, FlagTellsHandle, DriverIsKnown, CreatorSawFlag, HostPCs, DriverPCs, Host
<1>1. CASE ReadId(h)
  BY <1>1, NullIsNoHandle DEF ReadId, CallsNew, models, frame
<1>7. CASE InstanceNewRefused(h)
  BY <1>7, NullIsNoHandle DEF InstanceNewRefused, CallsNew, models, frame
<1>2. CASE CreateThread(h)
  BY <1>2 DEF CreateThread, Driver, models, frame
<1>3. CASE TestInited(h)
  BY <1>3 DEF TestInited, models, frame
<1>4. CASE Block(h)
  BY <1>4 DEF Block, models
<1>5. CASE Wake(h) \/ SpuriousWake(h)
  BY <1>5 DEF Wake, SpuriousWake, models, frame
<1>6. CASE InstanceNewReturn(h)
  BY <1>6 DEF InstanceNewReturn, models, frame
<1> QED
  BY <1>1, <1>2, <1>3, <1>4, <1>5, <1>6, <1>7 DEF NewStep, CallStep

\* The driver writes the handle before it raises the flag.
LEMMA DriverKeepsIInv ==
    ASSUME IInv, NEW h \in Hosts, DriverStep(h)
    PROVE  IInv'
<1> USE DEF IInv, Types, FlagTellsHandle, DriverIsKnown, CreatorSawFlag, HostPCs, DriverPCs, Driver
<1>1. CASE CreateSubSchedulerAndInit(h)
  BY <1>1 DEF CreateSubSchedulerAndInit, frame
<1>2. CASE WriteSchedule(h)
  BY <1>2 DEF WriteSchedule, models
<1>3. CASE StoreInited(h)
  BY <1>3 DEF StoreInited, models
<1>4. CASE NotifyAll(h)
  BY <1>4 DEF NotifyAll, models
<1>5. CASE DriverExit(h)
  BY <1>5 DEF DriverExit, models, frame
<1> QED
  BY <1>1, <1>2, <1>3, <1>4, <1>5 DEF DriverStep

\* Using a handle changes nothing about how it came to be.
LEMMA HandleKeepsIInv ==
    ASSUME IInv, NEW h \in Hosts, HandleStep(h)
    PROVE  IInv'
<1> USE DEF IInv, Types, FlagTellsHandle, DriverIsKnown, CreatorSawFlag, HostPCs, DriverPCs, Host
<1>1. CASE RunTaskSubmit(h)
  BY <1>1 DEF RunTaskSubmit, models, frame
<1>2. ASSUME NEW handle \in Handles, RunTaskCheck(h, handle)
      PROVE  IInv'
  BY <1>2 DEF RunTaskCheck, models, frame
<1>3. ASSUME NEW handle \in Handles, InstanceStop(h, handle)
      PROVE  IInv'
  BY <1>3 DEF InstanceStop, frame
<1> QED
  BY <1>1, <1>2, <1>3 DEF HandleStep

\* Whatever the order of the driver's stores and the creator's tests, spurious
\* wake-ups included: a call of InstanceNew that starts a driver answers the handle
\* of its own instance, which RunTask and Stop accept until InstanceStop has taken
\* it; a call refused for want of a runtime answers null and has started no driver
\* (instance_bridge.cpp:57, 83-84, 102-105, 140-143, 149-153).
THEOREM HandleReady == Spec => []HandleIsReady
<1>1. IInv /\ [Next]_vars => IInv'
  <2> SUFFICES ASSUME IInv, [Next]_vars PROVE IInv'
    OBVIOUS
  <2>1. CASE UNCHANGED vars
    BY <2>1 DEF vars, models, frame, IInv, Types, FlagTellsHandle, DriverIsKnown, CreatorSawFlag
  <2>2. CASE InitRuntime
    BY <2>2 DEF InitRuntime, frame, IInv, Types, FlagTellsHandle, DriverIsKnown, CreatorSawFlag
  <2>3. CASE Next /\ ~InitRuntime
    BY <2>3, NewKeepsIInv, DriverKeepsIInv, HandleKeepsIInv DEF Next
  <2> QED
    BY <2>1, <2>2, <2>3
<1>2. IInv => HandleIsReady
  BY NullIsNoHandle DEF IInv, FlagTellsHandle, DriverIsKnown, CreatorSawFlag, HandleIsReady, Accepts
<1> QED
  BY InitIInv, <1>1, <1>2, PTL DEF Spec
=============================================================================

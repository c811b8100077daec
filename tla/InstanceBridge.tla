--------------------------- MODULE InstanceBridge ---------------------------
(***************************************************************************)
(* Runtime instances (rt.instance/instance_bridge.cpp).  InstanceNew       *)
(* starts a driver thread, which creates a sub-scheduler and tells its     *)
(* creator through an atomic flag and a condition variable that both live  *)
(* in the stack frame of InstanceNew.  RunTask and Stop use the handle.    *)
(*                                                                         *)
(* An instance is named after the host thread that creates it, and its     *)
(* handle too.  The runtime, with its map of sub-schedulers, and the       *)
(* scheduler itself are C++ code outside this repository.  A host may call *)
(* before there is a runtime; the runtime is finished after the last call. *)
(***************************************************************************)
EXTENDS Naturals

CONSTANTS Hosts,    \* host threads, each creates one instance
          NoHandle  \* nullptr

ASSUME NullIsNoHandle == NoHandle \notin Hosts

VARIABLES
    runtime,    \* Runtime::CurrentRef() is not null
    host,       \* where a host thread is
    driver,     \* where the driver thread of an instance is
    schedule,   \* context.schedule of a frame
    inited,     \* subScheduleInited of a frame
    notified,   \* the waiter of a frame has been woken
    result,     \* what InstanceNew has returned
    subModelMap,\* the sub-schedulers the runtime knows
    stopped,    \* the handles InstanceStop has taken (only observed)
    target,     \* the handle a host is submitting a task to
    nextId, id, \* the static counter, and the value a host has read from it
    crashed     \* undefined behaviour has ended the process
frame == <<schedule, inited, notified>>
models == <<runtime, subModelMap, stopped>>
counter == <<nextId, id>>
vars == <<models, host, driver, frame, result, target, counter, crashed>>

Init ==
    /\ runtime = FALSE
    /\ host = [h \in Hosts |-> "start"]
    /\ driver = [h \in Hosts |-> "none"]
    /\ schedule = [h \in Hosts |-> NoHandle]
    /\ inited = [h \in Hosts |-> FALSE]
    /\ notified = [h \in Hosts |-> FALSE]
    /\ result = [h \in Hosts |-> NoHandle]
    /\ subModelMap = {}
    /\ stopped = {}
    /\ target = [h \in Hosts |-> NoHandle]
    /\ nextId = 0
    /\ id = [h \in Hosts |-> 0]
    /\ crashed = FALSE

Host(h, from, to) == host[h] = from /\ host' = [host EXCEPT ![h] = to]
Driver(h, from, to) == driver[h] = from /\ driver' = [driver EXCEPT ![h] = to]

\* InitCJRuntime, called by some host at some time.
InitRuntime ==
    /\ ~runtime /\ runtime' = TRUE
    /\ UNCHANGED <<subModelMap, stopped, host, driver, frame, result, target, counter, crashed>>

-----------------------------------------------------------------------------
(* InstanceNew *)

\* A host makes one instance; one that was refused may call again.
CallsNew(h, to) ==
    /\ host[h] \in {"start", "using"} /\ result[h] = NoHandle
    /\ host' = [host EXCEPT ![h] = to]

\* Without a runtime the answer is null, and no driver is started.
InstanceNewRefused(h) ==
    /\ ~runtime
    /\ CallsNew(h, "using")
    /\ UNCHANGED <<models, driver, frame, result, target, counter, crashed>>

\* id++ of the unsynchronised static counter: a read and a write.
ReadId(h) ==
    /\ runtime
    /\ CallsNew(h, "name")
    /\ id' = [id EXCEPT ![h] = nextId]
    /\ UNCHANGED <<models, driver, frame, result, target, nextId, crashed>>

CreateThread(h) ==
    /\ Host(h, "name", "test")
    /\ Driver(h, "none", "create")
    /\ nextId' = id[h] + 1
    /\ UNCHANGED <<models, frame, result, target, id, crashed>>

\* The predicate of the wait.  The frame's mutex is held from here on until the
\* thread blocks, but the driver never takes it.
TestInited(h) ==
    /\ Host(h, "test", IF inited[h] THEN "return" ELSE "block")
    /\ UNCHANGED <<models, driver, frame, result, target, counter, crashed>>

\* The thread joins the waiters: a notification before this step is lost on it.
Block(h) ==
    /\ Host(h, "block", "blocked")
    /\ notified' = [notified EXCEPT ![h] = FALSE]
    /\ UNCHANGED <<models, driver, schedule, inited, result, target, counter, crashed>>

Wake(h) ==
    /\ Host(h, "blocked", "test")
    /\ notified[h]
    /\ UNCHANGED <<models, driver, frame, result, target, counter, crashed>>

SpuriousWake(h) ==
    /\ Host(h, "blocked", "test")
    /\ UNCHANGED <<models, driver, frame, result, target, counter, crashed>>

\* The frame is gone after this step.
InstanceNewReturn(h) ==
    /\ Host(h, "return", "using")
    /\ result' = [result EXCEPT ![h] = schedule[h]]
    /\ UNCHANGED <<models, driver, frame, target, counter, crashed>>

FrameLives(h) == host[h] \in {"test", "block", "blocked", "return"}

-----------------------------------------------------------------------------
(* MRT_StartSubScheduler, on the driver thread *)

\* Mutant: the new sub-scheduler is not entered in the runtime's map.
CreateSubSchedulerUnknown(h) ==
    /\ Driver(h, "create", "publish")
    /\ UNCHANGED <<models, host, frame, result, target, counter, crashed>>

CreateSubSchedulerAndInit(h) ==
    /\ Driver(h, "create", "publish")
    /\ subModelMap' = subModelMap \cup {h}
    /\ UNCHANGED <<runtime, stopped, host, frame, result, target, counter, crashed>>

WriteSchedule(h) ==
    /\ Driver(h, "publish", "store")
    /\ schedule' = [schedule EXCEPT ![h] = h]
    /\ UNCHANGED <<models, host, inited, notified, result, target, counter, crashed>>

\* Mutant: the flag is raised before the handle is there.
StoreInitedEarly(h) ==
    /\ driver[h] \in {"publish", "store"}
    /\ driver' = IF driver[h] = "store" THEN [driver EXCEPT ![h] = "notify"] ELSE driver
    /\ inited' = [inited EXCEPT ![h] = TRUE]
    /\ UNCHANGED <<models, host, schedule, notified, result, target, counter, crashed>>

StoreInited(h) ==
    /\ Driver(h, "store", "notify")
    /\ inited' = [inited EXCEPT ![h] = TRUE]
    /\ UNCHANGED <<models, host, schedule, notified, result, target, counter, crashed>>

\* The creator may have seen the flag and returned: then the condition variable
\* and the context that points at it are dead stack, and anything may happen.
NotifyAll(h) ==
    /\ Driver(h, "notify", "run")
    /\ \/ FrameLives(h) /\ notified' = [notified EXCEPT ![h] = TRUE] /\ UNCHANGED crashed
       \/ ~FrameLives(h) /\ crashed' \in BOOLEAN /\ UNCHANGED notified
    /\ UNCHANGED <<models, host, schedule, inited, result, target, counter>>

\* ScheduleStart returns when the instance is stopped.
DriverExit(h) ==
    /\ Driver(h, "run", "exited")
    /\ h \notin subModelMap
    /\ UNCHANGED <<models, host, frame, result, target, counter, crashed>>

-----------------------------------------------------------------------------
(* The handle, which its creator may hand to any host *)

Handles == {result[h] : h \in Hosts}

\* What RunTask and Stop ask of a handle before they use it: a runtime, a handle
\* that is not null, and a sub-scheduler the runtime knows.
Accepts(handle) == runtime /\ handle # NoHandle /\ handle \in subModelMap

\* The tests of RunTask; RunCJTaskToSchedule follows in a second step.
RunTaskCheck(h, handle) ==
    /\ Host(h, "using", IF Accepts(handle) THEN "submit" ELSE "using")
    /\ target' = [target EXCEPT ![h] = IF Accepts(handle) THEN handle ELSE NoHandle]
    /\ UNCHANGED <<models, driver, frame, result, counter, crashed>>

RunTaskSubmit(h) ==
    /\ Host(h, "submit", "using")
    /\ target' = [target EXCEPT ![h] = NoHandle]
    /\ UNCHANGED <<models, driver, frame, result, counter, crashed>>

\* MRT_StopSubScheduler forgets the sub-scheduler.  A handle that is not accepted
\* is refused, without any change.
InstanceStop(h, handle) ==
    /\ host[h] = "using" /\ Accepts(handle)
    /\ subModelMap' = subModelMap \ {handle}
    /\ stopped' = stopped \cup {handle}
    /\ UNCHANGED <<runtime, host, driver, frame, result, target, counter, crashed>>

-----------------------------------------------------------------------------
NewStep(h) ==
    CreateThread(h) \/ TestInited(h) \/ Block(h) \/ Wake(h) \/ InstanceNewReturn(h)
DriverStep(h) ==
    \/ CreateSubSchedulerAndInit(h) \/ WriteSchedule(h) \/ StoreInited(h)
    \/ NotifyAll(h) \/ DriverExit(h)
HandleStep(h) ==
    \/ \E handle \in Handles : RunTaskCheck(h, handle) \/ InstanceStop(h, handle)
    \/ RunTaskSubmit(h)

CallStep(h) == InstanceNewRefused(h) \/ ReadId(h)

Next == ~crashed /\
    \/ InitRuntime
    \/ \E h \in Hosts :
          CallStep(h) \/ NewStep(h) \/ SpuriousWake(h) \/ DriverStep(h) \/ HandleStep(h)

\* Running threads run on.  Nothing makes a host call the interface, and a
\* condition variable is not obliged to wake anybody spuriously.
Fairness == \A h \in Hosts :
    WF_vars(~crashed /\ NewStep(h)) /\ WF_vars(~crashed /\ DriverStep(h))

Spec == Init /\ [][Next]_vars
FairSpec == Spec /\ Fairness

-----------------------------------------------------------------------------
\* A call of InstanceNew that started no driver, for want of a runtime, answers
\* null.  Every other call answers the handle of its own instance, and never null,
\* although the driver publishes it without the creator's mutex; RunTask and Stop
\* accept that handle from the moment it is answered until InstanceStop takes it.
HandleIsReady ==
    \A h \in Hosts : host[h] \in {"using", "submit"} =>
       IF driver[h] = "none" THEN result[h] = NoHandle
       ELSE result[h] = h /\ (Accepts(h) \/ h \in stopped)

\* Every call of InstanceNew returns, while the process lives.
InstanceNewReturns ==
    \A h \in Hosts : host[h] = "test" ~> (host[h] = "using" \/ crashed)
=============================================================================

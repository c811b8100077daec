------------------------------- MODULE RwLock -------------------------------
(***************************************************************************)
(* rt.base/RwLock.cj: a readers-writer lock in one 32-bit counter, 0 when  *)
(* free, -1 when write-locked, otherwise the number of readers.  One step  *)
(* is one atomic operation on the counter; the loops yield in between.     *)
(***************************************************************************)
EXTENDS Integers, FiniteSets

CONSTANT Threads

ASSUME ThreadsFinite == IsFiniteSet(Threads)

WRITE_LOCKED == -1

VARIABLES
  lockCount,
  seen,       \* per thread, the counter value it loaded last
  pc          \* per thread, the next atomic operation

vars == <<lockCount, seen, pc>>

\* A label names the operation in progress and what it does next.
Waiting == {"lockRead.load", "lockRead.cas", "lockWrite.cas"}
Trying == {"tryLockRead.load", "tryLockRead.cas"}
Holding == {"reading", "writing", "unlockWrite.store"}

TypeOK ==
  /\ lockCount \in WRITE_LOCKED .. Cardinality(Threads)
  /\ seen \in [Threads -> WRITE_LOCKED .. Cardinality(Threads)]
  /\ pc \in [Threads -> {"idle", "fatal"} \union Waiting \union Trying \union Holding]

Init ==
  /\ lockCount = 0
  /\ seen = [t \in Threads |-> 0]
  /\ pc = [t \in Threads |-> "idle"]

Goto(t, from, to) == pc[t] = from /\ pc' = [pc EXCEPT ![t] = to]

-----------------------------------------------------------------------------
(* LockRead and TryLockRead *)

CallLockRead(t) == Goto(t, "idle", "lockRead.load") /\ UNCHANGED <<lockCount, seen>>

CallTryLockRead(t) ==
  Goto(t, "idle", "tryLockRead.load") /\ UNCHANGED <<lockCount, seen>>

\* Mutant: WRITE_LOCKED is not looked for.
LoadAnything(t, load, cas, busy) ==
  /\ Goto(t, load, cas)
  /\ seen' = [seen EXCEPT ![t] = lockCount]
  /\ UNCHANGED lockCount

\* Load the counter; busy is where the thread goes if a writer holds the lock.
Load(t, load, cas, busy) ==
  /\ Goto(t, load, IF lockCount = WRITE_LOCKED THEN busy ELSE cas)
  /\ seen' = [seen EXCEPT ![t] = lockCount]
  /\ UNCHANGED lockCount

\* Mutant: the counter is written without a comparison.
CasReadBlind(t, load, cas) ==
  /\ Goto(t, cas, "reading")
  /\ lockCount' = seen[t] + 1
  /\ UNCHANGED seen

\* One more reader, if the counter is still what the thread saw; otherwise
\* load it again.
CasRead(t, load, cas) ==
  /\ IF lockCount = seen[t]
     THEN Goto(t, cas, "reading") /\ lockCount' = seen[t] + 1
     ELSE Goto(t, cas, load) /\ UNCHANGED lockCount
  /\ UNCHANGED seen

LockReadLoad(t) == Load(t, "lockRead.load", "lockRead.cas", "lockRead.load")
LockReadCas(t) == CasRead(t, "lockRead.load", "lockRead.cas")
TryLockReadLoad(t) == Load(t, "tryLockRead.load", "tryLockRead.cas", "idle")
TryLockReadCas(t) == CasRead(t, "tryLockRead.load", "tryLockRead.cas")

-----------------------------------------------------------------------------
(* LockWrite and TryLockWrite *)

CallLockWrite(t) == Goto(t, "idle", "lockWrite.cas") /\ UNCHANGED <<lockCount, seen>>

\* Compare-and-swap 0 to WRITE_LOCKED; failed is where a thread goes that
\* finds the lock held.
CasWrite(t, from, failed) ==
  /\ IF lockCount = 0
     THEN Goto(t, from, "writing") /\ lockCount' = WRITE_LOCKED
     ELSE Goto(t, from, failed) /\ UNCHANGED lockCount
  /\ UNCHANGED seen

LockWrite(t) == CasWrite(t, "lockWrite.cas", "lockWrite.cas")
TryLockWrite(t) == CasWrite(t, "idle", "idle")

-----------------------------------------------------------------------------
(* UnlockRead and UnlockWrite *)

UnlockRead(t) ==
  /\ Goto(t, "reading", IF lockCount < 0 THEN "fatal" ELSE "idle")
  /\ lockCount' = lockCount - 1
  /\ UNCHANGED seen

UnlockWriteCheck(t) ==
  /\ Goto(t, "writing",
          IF lockCount # WRITE_LOCKED THEN "fatal" ELSE "unlockWrite.store")
  /\ UNCHANGED <<lockCount, seen>>

\* Mutant: the writer is taken off the counter like a reader.
UnlockWriteDecrement(t) ==
  /\ Goto(t, "unlockWrite.store", "idle")
  /\ lockCount' = lockCount - 1
  /\ UNCHANGED seen

\* Mutant: the counter is never reset.
UnlockWriteForgotten(t) ==
  /\ Goto(t, "unlockWrite.store", "idle")
  /\ UNCHANGED <<lockCount, seen>>

UnlockWriteStore(t) ==
  /\ Goto(t, "unlockWrite.store", "idle")
  /\ lockCount' = 0
  /\ UNCHANGED seen

-----------------------------------------------------------------------------
Call(t) ==
  CallLockRead(t) \/ CallTryLockRead(t) \/ CallLockWrite(t) \/ TryLockWrite(t)

Continue(t) ==
  \/ LockReadLoad(t) \/ LockReadCas(t)
  \/ TryLockReadLoad(t) \/ TryLockReadCas(t)
  \/ LockWrite(t)
  \/ UnlockRead(t) \/ UnlockWriteCheck(t) \/ UnlockWriteStore(t)

Next == \E t \in Threads : Call(t) \/ Continue(t)

Spec == Init /\ [][Next]_vars

\* A thread inside an operation keeps running, and a holder unlocks some day.
FairSpec == Spec /\ \A t \in Threads : WF_vars(Continue(t))

-----------------------------------------------------------------------------
(* Properties *)

Readers == {t \in Threads : pc[t] = "reading"}
Writers == {t \in Threads : pc[t] \in {"writing", "unlockWrite.store"}}

\* The counter always tells the holders: WRITE_LOCKED stands for exactly one
\* writer and no reader, anything else for that many readers and no writer,
\* whatever races between loads and compare-and-swaps (RwLock.cj:31-34).
CountTellsHolders ==
  IF Writers = {}
  THEN lockCount = Cardinality(Readers)
  ELSE /\ lockCount = WRITE_LOCKED
       /\ Readers = {}
       /\ Cardinality(Writers) = 1

\* No holder's unlock is ever taken for a misuse: the abort in UnlockRead and
\* the fatal check in UnlockWrite are not reached.
NeverFatal == \A t \in Threads : pc[t] # "fatal"

\* The lock is a readers-writer lock.
Lock == INSTANCE ReadersWriter WITH readers <- Readers, writers <- Writers
ImplementsReadersWriter == Lock!Spec

\* While somebody waits, somebody gets in: contention never leaves the lock
\* free and everybody outside.  It says nothing of a particular thread, and
\* a writer can indeed wait for ever while readers come and go.
SomebodyEnters ==
  (\E t \in Threads : pc[t] \in Waiting)
     ~> (\E t \in Threads : pc[t] \in Holding)

=============================================================================

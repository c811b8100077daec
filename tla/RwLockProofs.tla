---------------------------- MODULE RwLockProofs ----------------------------
(***************************************************************************)
(* RwLock keeps its counter right for any finite set of threads, and       *)
(* implements ReadersWriter.  The argument: every step either leaves the   *)
(* holders and the counter alone or is one of four transfers, each of      *)
(* which is a step of ReadersWriter and moves the counter accordingly.     *)
(***************************************************************************)
EXTENDS RwLock, FiniteSetTheorems, TLAPS

PCs == {"idle", "fatal"} \union Waiting \union Trying \union Holding

\* A reader's compare-and-swap never starts from WRITE_LOCKED.
SeenUnlocked ==
  \A t \in Threads :
     pc[t] \in {"lockRead.cas", "tryLockRead.cas"} => seen[t] # WRITE_LOCKED

IInv == TypeOK /\ CountTellsHolders /\ NeverFatal /\ SeenUnlocked

Stays ==
  /\ Readers' = Readers
  /\ Writers' = Writers
  /\ lockCount' = lockCount

EnterRead(t) ==
  /\ t \notin Readers
  /\ Writers = {}
  /\ Readers' = Readers \union {t}
  /\ Writers' = {}
  /\ lockCount' = lockCount + 1

EnterWrite(t) ==
  /\ Readers = {}
  /\ Writers = {}
  /\ Readers' = {}
  /\ Writers' = {t}
  /\ lockCount' = WRITE_LOCKED

LeaveRead(t) ==
  /\ t \in Readers
  /\ Writers = {}
  /\ Readers' = Readers \ {t}
  /\ Writers' = {}
  /\ lockCount' = lockCount - 1

LeaveWrite(t) ==
  /\ t \in Writers
  /\ Readers = {}
  /\ Readers' = {}
  /\ Writers' = {}
  /\ lockCount' = 0

Transfer(t) ==
  Stays \/ EnterRead(t) \/ EnterWrite(t) \/ LeaveRead(t) \/ LeaveWrite(t)

-----------------------------------------------------------------------------
\* The set of readers is finite, so it can be counted.
LEMMA ReadersFinite ==
  /\ IsFiniteSet(Readers)
  /\ Cardinality(Readers) \in 0 .. Cardinality(Threads)
  /\ Cardinality(Threads) \in Nat
<1>1. Readers \in SUBSET Threads
  BY DEF Readers
<1>2. IsFiniteSet(Readers) /\ Cardinality(Readers) <= Cardinality(Threads)
  BY <1>1, ThreadsFinite, FS_Subset
<1>3. Cardinality(Readers) \in Nat /\ Cardinality(Threads) \in Nat
  BY <1>2, ThreadsFinite, FS_CardinalityType
<1> QED
  BY <1>2, <1>3

\* The same of the readers after a step.
LEMMA NextReadersFinite ==
  /\ IsFiniteSet(Readers')
  /\ Cardinality(Readers') \in 0 .. Cardinality(Threads)
<1>1. Readers' \in SUBSET Threads
  BY DEF Readers
<1>2. IsFiniteSet(Readers') /\ Cardinality(Readers') <= Cardinality(Threads)
  BY <1>1, ThreadsFinite, FS_Subset
<1>3. Cardinality(Readers') \in Nat /\ Cardinality(Threads) \in Nat
  BY <1>2, ThreadsFinite, FS_CardinalityType
<1> QED
  BY <1>2, <1>3

\* What the counter says about the holders.
LEMMA CountReadOff ==
  ASSUME CountTellsHolders
  PROVE  /\ lockCount = 0 => Readers = {} /\ Writers = {}
         /\ lockCount # WRITE_LOCKED => Writers = {} /\ lockCount = Cardinality(Readers)
         /\ Writers = {} => lockCount # WRITE_LOCKED
         /\ Writers # {} => lockCount = WRITE_LOCKED /\ Readers = {}
         /\ \A t, u \in Writers : t = u
<1>1. CASE Writers = {}
  <2>1. lockCount = Cardinality(Readers)
    BY <1>1 DEF CountTellsHolders
  <2>2. lockCount = 0 => Readers = {}
    BY <2>1, ReadersFinite, FS_EmptySet
  <2> QED
    BY <1>1, <2>1, <2>2, ReadersFinite DEF WRITE_LOCKED
<1>2. CASE Writers # {}
  <2>1. lockCount = WRITE_LOCKED /\ Readers = {} /\ Cardinality(Writers) = 1
    BY <1>2 DEF CountTellsHolders
  <2>2. Writers \in SUBSET Threads
    BY DEF Writers
  <2>3. IsFiniteSet(Writers)
    BY <2>2, ThreadsFinite, FS_Subset
  <2>4. PICK w : Writers = {w}
    BY <2>1, <2>3, FS_Singleton
  <2> QED
    BY <1>2, <2>1, <2>4 DEF WRITE_LOCKED
<1> QED
  BY <1>1, <1>2

-----------------------------------------------------------------------------
(* Every step is a transfer *)

\* A step that only moves the thread between labels of no holder.
LEMMA StaysOutside ==
  ASSUME NEW t \in Threads, NEW from, NEW to, TypeOK, Goto(t, from, to),
         from \notin Holding, to \notin Holding, UNCHANGED lockCount
  PROVE  Stays
BY DEF Goto, TypeOK, Holding, Stays, Readers, Writers

\* Loading the counter changes no holder.
LEMMA LoadStays ==
  ASSUME NEW t \in Threads, NEW load, NEW cas, NEW busy, TypeOK,
         Load(t, load, cas, busy),
         load \notin Holding, cas \notin Holding, busy \notin Holding
  PROVE  Stays
<1>1. PICK to \in {cas, busy} : Goto(t, load, to)
  BY DEF Load
<1> QED
  BY <1>1, StaysOutside DEF Load

\* A reader's compare-and-swap lets it in or changes no holder.
LEMMA CasReadTransfers ==
  ASSUME NEW t \in Threads, NEW load, NEW cas, IInv, CasRead(t, load, cas),
         cas \in {"lockRead.cas", "tryLockRead.cas"}, load \notin Holding
  PROVE  Stays \/ EnterRead(t)
<1>1. CASE lockCount = seen[t]
  <2>1. Goto(t, cas, "reading") /\ lockCount' = lockCount + 1
    BY <1>1 DEF CasRead
  <2>2. lockCount # WRITE_LOCKED
    BY <1>1, <2>1 DEF IInv, SeenUnlocked, Goto
  <2>3. Writers = {}
    BY <2>2, CountReadOff DEF IInv
  <2>4. t \notin Readers /\ Readers' = Readers \union {t} /\ Writers' = Writers
    BY <2>1 DEF Goto, IInv, TypeOK, Readers, Writers
  <2> QED
    BY <2>1, <2>3, <2>4 DEF EnterRead
<1>2. CASE lockCount # seen[t]
  <2>1. Goto(t, cas, load) /\ UNCHANGED lockCount
    BY <1>2 DEF CasRead
  <2> QED
    BY <2>1, StaysOutside DEF IInv, Holding
<1> QED
  BY <1>1, <1>2

\* A writer's compare-and-swap lets it in alone or changes no holder.
LEMMA CasWriteTransfers ==
  ASSUME NEW t \in Threads, NEW from, NEW failed, IInv, CasWrite(t, from, failed),
         from \notin Holding, failed \notin Holding
  PROVE  Stays \/ EnterWrite(t)
<1>1. CASE lockCount = 0
  <2>1. Goto(t, from, "writing") /\ lockCount' = WRITE_LOCKED
    BY <1>1 DEF CasWrite
  <2>2. Readers = {} /\ Writers = {}
    BY <1>1, CountReadOff DEF IInv
  <2>3. Readers' = Readers /\ Writers' = Writers \union {t}
    BY <2>1 DEF Goto, IInv, TypeOK, Holding, Readers, Writers
  <2> QED
    BY <2>1, <2>2, <2>3 DEF EnterWrite
<1>2. CASE lockCount # 0
  <2>1. Goto(t, from, failed) /\ UNCHANGED lockCount
    BY <1>2 DEF CasWrite
  <2> QED
    BY <2>1, StaysOutside DEF IInv
<1> QED
  BY <1>1, <1>2

\* A reader that unlocks leaves, and is not taken for a misuse.
LEMMA UnlockReadTransfers ==
  ASSUME NEW t \in Threads, IInv, UnlockRead(t)
  PROVE  LeaveRead(t) /\ Goto(t, "reading", "idle")
<1>1. t \in Readers
  BY DEF UnlockRead, Goto, Readers
<1>2. Writers = {} /\ lockCount = Cardinality(Readers)
  BY <1>1, CountReadOff DEF IInv
<1>3. Goto(t, "reading", "idle")
  BY <1>2, ReadersFinite DEF UnlockRead
<1>4. Readers' = Readers \ {t} /\ Writers' = Writers
  BY <1>3 DEF Goto, IInv, TypeOK, Readers, Writers
<1> QED
  BY <1>1, <1>2, <1>3, <1>4 DEF UnlockRead, LeaveRead

\* A writer's check succeeds and changes no holder.
LEMMA UnlockWriteCheckStays ==
  ASSUME NEW t \in Threads, IInv, UnlockWriteCheck(t)
  PROVE  Stays /\ Goto(t, "writing", "unlockWrite.store")
<1>1. t \in Writers
  BY DEF UnlockWriteCheck, Goto, Writers
<1>2. lockCount = WRITE_LOCKED
  BY <1>1, CountReadOff DEF IInv
<1>3. Goto(t, "writing", "unlockWrite.store") /\ UNCHANGED lockCount
  BY <1>2 DEF UnlockWriteCheck
<1> QED
  BY <1>3 DEF Goto, IInv, TypeOK, Stays, Readers, Writers

\* A writer that stores 0 was the only holder and leaves.
LEMMA UnlockWriteStoreTransfers ==
  ASSUME NEW t \in Threads, IInv, UnlockWriteStore(t)
  PROVE  LeaveWrite(t)
<1>1. Goto(t, "unlockWrite.store", "idle") /\ lockCount' = 0
  BY DEF UnlockWriteStore
<1>2. t \in Writers
  BY <1>1 DEF Goto, Writers
<1>3. Readers = {} /\ \A u \in Writers : u = t
  BY <1>2, CountReadOff DEF IInv
<1>4. Readers' = Readers /\ Writers' = Writers \ {t}
  BY <1>1 DEF Goto, IInv, TypeOK, Readers, Writers
<1> QED
  BY <1>1, <1>2, <1>3, <1>4 DEF LeaveWrite

\* The case split over the operations that the theorems below share.
LEMMA StepTransfers ==
  ASSUME IInv, NEW t \in Threads, Call(t) \/ Continue(t)
  PROVE  Transfer(t)
<1> USE DEF Transfer
<1>1. CASE CallLockRead(t) \/ CallTryLockRead(t) \/ CallLockWrite(t)
  BY <1>1, StaysOutside DEF CallLockRead, CallTryLockRead, CallLockWrite, IInv, Holding
<1>2. CASE TryLockWrite(t) \/ LockWrite(t)
  BY <1>2, CasWriteTransfers DEF TryLockWrite, LockWrite, Holding
<1>3. CASE LockReadLoad(t) \/ TryLockReadLoad(t)
  BY <1>3, LoadStays DEF LockReadLoad, TryLockReadLoad, IInv, Holding
<1>4. CASE LockReadCas(t) \/ TryLockReadCas(t)
  BY <1>4, CasReadTransfers DEF LockReadCas, TryLockReadCas, Holding
<1>5. CASE UnlockRead(t)
  BY <1>5, UnlockReadTransfers
<1>6. CASE UnlockWriteCheck(t)
  BY <1>6, UnlockWriteCheckStays
<1>7. CASE UnlockWriteStore(t)
  BY <1>7, UnlockWriteStoreTransfers
<1> QED
  BY <1>1, <1>2, <1>3, <1>4, <1>5, <1>6, <1>7 DEF Call, Continue

-----------------------------------------------------------------------------
(* The invariant *)

\* A transfer moves the counter the way it moves the holders.
LEMMA TransferKeepsCount ==
  ASSUME IInv, NEW t \in Threads, Transfer(t)
  PROVE  CountTellsHolders'
<1>1. CASE Stays
  <2>1. Cardinality(Readers') = Cardinality(Readers)
        /\ Cardinality(Writers') = Cardinality(Writers)
    BY <1>1 DEF Stays
  <2> QED
    BY <1>1, <2>1 DEF Stays, IInv, CountTellsHolders
<1>2. CASE EnterRead(t)
  <2>1. Cardinality(Readers') = Cardinality(Readers) + 1
    BY <1>2, ReadersFinite, FS_AddElement DEF EnterRead
  <2>2. lockCount = Cardinality(Readers)
    BY <1>2 DEF EnterRead, IInv, CountTellsHolders
  <2> QED
    BY <1>2, <2>1, <2>2 DEF EnterRead, CountTellsHolders
<1>3. CASE EnterWrite(t)
  <2>1. Cardinality(Writers') = 1
    BY <1>3, FS_Singleton DEF EnterWrite
  <2> QED
    BY <1>3, <2>1 DEF EnterWrite, CountTellsHolders
<1>4. CASE LeaveRead(t)
  <2>1. Cardinality(Readers') = Cardinality(Readers) - 1
    BY <1>4, ReadersFinite, FS_RemoveElement DEF LeaveRead
  <2>2. lockCount = Cardinality(Readers)
    BY <1>4 DEF LeaveRead, IInv, CountTellsHolders
  <2> QED
    BY <1>4, <2>1, <2>2 DEF LeaveRead, CountTellsHolders
<1>5. CASE LeaveWrite(t)
  <2>1. Cardinality(Readers') = 0
    BY <1>5, FS_EmptySet DEF LeaveWrite
  <2> QED
    BY <1>5, <2>1 DEF LeaveWrite, CountTellsHolders
<1> QED
  BY <1>1, <1>2, <1>3, <1>4, <1>5 DEF Transfer

\* Every operation keeps the labels and the loaded values in their types, and a
\* reader only goes on to its compare-and-swap with an unlocked count.
LEMMA StepKeepsThreads ==
  ASSUME IInv, NEW t \in Threads, Call(t) \/ Continue(t)
  PROVE  /\ seen' \in [Threads -> WRITE_LOCKED .. Cardinality(Threads)]
         /\ pc' \in [Threads -> PCs]
         /\ NeverFatal'
         /\ SeenUnlocked'
<1> USE DEF IInv, TypeOK, NeverFatal, SeenUnlocked, PCs, Waiting, Trying, Holding,
            Goto, WRITE_LOCKED
<1>1. CASE CallLockRead(t) \/ CallTryLockRead(t) \/ CallLockWrite(t)
  BY <1>1 DEF CallLockRead, CallTryLockRead, CallLockWrite
<1>2. CASE TryLockWrite(t) \/ LockWrite(t)
  BY <1>2 DEF TryLockWrite, LockWrite, CasWrite
<1>3. CASE LockReadLoad(t) \/ TryLockReadLoad(t)
  BY <1>3 DEF LockReadLoad, TryLockReadLoad, Load
<1>4. CASE LockReadCas(t) \/ TryLockReadCas(t)
  BY <1>4 DEF LockReadCas, TryLockReadCas, CasRead
<1>5. CASE UnlockRead(t)
  <2>1. Goto(t, "reading", "idle")
    BY <1>5, UnlockReadTransfers
  <2> QED
    BY <1>5, <2>1 DEF UnlockRead
<1>6. CASE UnlockWriteCheck(t)
  <2>1. Goto(t, "writing", "unlockWrite.store")
    BY <1>6, UnlockWriteCheckStays
  <2> QED
    BY <1>6, <2>1 DEF UnlockWriteCheck
<1>7. CASE UnlockWriteStore(t)
  BY <1>7 DEF UnlockWriteStore
<1> QED
  BY <1>1, <1>2, <1>3, <1>4, <1>5, <1>6, <1>7 DEF Call, Continue

\* The count stays between WRITE_LOCKED and the number of threads because it
\* tells the holders, so its type is not inductive on its own.
LEMMA CountBounded ==
  ASSUME CountTellsHolders'
  PROVE  lockCount' \in WRITE_LOCKED .. Cardinality(Threads)
<1>1. lockCount' = WRITE_LOCKED \/ lockCount' = Cardinality(Readers')
  BY DEF CountTellsHolders
<1> QED
  BY <1>1, NextReadersFinite, ReadersFinite DEF WRITE_LOCKED

\* The strengthened invariant holds in every reachable state.
LEMMA Invariant == Spec => []IInv
<1>1. Init => IInv
  <2> SUFFICES ASSUME Init PROVE IInv
    OBVIOUS
  <2>1. TypeOK
    BY ReadersFinite DEF Init, TypeOK, WRITE_LOCKED
  <2>2. Readers = {} /\ Writers = {}
    BY DEF Init, Readers, Writers
  <2>3. Cardinality(Readers) = 0
    BY <2>2, FS_EmptySet
  <2> QED
    BY <2>1, <2>2, <2>3
       DEF Init, IInv, CountTellsHolders, NeverFatal, SeenUnlocked
<1>2. IInv /\ [Next]_vars => IInv'
  <2> SUFFICES ASSUME IInv, [Next]_vars PROVE IInv'
    OBVIOUS
  <2>1. CASE Next
    <3>1. PICK t \in Threads : Call(t) \/ Continue(t)
      BY <2>1 DEF Next
    <3>2. CountTellsHolders'
      BY <3>1, StepTransfers, TransferKeepsCount
    <3>3. lockCount' \in WRITE_LOCKED .. Cardinality(Threads)
      BY <3>2, CountBounded
    <3> QED
      BY <3>1, <3>2, <3>3, StepKeepsThreads DEF IInv, TypeOK, PCs
  <2>2. CASE UNCHANGED vars
    BY <2>2 DEF vars, IInv, TypeOK, CountTellsHolders, NeverFatal, SeenUnlocked,
                Readers, Writers
  <2> QED
    BY <2>1, <2>2
<1> QED
  BY <1>1, <1>2, PTL DEF Spec

-----------------------------------------------------------------------------
(* The results *)

\* The counter, the loaded values and the labels stay in their types: the
\* 32-bit counter never exceeds the number of threads.
THEOREM TypeCorrect == Spec => []TypeOK
<1>1. IInv => TypeOK
  BY DEF IInv
<1> QED
  BY <1>1, Invariant, PTL

\* The counter of RwLock.cj always tells who holds the lock.
THEOREM CountCorrect == Spec => []CountTellsHolders
<1>1. IInv => CountTellsHolders
  BY DEF IInv
<1> QED
  BY <1>1, Invariant, PTL

\* No holder's UnlockRead aborts and no holder's UnlockWrite fails its check.
THEOREM NoMisuseSeen == Spec => []NeverFatal
<1>1. IInv => NeverFatal
  BY DEF IInv
<1> QED
  BY <1>1, Invariant, PTL

\* RwLock implements a readers-writer lock: every grant and release of the code
\* is one of ReadersWriter's, all other steps leave the holders alone.
THEOREM Refinement == Spec => ImplementsReadersWriter
<1> USE DEF ImplementsReadersWriter
<1>1. Init => Lock!Init
  BY DEF Init, Lock!Init, Readers, Writers
<1>2. IInv /\ [Next]_vars => [Lock!Next]_Lock!vars
  <2> SUFFICES ASSUME IInv, [Next]_vars PROVE [Lock!Next]_Lock!vars
    OBVIOUS
  <2>1. CASE Next
    <3>1. PICK t \in Threads : Call(t) \/ Continue(t)
      BY <2>1 DEF Next
    <3>2. CASE Stays
      BY <3>2 DEF Stays, Lock!vars
    <3>3. CASE EnterRead(t)
      BY <3>3 DEF EnterRead, Lock!Next, Lock!GrantRead
    <3>4. CASE EnterWrite(t)
      BY <3>4 DEF EnterWrite, Lock!Next, Lock!GrantWrite
    <3>5. CASE LeaveRead(t)
      BY <3>5 DEF LeaveRead, Lock!Next, Lock!ReleaseRead
    <3>6. CASE LeaveWrite(t)
      BY <3>6 DEF LeaveWrite, Lock!Next, Lock!ReleaseWrite
    <3> QED
      BY <3>1, <3>2, <3>3, <3>4, <3>5, <3>6, StepTransfers DEF Transfer
  <2>2. CASE UNCHANGED vars
    BY <2>2 DEF vars, Lock!vars, Readers, Writers
  <2> QED
    BY <2>1, <2>2
<1> QED
  BY <1>1, <1>2, Invariant, PTL DEF Spec, Lock!Spec

=============================================================================

---------------------------- MODULE ReadersWriter ----------------------------
(***************************************************************************)
(* What a readers-writer lock promises: one writer alone, or any number of *)
(* readers.  Each request, granted or not, is a step of the lock's user;   *)
(* only the grant and the release change anything here.                    *)
(***************************************************************************)
CONSTANT Threads

VARIABLES readers, writers

vars == <<readers, writers>>

Init == readers = {} /\ writers = {}

GrantRead(t) ==
  /\ writers = {}
  /\ t \notin readers
  /\ readers' = readers \union {t}
  /\ UNCHANGED writers

GrantWrite(t) ==
  /\ writers = {}
  /\ readers = {}
  /\ writers' = {t}
  /\ UNCHANGED readers

ReleaseRead(t) ==
  /\ t \in readers
  /\ readers' = readers \ {t}
  /\ UNCHANGED writers

ReleaseWrite(t) ==
  /\ t \in writers
  /\ writers' = {}
  /\ UNCHANGED readers

Next ==
  \E t \in Threads :
     GrantRead(t) \/ GrantWrite(t) \/ ReleaseRead(t) \/ ReleaseWrite(t)

Spec == Init /\ [][Next]_vars

=============================================================================

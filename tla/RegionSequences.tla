-------------------------- MODULE RegionSequences --------------------------
(***************************************************************************)
(* What the region lists of the heap promise their callers: a list is a    *)
(* sequence of regions, every operation is one step, and a region that is  *)
(* handed over is in one place at any time.  RegionList implements this    *)
(* with linked regions and one mutex per list.                             *)
(***************************************************************************)
EXTENDS Sequences, SequencesExt

CONSTANTS Regions, Lists, Threads, Nobody

VARIABLES
    contents,   \* the regions of every list, the head first
    carried,    \* the regions a thread is merging from one list into another
    holder      \* the thread that has taken a region out of the lists
vars == <<contents, carried, holder>>

Init ==
    /\ contents = [l \in Lists |-> <<>>]
    /\ carried = [t \in Threads |-> <<>>]
    /\ holder \in [Regions -> Threads]

Put(t, l, r) ==
    /\ holder[r] = t
    /\ holder' = [holder EXCEPT ![r] = Nobody]
    /\ contents' = [contents EXCEPT ![l] = <<r>> \o @]
    /\ UNCHANGED carried

Withdraw(t, l, r) ==
    /\ holder[r] = Nobody
    /\ holder' = [holder EXCEPT ![r] = t]
    /\ \E i \in DOMAIN contents[l] :
          contents[l][i] = r /\ contents' = [contents EXCEPT ![l] = RemoveAt(@, i)]
    /\ UNCHANGED carried

\* A merge takes all regions of one list and puts them before those of another.
Carry(t, src) ==
    /\ UNCHANGED holder
    /\ carried[t] = <<>>
    /\ carried' = [carried EXCEPT ![t] = contents[src]]
    /\ contents' = [contents EXCEPT ![src] = <<>>]

Splice(t, dst) ==
    /\ UNCHANGED holder
    /\ carried' = [carried EXCEPT ![t] = <<>>]
    /\ contents' = [contents EXCEPT ![dst] = carried[t] \o @]

Move(src, dst) ==
    /\ UNCHANGED <<holder, carried>>
    /\ contents[dst] = <<>>
    /\ contents' = [contents EXCEPT ![dst] = contents[src], ![src] = <<>>]

Next ==
    \/ \E t \in Threads, l \in Lists :
          \/ \E r \in Regions : Put(t, l, r) \/ Withdraw(t, l, r)
          \/ Carry(t, l)
          \/ Splice(t, l)
    \/ \E src, dst \in Lists : Move(src, dst)

Spec == Init /\ [][Next]_vars
=============================================================================

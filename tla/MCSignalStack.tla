--------------------------- MODULE MCSignalStack ---------------------------
(* A small instance of SignalStack for TLC. *)
EXTENDS SignalStack

CONSTANTS segv, abrt, usr, app, worker, h1, u1

MCSignals == {segv, abrt, usr}
MCUserActions ==
  {Plain("dfl"), [fn |-> u1, info |-> TRUE, nodefer |-> FALSE, mask |-> {usr}]}
MCFilled == [o \in {"set"} |-> {segv, abrt}]
MCEntries ==
  {[fn |-> h1, scMask |-> {}], [fn |-> h1, scMask |-> {segv}],
   [fn |-> NullAction, scMask |-> {}]}
=============================================================================

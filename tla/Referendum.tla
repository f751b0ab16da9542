---------------------------- MODULE Referendum ----------------------------
(***************************************************************************)
(* What a governance proposal promises, with nothing of who votes or how   *)
(* (governance.rs, docs/contracts/GOVERNANCE.md): it opens once, its tally  *)
(* only grows and only while it is open, and it is executed at most once,  *)
(* after it has closed and by a majority that can no longer change.        *)
(***************************************************************************)
EXTENDS Naturals

VARIABLES phase, \* "none", "open", "closed" or "executed"
          yes,   \* votes for
          no     \* votes against

vars == <<phase, yes, no>>

Init == phase = "none" /\ yes = 0 /\ no = 0

Open == phase = "none" /\ phase' = "open" /\ UNCHANGED <<yes, no>>

Count ==
  /\ phase = "open"
  /\ \/ yes' > yes /\ no' = no
     \/ no' > no /\ yes' = yes
  /\ UNCHANGED phase

Close == phase = "open" /\ phase' = "closed" /\ UNCHANGED <<yes, no>>

Execute == /\ phase = "closed"
           /\ yes > no
           /\ phase' = "executed"
           /\ UNCHANGED <<yes, no>>

Next == Open \/ Count \/ Close \/ Execute

Spec == Init /\ [][Next]_vars

=============================================================================

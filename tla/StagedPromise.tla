---------------------------- MODULE StagedPromise ----------------------------
(***************************************************************************)
(* What the calls promise that put several pieces on the chain (or tell    *)
(* the supplier) in stages, whatever they send and wait for: a call wants  *)
(* some pieces; they get to their place in the order their meaning         *)
(* demands, however the call ends; and a success is reported when none of  *)
(* them is missing any more.                                               *)
(***************************************************************************)
CONSTANTS
  Req,      \* the calls
  Pieces,   \* what they put in place
  Order     \* the pairs of which the second must not come before the first

VARIABLES want, have, told

vars == <<want, have, told>>

Init ==
  /\ want = [r \in Req |-> {}]
  /\ have = [r \in Req |-> {}]
  /\ told = [r \in Req |-> FALSE]

Ask(r) ==
  /\ want[r] = {}
  /\ want'[r] \subseteq Pieces /\ want'[r] # {}
  /\ want' = [want EXCEPT ![r] = want'[r]]
  /\ UNCHANGED <<have, told>>

Arrive(r, p) ==
  /\ p \in want[r] \ have[r]
  /\ \A o \in want[r] : <<o, p>> \in Order => o \in have[r]
  /\ have' = [have EXCEPT ![r] = have[r] \cup {p}]
  /\ UNCHANGED <<want, told>>

Tell(r) ==
  /\ want[r] # {} /\ have[r] = want[r]
  /\ told' = [told EXCEPT ![r] = TRUE]
  /\ UNCHANGED <<want, have>>

Next == \E r \in Req : Ask(r) \/ Tell(r) \/ \E p \in Pieces : Arrive(r, p)

Spec == Init /\ [][Next]_vars
=============================================================================

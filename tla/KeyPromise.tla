----------------------------- MODULE KeyPromise ------------------------------
(***************************************************************************)
(* What creating keys promises, whatever the chain, the supplier and the   *)
(* process do in between: keys only move forward (issued, then with their  *)
(* recipient), only issued keys are whitelisted or announced, and a key    *)
(* that the API reports as a success is where the client asked it to be    *)
(* and is whitelisted on its device.  A report is given once.              *)
(***************************************************************************)

CONSTANT Key

VARIABLES
  wanted,    \* where the client asked each key to be: "none" before the call
  place,     \* where it is on the chain: "nowhere", "dapp", "user"
  open,      \* whether its device's whitelist has it
  told,      \* whether the supplier has been sent a message about it
  verdict    \* what the API has reported

vars == <<wanted, place, open, told, verdict>>

Init ==
  /\ wanted  = [k \in Key |-> "none"]
  /\ place   = [k \in Key |-> "nowhere"]
  /\ open    = [k \in Key |-> FALSE]
  /\ told    = [k \in Key |-> FALSE]
  /\ verdict = [k \in Key |-> "none"]

Delivered(k) == place[k] = wanted[k] /\ open[k]

(* A client asks for some keys, each at its place.                         *)
Ask ==
  /\ \E K \in SUBSET Key :
       /\ \A k \in K : wanted[k] = "none"
       /\ \E w \in [K -> {"dapp", "user"}] :
            wanted' = [k \in Key |-> IF k \in K THEN w[k] ELSE wanted[k]]
  /\ UNCHANGED <<place, open, told, verdict>>

Issue(k) ==
  /\ wanted[k] # "none" /\ place[k] = "nowhere"
  /\ place' = [place EXCEPT ![k] = "dapp"]
  /\ UNCHANGED <<wanted, open, told, verdict>>

Move(k) ==
  /\ wanted[k] = "user" /\ place[k] = "dapp"
  /\ place' = [place EXCEPT ![k] = "user"]
  /\ UNCHANGED <<wanted, open, told, verdict>>

Enlist(K) ==
  /\ \A k \in K : place[k] # "nowhere"
  /\ open' = [k \in Key |-> open[k] \/ k \in K]
  /\ UNCHANGED <<wanted, place, told, verdict>>

(* The API reports on the keys K: the successes S among them are           *)
(* delivered, and exactly the issued keys T it names are announced.        *)
Report(K, T, S) ==
  /\ S \subseteq T /\ T \subseteq K
  /\ \A k \in K : verdict[k] = "none" /\ ~ told[k]
  /\ \A k \in T : place[k] # "nowhere"
  /\ \A k \in S : Delivered(k)
  /\ told' = [k \in Key |-> told[k] \/ k \in T]
  /\ verdict' = [k \in Key |-> IF k \in S THEN "success"
                               ELSE IF k \in T THEN "failed"
                               ELSE IF k \in K THEN "missing" ELSE verdict[k]]
  /\ UNCHANGED <<wanted, place, open>>

Next ==
  \/ Ask
  \/ \E k \in Key : Issue(k) \/ Move(k)
  \/ \E K \in SUBSET Key : Enlist(K)
  \/ \E K, T, S \in SUBSET Key : Report(K, T, S)

Spec == Init /\ [][Next]_vars
=============================================================================

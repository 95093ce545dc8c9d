--------------------------- MODULE CustodyPromise ----------------------------
(***************************************************************************)
(* What the calls about existing keys promise, whatever they read, send    *)
(* and wait for in between: each thing that a call wants done to a key is  *)
(* done at most once, after it was asked for and under the rules of the    *)
(* ledger; the API itself changes nothing else; and the client, and for a  *)
(* transfer the supplier, are told when all that was wanted is done.       *)
(***************************************************************************)
CONSTANTS
  Req, Key, Device,
  Holder,       \* those who may hold a key
  Dapp,         \* the holder whose keys the API moves
  Nobody        \* the holder of a key that is destroyed

VARIABLES
  want,         \* what each call wants done
  have,         \* what of that is done
  owner, listed,
  answered,     \* whether the client has been told of a success
  notified      \* whether the supplier has

vars == <<want, have, owner, listed, answered, notified>>

Effect == [kind : {"move", "burn", "verify"}, key : Key, at : Holder]
            \cup [kind : {"list", "unlist"}, key : Key, at : Device]

Init ==
  /\ want = [r \in Req |-> {}]
  /\ have = [r \in Req |-> {}]
  /\ owner \in [Key -> Holder \ {Nobody}]
  /\ listed \in SUBSET (Device \X Key)
  /\ answered = [r \in Req |-> FALSE]
  /\ notified = [r \in Req |-> FALSE]

Ask(r) ==
  /\ want[r] = {}
  /\ want'[r] \subseteq Effect /\ want'[r] # {}
  /\ want' = [want EXCEPT ![r] = want'[r]]
  /\ UNCHANGED <<have, owner, listed, answered, notified>>

(* Only the dApp's keys are moved, only the holder's are destroyed.        *)
Rule(e) ==
  \/ /\ e.kind = "move" /\ owner[e.key] = Dapp
     /\ owner' = [owner EXCEPT ![e.key] = e.at] /\ UNCHANGED listed
  \/ /\ e.kind = "burn" /\ owner[e.key] = e.at
     /\ owner' = [owner EXCEPT ![e.key] = Nobody] /\ UNCHANGED listed
  \/ /\ e.kind = "list"
     /\ listed' = listed \cup {<<e.at, e.key>>} /\ UNCHANGED owner
  \/ /\ e.kind = "unlist"
     /\ listed' = listed \ {<<e.at, e.key>>} /\ UNCHANGED owner
  \/ e.kind = "verify" /\ UNCHANGED <<owner, listed>>

Do(r, e) ==
  /\ e \in want[r] \ have[r]
  /\ Rule(e)
  /\ have' = [have EXCEPT ![r] = have[r] \cup {e}]
  /\ UNCHANGED <<want, answered, notified>>

(* A key that has left the dApp is its holder's: he gives it to others or  *)
(* back, and nobody gives away what is destroyed.                          *)
Give(k, h) ==
  /\ owner[k] \notin {Dapp, Nobody}
  /\ owner' = [owner EXCEPT ![k] = h]
  /\ UNCHANGED <<want, have, listed, answered, notified>>

Tell(r) ==
  /\ want[r] # {} /\ have[r] = want[r] /\ ~answered[r]
  /\ answered' = [answered EXCEPT ![r] = TRUE]
  /\ notified' = [notified EXCEPT ![r] = \E e \in want[r] : e.kind = "move"]
  /\ UNCHANGED <<want, have, owner, listed>>

Next ==
  \/ \E r \in Req : Ask(r) \/ Tell(r) \/ \E e \in want[r] : Do(r, e)
  \/ \E k \in Key, h \in Holder \ {Nobody} : Give(k, h)

Spec == Init /\ [][Next]_vars
=============================================================================

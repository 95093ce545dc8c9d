------------------------------ MODULE Broadcast ------------------------------
(***************************************************************************)
(* The life of blockchain transactions sent through                        *)
(* BlockchainWriteService.broadcast: submit to a node, wait until the      *)
(* transaction is found in a block, return its id or throw 'transaction    *)
(* failed'.  Every service of the API that writes to the chain does it     *)
(* through this one method, so the modules of the services instantiate     *)
(* this one.                                                               *)
(*                                                                         *)
(* The node and the client library (@waves/waves-transactions) are         *)
(* external.  What the code relies on: an id returned by waitForTx is the  *)
(* id of a transaction in a block, with its effect.  What it does not      *)
(* know: a thrown error comes from a refused submission, from a lost reply *)
(* or from waitForTx giving up, and in the last two cases the transaction  *)
(* may be in a block already or get there later.                           *)
(***************************************************************************)

CONSTANT Tx

VARIABLES
  fate,   \* what has become of each transaction, as the node knows it
  reply   \* what the broadcast call has told its caller

vars == <<fate, reply>>

Fates   == {"none", "sent", "applied", "dropped"}
Replies == {"none", "ok", "err"}

TypeOK ==
  /\ fate  \in [Tx -> Fates]
  /\ reply \in [Tx -> Replies]

Init ==
  /\ fate  = [t \in Tx |-> "none"]
  /\ reply = [t \in Tx |-> "none"]

-----------------------------------------------------------------------------
(* One synchronous piece of a handler may submit several transactions.     *)
Submit(T) ==
  /\ \A t \in T : fate[t] = "none"
  /\ fate' = [t \in Tx |-> IF t \in T THEN "sent" ELSE fate[t]]
  /\ UNCHANGED reply

(* The node: the transaction enters a block, or is refused or expires.     *)
Apply(t) ==
  /\ fate[t] = "sent"
  /\ fate' = [fate EXCEPT ![t] = "applied"]
  /\ UNCHANGED reply

Drop(t) ==
  /\ fate[t] = "sent"
  /\ fate' = [fate EXCEPT ![t] = "dropped"]
  /\ UNCHANGED reply

(* waitForTx has seen the transaction in a block: broadcast returns tx.id. *)
Confirm(t) ==
  /\ fate[t] = "applied"
  /\ reply[t] = "none"
  /\ reply' = [reply EXCEPT ![t] = "ok"]
  /\ UNCHANGED fate

(* The catch branch.  Nothing ties it to what the node did.                *)
Fail(t) ==
  /\ fate[t] # "none"
  /\ reply[t] = "none"
  /\ reply' = [reply EXCEPT ![t] = "err"]
  /\ UNCHANGED fate

(* What happens to a submitted transaction without any handler's doing.    *)
Progress(t) == Apply(t) \/ Drop(t) \/ Confirm(t) \/ Fail(t)

Next ==
  \/ \E T \in SUBSET Tx : T # {} /\ Submit(T)
  \/ \E t \in Tx : Progress(t)

(* waitForTx has a time limit, so a pending call ends one way or the other:*)
(* the modules that wait for one state that as their fairness.             *)
Spec == Init /\ [][Next]_vars

-----------------------------------------------------------------------------
(* A caller that was given a transaction id can rely on the transaction    *)
(* being on the chain (broadcast, lines 269-272).                          *)
OkMeansApplied == \A t \in Tx : reply[t] = "ok" => fate[t] = "applied"

(* What the chain and the caller know is never taken back: an applied or   *)
(* dropped transaction keeps its fate and a call returns or throws once.   *)
Settled ==
  [][\A t \in Tx : /\ fate[t] \in {"applied", "dropped"} => fate'[t] = fate[t]
                   /\ reply[t] # "none" => reply'[t] = reply[t]]_vars
=============================================================================

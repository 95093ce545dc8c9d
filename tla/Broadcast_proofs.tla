-------------------------- MODULE Broadcast_proofs ---------------------------
(***************************************************************************)
(* Broadcast, for any set of transactions.                                 *)
(***************************************************************************)
EXTENDS Broadcast, TLAPS

(* Fates and replies stay within their values.                             *)
THEOREM TypeCorrect == Spec => []TypeOK
<1>1. Init => TypeOK
  BY DEF Init, TypeOK, Fates, Replies
<1>2. TypeOK /\ [Next]_vars => TypeOK'
  <2> SUFFICES ASSUME TypeOK, [Next]_vars PROVE TypeOK'
    OBVIOUS
  <2> USE DEF TypeOK, Fates, Replies
  <2>1. ASSUME NEW T \in SUBSET Tx, Submit(T) PROVE TypeOK'
    BY <2>1 DEF Submit
  <2>2. ASSUME NEW t \in Tx, Progress(t) PROVE TypeOK'
    BY <2>2 DEF Progress, Apply, Drop, Confirm, Fail
  <2>3. CASE UNCHANGED vars
    BY <2>3 DEF vars
  <2>4. QED
    BY <2>1, <2>2, <2>3 DEF Next
<1>3. QED
  BY <1>1, <1>2, PTL DEF Spec

(* What the chain and the callers know is never taken back: the action     *)
(* property Settled holds of every step, from any state of the right type. *)
LEMMA StepSettles ==
  ASSUME TypeOK, [Next]_vars, NEW t \in Tx
  PROVE  /\ fate[t] \in {"applied", "dropped"} => fate'[t] = fate[t]
         /\ reply[t] # "none" => reply'[t] = reply[t]
<1> USE DEF TypeOK
<1>1. ASSUME NEW T \in SUBSET Tx, Submit(T)
      PROVE  /\ fate[t] \in {"applied", "dropped"} => fate'[t] = fate[t]
             /\ reply[t] # "none" => reply'[t] = reply[t]
  BY <1>1 DEF Submit
<1>2. ASSUME NEW u \in Tx, Progress(u)
      PROVE  /\ fate[t] \in {"applied", "dropped"} => fate'[t] = fate[t]
             /\ reply[t] # "none" => reply'[t] = reply[t]
  BY <1>2 DEF Progress, Apply, Drop, Confirm, Fail
<1>3. CASE UNCHANGED vars
  BY <1>3 DEF vars
<1>4. QED
  BY <1>1, <1>2, <1>3 DEF Next

(* A fate or an answer, once given, is final (broadcast returns or throws  *)
(* once; blocks are not taken back).                                       *)
THEOREM AnswersAreFinal == Spec => Settled
<1>1. TypeOK /\ [Next]_vars =>
        [\A t \in Tx : /\ fate[t] \in {"applied", "dropped"} => fate'[t] = fate[t]
                       /\ reply[t] # "none" => reply'[t] = reply[t]]_vars
  BY StepSettles
<1>2. QED
  BY <1>1, TypeCorrect, PTL DEF Spec, Settled

(* A transaction id returned by broadcast is the id of a transaction in a  *)
(* block.                                                                  *)
THEOREM OkIsOnChain == Spec => []OkMeansApplied
<1>1. Init => OkMeansApplied
  BY DEF Init, OkMeansApplied
<1>2. TypeOK /\ OkMeansApplied /\ [Next]_vars => OkMeansApplied'
  <2> SUFFICES ASSUME TypeOK, OkMeansApplied, [Next]_vars, NEW t \in Tx, reply'[t] = "ok"
               PROVE  fate'[t] = "applied"
    BY DEF OkMeansApplied
  <2>1. CASE reply[t] = "ok"
    BY <2>1, StepSettles DEF OkMeansApplied
  <2>2. CASE reply[t] # "ok"
    <3>1. ~ UNCHANGED vars
      BY <2>2 DEF vars
    <3>2. ASSUME NEW T \in SUBSET Tx, Submit(T) PROVE FALSE
      BY <2>2, <3>2 DEF Submit
    <3>3. PICK u \in Tx : Progress(u)
      BY <3>1, <3>2 DEF Next
    <3>4. Confirm(u) /\ u = t
      BY <2>2, <3>3 DEF Progress, Apply, Drop, Confirm, Fail, TypeOK
    <3>5. QED
      BY <3>4 DEF Confirm
  <2>3. QED
    BY <2>1, <2>2
<1>3. QED
  BY <1>1, <1>2, TypeCorrect, PTL DEF Spec
=============================================================================

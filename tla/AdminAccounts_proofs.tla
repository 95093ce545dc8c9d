------------------------ MODULE AdminAccounts_proofs -------------------------
(***************************************************************************)
(* AdminAccounts, for any requests, emails and bounds.                     *)
(***************************************************************************)
EXTENDS AdminAccounts, TLAPS

-----------------------------------------------------------------------------
(* Writing to the table keeps emails apart if the row fits.                *)

(* Writing a row whose email is in no other row keeps emails apart.        *)
LEMMA PutKeepsUnique ==
  ASSUME UniqueEmails, NEW id, NEW row, Fits(id, row), Put(id, row)
  PROVE  UniqueEmails'
  BY DEF UniqueEmails, Fits, Put

(* Removing a row keeps emails apart.                                      *)
LEMMA DeleteKeepsUnique ==
  ASSUME UniqueEmails, NEW id, Delete(id)
  PROVE  UniqueEmails'
  BY DEF UniqueEmails, Delete

(* The account made at startup fits, since its email is free.              *)
LEMMA RootFits ==
  ASSUME ~ IsTaken(RootEmail)
  PROVE  Fits(lastId + 1, [email |-> RootEmail, role |-> "admin", hash |-> "initial"])
  BY DEF IsTaken, Fits, Undefined

(* No step of a request, of startup or of a crash makes emails meet.       *)
LEMMA StepKeepsUnique == UniqueEmails /\ [Next]_vars => UniqueEmails'
<1> SUFFICES ASSUME UniqueEmails, [Next]_vars PROVE UniqueEmails'
  OBVIOUS
<1>1. CASE UNCHANGED rows
  BY <1>1 DEF UniqueEmails
<1>2. ASSUME NEW r \in Req, Handle(r) PROVE UniqueEmails'
  <2>1. CASE Insert(r)
    BY <1>1, <2>1, PutKeepsUnique DEF Insert
  <2>2. CASE Reinsert(r)
    BY <1>1, <2>2, PutKeepsUnique DEF Reinsert
  <2>3. CASE Update(r)
    BY <1>1, <2>3, PutKeepsUnique DEF Update
  <2>4. CASE Remove(r)
    BY <2>4, DeleteKeepsUnique DEF Remove
  <2>5. QED
    BY <1>1, <1>2, <2>1, <2>2, <2>3, <2>4
       DEF Handle, FindForUpdate, FindForRemove, FindNothing, EmailGuard, Load
<1>3. CASE Boot
  BY <1>1, <1>3, RootFits, PutKeepsUnique DEF Boot, BootMakesRoot, BootFindsRoot
<1>4. QED
  BY <1>1, <1>2, <1>3 DEF Next, Authorise, Refuse, Crash, vars

(* No two accounts share an email, however requests interleave.            *)
THEOREM EmailsStayUnique == Spec => []UniqueEmails
<1>1. Init => UniqueEmails
  BY DEF Init
<1>2. QED
  BY <1>1, StepKeepsUnique, PTL DEF Spec
-----------------------------------------------------------------------------
(* Types, and what a handler's copy holds.                                 *)

(* Writing a complete row keeps every row complete.                        *)
LEMMA PutKeepsRows ==
  ASSUME NEW N \in Nat, NEW M \in Nat, N <= M,
         DOMAIN rows \subseteq 1 .. N, \A i \in DOMAIN rows : rows[i] \in Row,
         NEW id \in 1 .. M, NEW row \in Row, Put(id, row)
  PROVE  /\ DOMAIN rows' \subseteq 1 .. M
         /\ \A i \in DOMAIN rows' : rows'[i] \in Row
  BY DEF Put

(* The server starts with no handler under way.                            *)
LEMMA InitIInv == Init => IInv
<1> SUFFICES ASSUME Init PROVE IInv
  OBVIOUS
<1>1. PICK T \in SUBSET (1 .. lastId) :
        rows \in [T -> [email : Email, role : Role, hash : {"initial"}]]
  BY DEF Init
<1>2. DOMAIN rows \subseteq 1 .. lastId /\ \A i \in DOMAIN rows : rows[i] \in Row
  BY <1>1 DEF Row
<1>3. NoRow \in Entity
  BY DEF NoRow, Entity
<1>4. lastId \in 0 .. MaxId
  BY RootAssumption DEF Init
<1>6. up \in BOOLEAN
  BY Zenon DEF Init
<1>5. /\ ask \in [Req -> Asked \cup {NoAsk}] /\ step \in [Req -> {"idle"}]
      /\ admin \in [Req -> Entity] /\ found \in [Req -> Entity]
  BY <1>3 DEF Init
<1>7. QED
  BY <1>2, <1>4, <1>5, <1>6 DEF IInv, TypeOK, CopyInvOf

(* What the handler of a request does to the variables of the others.      *)
LEMMA HandleIInv == ASSUME IInv, NEW r \in Req, Handle(r) PROVE IInv'
<1> USE RootAssumption
<1>1. TypeOK /\ CopyInvOf(r) /\ lastId \in Nat
  BY DEF IInv, TypeOK
<1>2. /\ UNCHANGED <<up, ask>>
      /\ step' \in [Req -> {"idle"} \cup Working \cup Answered]
      /\ \A x \in Req : x # r => /\ step'[x] = step[x]
                                 /\ admin'[x] = admin[x] /\ found'[x] = found[x]
  BY <1>1 DEF Handle, FindForUpdate, FindForRemove, FindNothing, EmailGuard, Load, Insert,
              Reinsert, Update, Remove, GoTo, TypeOK, Working, Answered
<1>3. ask[r] \in Asked \cup {NoAsk}
  BY <1>1 DEF TypeOK
<1>4. \A i \in DOMAIN rows : rows[i].email \in Email /\ rows[i].role \in Role
                             /\ rows[i].hash \in Req \cup {"initial"} /\ rows[i] \in Entity
  BY <1>1 DEF TypeOK, Row, Entity
<1>5. ASSUME CopyInvOf(r)', admin' \in [Req -> Entity], found' \in [Req -> Entity],
             DOMAIN rows' \subseteq 1 .. lastId', \A i \in DOMAIN rows' : rows'[i] \in Row,
             lastId' \in 0 .. MaxId, lastId <= lastId'
      PROVE  IInv'
  BY <1>1, <1>2, <1>5 DEF IInv, TypeOK, CopyInvOf
<1>6. CASE FindForUpdate(r)
  <2>1. /\ admin'[r] = Edited(r, FindOne(ask[r].id)) /\ step'[r] \in {"guard", "load"}
        /\ ask[r].op = "update" /\ ask[r].id \in DOMAIN rows /\ ask[r].id \in 1 .. lastId
    BY <1>1, <1>6 DEF FindForUpdate, GoTo, TypeOK
  <2>2. ask[r].email \in Email \cup {Undefined} /\ ask[r].role \in Role \cup {Undefined}
    <3>1. ask[r] \in Updates
      <4>1. ask[r] \notin Creates /\ ask[r] \notin Removals /\ ask[r] # NoAsk
        <5>1. (\A a \in Creates : a.op = "create") /\ \A a \in Removals : a.op = "remove"
          BY DEF Creates, Removals
        <5>2. NoAsk.op = "none"
          BY DEF NoAsk
        <5>3. QED
          BY <2>1, <5>1, <5>2
      <4>2. QED
        BY <1>3, <4>1 DEF Asked
    <3>2. QED
      BY <3>1 DEF Updates
  <2> DEFINE row == rows[ask[r].id]
  <2>3. row \in Row
    BY <1>1, <2>1 DEF TypeOK
  <2>4. FindOne(ask[r].id) = [email |-> row.email, role |-> row.role, hash |-> Undefined]
    BY <2>3 DEF FindOne, Row
  <2>5. /\ admin'[r].email \in Email /\ admin'[r].role \in Role
        /\ admin'[r].hash = IF ask[r].password THEN r ELSE Undefined
        /\ admin'[r] \in Entity
    BY <2>1, <2>2, <2>3, <2>4 DEF Edited, Row, Entity
  <2>6. CopyInvOf(r)' /\ admin' \in [Req -> Entity]
    BY <1>1, <1>2, <1>6, <2>1, <2>5 DEF CopyInvOf, FindForUpdate, TypeOK
  <2>7. QED
    BY <1>1, <1>5, <1>6, <2>6 DEF FindForUpdate, TypeOK
<1>7. CASE FindForRemove(r)
  <2>1. FindOne(ask[r].id) \in Entity
    BY <1>1, <1>7 DEF FindForRemove, FindOne, TypeOK, Row, Entity
  <2>2. CopyInvOf(r)' /\ admin' \in [Req -> Entity]
    BY <1>1, <1>2, <1>7, <2>1 DEF FindForRemove, CopyInvOf, TypeOK
  <2>3. QED
    BY <1>1, <1>5, <1>7, <2>2 DEF FindForRemove, TypeOK
<1>8. CASE FindNothing(r)
  <2>1. step'[r] = "notfound"
    BY <1>1, <1>8 DEF FindNothing, GoTo, TypeOK
  <2>2. QED
    BY <1>1, <1>5, <1>8, <2>1 DEF FindNothing, CopyInvOf, TypeOK
<1>9. CASE EmailGuard(r)
  BY <1>1, <1>5, <1>9 DEF EmailGuard, CopyInvOf, TypeOK
<1>10. CASE Load(r)
  <2>1. found' \in [Req -> Entity]
    BY <1>1, <1>4, <1>10 DEF Load, TypeOK, NoRow, Entity, Undefined
  <2>2. CopyInvOf(r)'
    BY <1>1, <1>10 DEF Load, CopyInvOf
  <2>3. QED
    BY <1>1, <1>5, <1>10, <2>1, <2>2 DEF Load, TypeOK
<1>11. CASE Insert(r)
  <2>1. CopyInvOf(r)' /\ admin[r] \in Row
    BY <1>1, <1>11 DEF Insert, CopyInvOf
  <2>2. CASE Put(lastId + 1, admin[r]) /\ lastId' = lastId + 1
    BY <1>1, <1>5, <1>11, <2>1, <2>2, PutKeepsRows DEF Insert, TypeOK
  <2>3. CASE UNCHANGED <<rows, lastId>>
    BY <1>1, <1>5, <1>11, <2>1, <2>3 DEF Insert, TypeOK
  <2>4. QED
    BY <1>11, <2>2, <2>3 DEF Insert
<1>12. CASE Reinsert(r)
  <2>1. CopyInvOf(r)' /\ ask[r].op = "update"
    BY <1>1, <1>12 DEF Reinsert, CopyInvOf
  <2>2. CASE UNCHANGED rows
    BY <1>1, <1>5, <1>12, <2>1, <2>2 DEF Reinsert, TypeOK
  <2>3. CASE Put(ask[r].id, admin[r]) /\ Fits(ask[r].id, admin[r])
    <3>1. admin[r] \in Row
      BY <1>1, <1>12, <2>3 DEF Reinsert, CopyInvOf, Fits, TypeOK, Row, Entity
    <3>2. ask[r].id \in 1 .. lastId
      BY <1>1, <1>12 DEF Reinsert, CopyInvOf
    <3>3. QED
      BY <1>1, <1>5, <1>12, <2>1, <2>3, <3>1, <3>2, PutKeepsRows DEF Reinsert, TypeOK
  <2>4. QED
    BY <1>12, <2>2, <2>3 DEF Reinsert
<1>13. CASE Update(r)
  <2>1. CopyInvOf(r)'
    BY <1>1, <1>13 DEF Update, CopyInvOf
  <2>2. CASE UNCHANGED rows
    BY <1>1, <1>5, <1>13, <2>1, <2>2 DEF Update, TypeOK
  <2>3. CASE ask[r].id \in DOMAIN rows /\ Put(ask[r].id, Merged(r, rows[ask[r].id]))
    <3>1. Merged(r, rows[ask[r].id]) \in Row
      BY <1>1, <1>4, <1>13, <2>3 DEF Update, CopyInvOf, Merged, Row
    <3>2. QED
      BY <1>1, <1>5, <1>13, <2>1, <2>3, <3>1, PutKeepsRows DEF Update, TypeOK
  <2>4. QED
    BY <1>13, <2>2, <2>3 DEF Update
<1>14. CASE Remove(r)
  BY <1>1, <1>5, <1>14 DEF Remove, Delete, CopyInvOf, TypeOK
<1>15. QED
  BY <1>6, <1>7, <1>8, <1>9, <1>10, <1>11, <1>12, <1>13, <1>14 DEF Handle

(* Every step keeps the types and what the handlers' copies hold.          *)
LEMMA StepIInv == IInv /\ [Next]_vars => IInv'
<1> SUFFICES ASSUME IInv, [Next]_vars PROVE IInv'
  OBVIOUS
<1> USE RootAssumption
<1>1. TypeOK /\ lastId \in Nat
  BY DEF IInv, TypeOK
<1>2. ASSUME NEW r \in Req, Authorise(r) PROVE IInv'
  <2>1. PICK a \in Asked :
          /\ ask' = [ask EXCEPT ![r] = a]
          /\ IF a.op = "create"
             THEN /\ admin' = [admin EXCEPT ![r] = [email |-> a.email, role |-> a.role, hash |-> r]]
                  /\ GoTo(r, "guard")
             ELSE GoTo(r, "find") /\ UNCHANGED admin
    BY <1>2 DEF Authorise
  <2>2. ASSUME a.op = "create"
        PROVE  [email |-> a.email, role |-> a.role, hash |-> r] \in Row \cap Entity
    BY <2>2 DEF Asked, Creates, Updates, Removals, Row, Entity
  <2>3. \A x \in Req : x # r => step'[x] = step[x] /\ ask'[x] = ask[x] /\ admin'[x] = admin[x]
    BY <1>1, <2>1 DEF GoTo, TypeOK
  <2>4. CopyInvOf(r)'
    BY <1>1, <2>1, <2>2 DEF GoTo, CopyInvOf, TypeOK
  <2>5. admin' \in [Req -> Entity] /\ ask' \in [Req -> Asked \cup {NoAsk}]
        /\ step' \in [Req -> {"idle"} \cup Working \cup Answered]
    BY <1>1, <2>1, <2>2 DEF GoTo, TypeOK, Working
  <2>6. UNCHANGED <<rows, lastId, up, found>>
    BY <1>2 DEF Authorise
  <2>7. QED
    BY <1>1, <2>3, <2>4, <2>5, <2>6 DEF IInv, TypeOK, CopyInvOf
<1>3. ASSUME NEW r \in Req, Refuse(r) PROVE IInv'
  BY <1>1, <1>3 DEF Refuse, GoTo, IInv, TypeOK, CopyInvOf, Answered
<1>4. CASE BootMakesRoot
  <2>1. [email |-> RootEmail, role |-> "admin", hash |-> "initial"] \in Row
    BY DEF Row, Role
  <2>2. lastId' \in 0 .. MaxId /\ lastId' = lastId + 1
    BY <1>1, <1>4 DEF BootMakesRoot, TypeOK
  <2>3. /\ DOMAIN rows' \subseteq 1 .. lastId'
        /\ \A i \in DOMAIN rows' : rows'[i] \in Row
    BY <1>1, <1>4, <2>1, <2>2, PutKeepsRows DEF BootMakesRoot, TypeOK
  <2>4. QED
    BY <1>1, <1>4, <2>2, <2>3 DEF BootMakesRoot, IInv, TypeOK, CopyInvOf
<1>5. CASE BootFindsRoot
  BY <1>1, <1>5 DEF BootFindsRoot, IInv, TypeOK, CopyInvOf
<1>6. CASE Crash
  BY <1>1, <1>6 DEF Crash, IInv, TypeOK, CopyInvOf, Answered, Working
<1>7. CASE UNCHANGED vars
  BY <1>7 DEF vars, IInv, TypeOK, CopyInvOf
<1>8. QED
  BY <1>2, <1>3, <1>4, <1>5, <1>6, <1>7, HandleIInv DEF Next, Boot

(* Every variable keeps its type, and the copies what was said above.      *)
THEOREM Invariance == Spec => []IInv
  BY InitIInv, StepIInv, PTL DEF Spec

(* Every variable keeps its type.                                          *)
THEOREM TypeCorrect == Spec => []TypeOK
<1>1. IInv => TypeOK
  BY DEF IInv
<1>2. QED
  BY <1>1, Invariance, PTL

(* A password changes only by a request that carries one for the account.  *)
THEOREM PasswordsAreKept == Spec => PasswordOnlyWhenAsked
<1> DEFINE Kept == \A i \in DOMAIN rows : i \in DOMAIN rows' /\ rows'[i].hash # rows[i].hash =>
                     \E r \in Req : /\ ask[r].id = i /\ ask[r].password
                                    /\ rows'[i].hash = r /\ step[r] # "ok" /\ step'[r] = "ok"
<1>1. ASSUME IInv, Next PROVE Kept
  <2>1. TypeOK
    BY <1>1 DEF IInv
  <2>2. CASE UNCHANGED rows
    BY <2>2
  <2>3. ASSUME NEW r \in Req, Update(r) PROVE Kept
    <3> DEFINE id == ask[r].id
    <3>1. CASE id \in DOMAIN rows /\ Put(id, Merged(r, rows[id])) /\ GoTo(r, "ok")
      <4>1. \A i \in DOMAIN rows : i # id => rows'[i] = rows[i]
        BY <3>1 DEF Put
      <4>2. rows'[id] = Merged(r, rows[id])
        BY <3>1 DEF Put
      <4>3. \/ Merged(r, rows[id]).hash = rows[id].hash
            \/ Merged(r, rows[id]).hash = r /\ ask[r].password
        BY <1>1, <2>3 DEF IInv, Update, CopyInvOf, Merged
      <4>4. step[r] # "ok" /\ step'[r] = "ok"
        BY <2>1, <2>3, <3>1 DEF Update, GoTo, TypeOK
      <4>5. QED
        BY <4>1, <4>2, <4>3, <4>4
    <3>2. QED
      BY <2>2, <2>3, <3>1 DEF Update
  <2>4. ASSUME NEW r \in Req, Insert(r) \/ Reinsert(r) \/ Remove(r) PROVE Kept
    BY <2>1, <2>4 DEF Insert, Reinsert, Remove, Put, Delete, TypeOK
  <2>5. CASE Boot
    BY <2>1, <2>5 DEF Boot, BootMakesRoot, BootFindsRoot, Put, TypeOK
  <2>6. QED
    BY <1>1, <2>2, <2>3, <2>4, <2>5
       DEF Next, Handle, Authorise, Refuse, Crash, FindForUpdate, FindForRemove, FindNothing,
           EmailGuard, Load
<1>2. IInv /\ [Next]_vars => [Kept]_vars
  BY <1>1
<1>3. QED
  BY <1>2, Invariance, PTL DEF Spec, PasswordOnlyWhenAsked

(* A removed account comes back only by an update that sets its password.  *)
THEOREM RemovedAccountsComeBackNew == Spec => BackOnlyWithPassword
<1> DEFINE Back == \A i \in (1 .. lastId) \ DOMAIN rows : i \in DOMAIN rows' =>
                     \E r \in Req : /\ ask[r].op = "update" /\ ask[r].id = i /\ ask[r].password
                                    /\ rows'[i].hash = r /\ step[r] = "write" /\ step'[r] = "ok"
<1>1. ASSUME IInv, Next PROVE Back
  <2>1. TypeOK /\ lastId \in Nat
    BY <1>1 DEF IInv, TypeOK
  <2>2. CASE DOMAIN rows' \subseteq DOMAIN rows
    BY <2>2
  <2>3. ASSUME NEW row, Put(lastId + 1, row) PROVE Back
    BY <2>1, <2>3 DEF Put
  <2>4. ASSUME NEW r \in Req, Reinsert(r) PROVE Back
    <3>1. CASE UNCHANGED rows
      BY <2>2, <3>1
    <3>2. CASE Fits(ask[r].id, admin[r]) /\ Put(ask[r].id, admin[r]) /\ GoTo(r, "ok")
      <4>1. /\ step[r] = "write" /\ step'[r] = "ok"
            /\ DOMAIN rows' = DOMAIN rows \cup {ask[r].id} /\ rows'[ask[r].id] = admin[r]
        BY <2>1, <2>4, <3>2 DEF Reinsert, Put, GoTo, TypeOK
      <4>2. admin[r].hash = r /\ ask[r].password /\ ask[r].op = "update"
        BY <1>1, <2>4, <3>2 DEF IInv, CopyInvOf, Reinsert, Fits
      <4>3. QED
        BY <4>1, <4>2
    <3>3. QED
      BY <2>4, <3>1, <3>2 DEF Reinsert
  <2>5. ASSUME NEW r \in Req, Update(r) \/ Remove(r) PROVE DOMAIN rows' \subseteq DOMAIN rows
    BY <2>5 DEF Update, Remove, Put, Delete
  <2>6. QED
    BY <1>1, <2>2, <2>3, <2>4, <2>5
       DEF Next, Handle, Boot, BootMakesRoot, BootFindsRoot, Insert, Authorise, Refuse, Crash,
           FindForUpdate, FindForRemove, FindNothing, EmailGuard, Load
<1>2. IInv /\ [Next]_vars => [Back]_vars
  BY <1>1
<1>3. QED
  BY <1>2, Invariance, PTL DEF Spec, BackOnlyWithPassword
=============================================================================

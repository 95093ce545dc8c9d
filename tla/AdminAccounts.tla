---------------------------- MODULE AdminAccounts ----------------------------
(***************************************************************************)
(* AdminsService and its table: create, update and remove as the sequences *)
(* of awaits that they are, so that requests interleave between a read of  *)
(* the database and the write that relies on it; the guards of the         *)
(* controller; and the account made at startup.                            *)
(*                                                                         *)
(* The database and TypeORM are external.  What the code relies on: one    *)
(* query or transaction happens at a time; ids are never given twice;      *)
(* save() and remove() first load the row that has the entity's id; save() *)
(* then inserts the entity if there was no row and updates the columns     *)
(* that differ, of those that are not undefined, if there was one.         *)
(***************************************************************************)
EXTENDS Naturals

CONSTANTS Req, Email,
          RootEmail,  \* ADMIN_EMAIL of the configuration
          MaxOld,     \* bound on the ids given before the server starts
          MaxId       \* bound on the ids ever given

ASSUME RootAssumption == RootEmail \in Email /\ MaxId \in Nat /\ MaxOld \in 0 .. MaxId

VARIABLES
  rows,     \* the table: a function from the ids in use to rows
  lastId,   \* the last id the database has given
  up,       \* whether the server listens
  ask,      \* what each request asks for
  step,     \* where its handler is, and then what it answered
  admin,    \* the handler's copy of the entity
  found     \* the row save() or remove() has loaded

vars == <<rows, lastId, up, ask, step, admin, found>>

Id   == 1 .. MaxId
Role == {"admin", "editor"}
(* A hash stands for the request whose password it is of.                  *)
Row  == [email : Email, role : Role, hash : Req \cup {"initial"}]
(* A column that is undefined in the entity.                               *)
Undefined == "undefined"
NoRow == [email |-> Undefined, role |-> Undefined, hash |-> Undefined]
Entity == [email : Email \cup {Undefined}, role : Role \cup {Undefined},
           hash : Req \cup {"initial", Undefined}]

Creates  == [op : {"create"}, id : {0}, email : Email, role : Role, password : {TRUE}]
Updates  == [op : {"update"}, id : Id, email : Email \cup {Undefined},
             role : Role \cup {Undefined}, password : BOOLEAN]
Removals == [op : {"remove"}, id : Id, email : {Undefined}, role : {Undefined},
             password : {FALSE}]
Asked == Creates \cup Updates \cup Removals
NoAsk == [op |-> "none", id |-> 0, email |-> Undefined, role |-> Undefined,
          password |-> FALSE]

Working == {"find", "guard", "load", "write"}
Answered == {"ok", "refused", "notfound", "taken", "failed", "lost"}

TypeOK ==
  /\ DOMAIN rows \subseteq 1 .. lastId
  /\ \A i \in DOMAIN rows : rows[i] \in Row
  /\ lastId \in 0 .. MaxId
  /\ up \in BOOLEAN
  /\ ask \in [Req -> Asked \cup {NoAsk}]
  /\ step \in [Req -> {"idle"} \cup Working \cup Answered]
  /\ admin \in [Req -> Entity]
  /\ found \in [Req -> Entity]

(* Two accounts never share an email, although emailGuard and the write    *)
(* that follows it are apart (admins.service.ts, lines 36-45 and 54-69;    *)
(* the unique column of admins.entity.ts).                                 *)
UniqueEmails ==
  \A i, k \in DOMAIN rows : rows[i].email = rows[k].email => i = k

(* The server starts on the table an earlier run has left.                 *)
Init ==
  /\ lastId \in 0 .. MaxOld
  /\ \E T \in SUBSET (1 .. lastId) :
       rows \in [T -> [email : Email, role : Role, hash : {"initial"}]]
  /\ UniqueEmails
  /\ up = FALSE
  /\ ask = [r \in Req |-> NoAsk]
  /\ step = [r \in Req |-> "idle"]
  /\ admin = [r \in Req |-> NoRow]
  /\ found = [r \in Req |-> NoRow]

-----------------------------------------------------------------------------
(* The table.                                                              *)

IsTaken(email) == \E i \in DOMAIN rows : rows[i].email = email

(* Faulty: the column is not declared unique.                              *)
FitsOnItsOwn(id, row) == row.hash # Undefined

(* Faulty: the hash may be null.                                           *)
FitsWithoutHash(id, row) == \A i \in DOMAIN rows \ {id} : rows[i].email # row.email

(* The constraints of the entity: unique email, no column null.            *)
Fits(id, row) ==
  /\ row.hash # Undefined
  /\ \A i \in DOMAIN rows \ {id} : rows[i].email # row.email

Put(id, row) == rows' = [i \in DOMAIN rows \cup {id} |-> IF i = id THEN row ELSE rows[i]]
Delete(id) == rows' = [i \in DOMAIN rows \ {id} |-> rows[i]]

GoTo(r, s) == step' = [step EXCEPT ![r] = s]

-----------------------------------------------------------------------------
(* JwtStrategy looks the token's email up, AdminGuard wants role 'admin'.  *)

Authorise(r) ==
  /\ up /\ step[r] = "idle"
  /\ \E i \in DOMAIN rows : rows[i].role = "admin"
  /\ \E a \in Asked :
       /\ ask' = [ask EXCEPT ![r] = a]
       /\ IF a.op = "create"
          THEN /\ admin' = [admin EXCEPT ![r] = [email |-> a.email, role |-> a.role, hash |-> r]]
               /\ GoTo(r, "guard")
          ELSE GoTo(r, "find") /\ UNCHANGED admin
  /\ UNCHANGED <<rows, lastId, up, found>>

(* No such account any more, an editor's, or no valid token: 401 or 403.   *)
Refuse(r) ==
  /\ up /\ step[r] = "idle"
  /\ GoTo(r, "refused")
  /\ UNCHANGED <<rows, lastId, up, ask, admin, found>>

(* Faulty: the hash stays in the copy.                                     *)
FindOneWithHash(id) == rows[id]

(* findOne hides the hash: save() will see it as undefined.                *)
FindOne(id) == [rows[id] EXCEPT !.hash = Undefined]

(* The assignments of update(), which nothing interleaves with.            *)
Edited(r, row) ==
  [email |-> IF ask[r].email # Undefined THEN ask[r].email ELSE row.email,
   role  |-> IF ask[r].role # Undefined THEN ask[r].role ELSE row.role,
   hash  |-> IF ask[r].password THEN r ELSE row.hash]

FindForUpdate(r) ==
  /\ step[r] = "find" /\ ask[r].op = "update" /\ ask[r].id \in DOMAIN rows
  /\ admin' = [admin EXCEPT ![r] = Edited(r, FindOne(ask[r].id))]
  /\ GoTo(r, IF rows[ask[r].id].email # ask[r].email THEN "guard" ELSE "load")
  /\ UNCHANGED <<rows, lastId, up, ask, found>>

FindForRemove(r) ==
  /\ step[r] = "find" /\ ask[r].op = "remove" /\ ask[r].id \in DOMAIN rows
  /\ admin' = [admin EXCEPT ![r] = FindOne(ask[r].id)]
  /\ GoTo(r, "load")
  /\ UNCHANGED <<rows, lastId, up, ask, found>>

(* Faulty: remove() does not expect a missing account.                     *)
FindNothingToUpdate(r) ==
  /\ step[r] = "find" /\ ask[r].op = "update" /\ ask[r].id \notin DOMAIN rows
  /\ GoTo(r, "notfound")
  /\ UNCHANGED <<rows, lastId, up, ask, admin, found>>

FindNothing(r) ==
  /\ step[r] = "find" /\ ask[r].id \notin DOMAIN rows
  /\ GoTo(r, "notfound")
  /\ UNCHANGED <<rows, lastId, up, ask, admin, found>>

(* emailGuard.  No row has an undefined email.                             *)
EmailGuard(r) ==
  /\ step[r] = "guard"
  /\ GoTo(r, IF IsTaken(ask[r].email) THEN "taken"
             ELSE IF ask[r].op = "create" THEN "write" ELSE "load")
  /\ UNCHANGED <<rows, lastId, up, ask, admin, found>>

-----------------------------------------------------------------------------
(* save() and remove().                                                    *)

Differs(r, row) ==
  \/ admin[r].email # row.email \/ admin[r].role # row.role
  \/ admin[r].hash # Undefined

(* The row with the entity's id is loaded; without anything to write, the  *)
(* call returns.                                                           *)
Load(r) ==
  /\ step[r] = "load"
  /\ LET row == IF ask[r].id \in DOMAIN rows THEN rows[ask[r].id] ELSE NoRow IN
     /\ found' = [found EXCEPT ![r] = row]
     /\ GoTo(r, IF (ask[r].op = "remove" /\ row = NoRow)
                     \/ (ask[r].op = "update" /\ ~ Differs(r, row))
                THEN "ok" ELSE "write")
  /\ UNCHANGED <<rows, lastId, up, ask, admin>>

Insert(r) ==
  /\ step[r] = "write" /\ ask[r].op = "create" /\ lastId < MaxId
  /\ IF Fits(lastId + 1, admin[r])
     THEN Put(lastId + 1, admin[r]) /\ lastId' = lastId + 1 /\ GoTo(r, "ok")
     ELSE GoTo(r, "failed") /\ UNCHANGED <<rows, lastId>>
  /\ UNCHANGED <<up, ask, admin, found>>

(* save() has found no row: it inserts the entity, under the id it has.    *)
Reinsert(r) ==
  /\ step[r] = "write" /\ ask[r].op = "update" /\ found[r] = NoRow
  /\ IF Fits(ask[r].id, admin[r]) /\ ask[r].id \notin DOMAIN rows
     THEN Put(ask[r].id, admin[r]) /\ GoTo(r, "ok")
     ELSE GoTo(r, "failed") /\ UNCHANGED rows
  /\ UNCHANGED <<lastId, up, ask, admin, found>>

(* The columns that differ from the loaded row are set in the row that is  *)
(* now there.                                                              *)
Merged(r, row) ==
  [email |-> IF admin[r].email # found[r].email THEN admin[r].email ELSE row.email,
   role  |-> IF admin[r].role # found[r].role THEN admin[r].role ELSE row.role,
   hash  |-> IF admin[r].hash \notin {Undefined, found[r].hash} THEN admin[r].hash ELSE row.hash]

Update(r) ==
  /\ step[r] = "write" /\ ask[r].op = "update" /\ found[r] # NoRow
  /\ LET id == ask[r].id IN
     IF id \notin DOMAIN rows THEN GoTo(r, "ok") /\ UNCHANGED rows
     ELSE IF Fits(id, Merged(r, rows[id]))
     THEN Put(id, Merged(r, rows[id])) /\ GoTo(r, "ok")
     ELSE GoTo(r, "failed") /\ UNCHANGED rows
  /\ UNCHANGED <<lastId, up, ask, admin, found>>

Remove(r) ==
  /\ step[r] = "write" /\ ask[r].op = "remove"
  /\ Delete(ask[r].id)
  /\ GoTo(r, "ok")
  /\ UNCHANGED <<lastId, up, ask, admin, found>>

-----------------------------------------------------------------------------
(* onApplicationBootstrap, before the server listens.                      *)
BootMakesRoot ==
  /\ ~ up /\ ~ IsTaken(RootEmail) /\ lastId < MaxId
  /\ Put(lastId + 1, [email |-> RootEmail, role |-> "admin", hash |-> "initial"])
  /\ lastId' = lastId + 1
  /\ up' = TRUE
  /\ UNCHANGED <<ask, step, admin, found>>

BootFindsRoot ==
  /\ ~ up /\ IsTaken(RootEmail)
  /\ up' = TRUE
  /\ UNCHANGED <<rows, lastId, ask, step, admin, found>>

Boot == BootMakesRoot \/ BootFindsRoot

(* The process stops: requests under way are lost, the table is kept.      *)
Crash ==
  /\ up
  /\ up' = FALSE
  /\ step' = [r \in Req |-> IF step[r] \in Working THEN "lost" ELSE step[r]]
  /\ UNCHANGED <<rows, lastId, ask, admin, found>>

Handle(r) ==
  \/ FindForUpdate(r) \/ FindForRemove(r) \/ FindNothing(r) \/ EmailGuard(r)
  \/ Load(r) \/ Insert(r) \/ Reinsert(r) \/ Update(r) \/ Remove(r)

Next ==
  \/ \E r \in Req : Authorise(r) \/ Refuse(r) \/ Handle(r)
  \/ Boot
  \/ Crash

(* The event loop and the database carry every handler on.                 *)
Fairness == \A r \in Req : WF_vars(Handle(r))

Spec == Init /\ [][Next]_vars /\ Fairness

-----------------------------------------------------------------------------
(* The password of an account changes only when a request that carries a   *)
(* password for that account is saved: an update working on a copy read    *)
(* earlier never brings an old password back (findOne, line 21; update,    *)
(* lines 51 and 65-69).                                                    *)
PasswordOnlyWhenAsked ==
  [][\A i \in DOMAIN rows : i \in DOMAIN rows' /\ rows'[i].hash # rows[i].hash =>
       \E r \in Req : /\ ask[r].id = i /\ ask[r].password
                      /\ rows'[i].hash = r /\ step[r] # "ok" /\ step'[r] = "ok"]_vars

(* An id that is free is used again only by an update that had read its    *)
(* account before it was removed and that carries a password: without one  *)
(* the insertion that save() makes of it lacks a hash and fails, so a      *)
(* removed account never comes back under its old password (findOne, line  *)
(* 21; update, lines 65-69; the columns of admins.entity.ts).              *)
BackOnlyWithPassword ==
  [][\A i \in (1 .. lastId) \ DOMAIN rows : i \in DOMAIN rows' =>
       \E r \in Req : /\ ask[r].op = "update" /\ ask[r].id = i /\ ask[r].password
                      /\ rows'[i].hash = r /\ step[r] = "write" /\ step'[r] = "ok"]_vars

(* Every request that reaches its handler is answered, unless the process  *)
(* stops.                                                                  *)
EveryRequestIsAnswered ==
  \A r \in Req : step[r] \in Working ~> step[r] \in Answered

(* 'Admin deleted' (admins.controller.ts, line 94): a deleted account is   *)
(* gone for good, its id is never in use again.                            *)
DeletedStaysDeleted ==
  [][\A i \in 1 .. lastId : i \notin DOMAIN rows => i \notin DOMAIN rows']_vars
-----------------------------------------------------------------------------
(* The inductive invariant: a handler's copy is a complete row when it     *)
(* creates, and when it updates it has a hash only if it was asked to set  *)
(* a password.                                                             *)
CopyInvOf(r) ==
  step[r] \in {"guard", "load", "write"} =>
    /\ ask[r].op = "create" => admin[r] \in Row
    /\ ask[r].op = "update" =>
         /\ ask[r].id \in 1 .. lastId
         /\ admin[r].email \in Email /\ admin[r].role \in Role
         /\ admin[r].hash = Undefined \/ (admin[r].hash = r /\ ask[r].password)

IInv == TypeOK /\ \A r \in Req : CopyInvOf(r)
=============================================================================

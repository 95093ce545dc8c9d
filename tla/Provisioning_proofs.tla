------------------------- MODULE Provisioning_proofs --------------------------
(***************************************************************************)
(* Provisioning, for any requests, aliases, items, grants and fees; and    *)
(* that it implements StagedPromise.                                       *)
(***************************************************************************)
EXTENDS Provisioning, TLAPS

-----------------------------------------------------------------------------
(* What a request asks for.                                                *)
LEMMA RequestFacts ==
  ASSUME NEW q \in Requests
  PROVE  /\ q.wants \subseteq Kinds /\ q.wants # {} /\ q.op # "none" /\ q.item \in Item
         /\ q.alias \in Alias <=> "alias" \in q.wants
<1> USE ProvisioningAssumption DEF Kinds
<1>1. CASE q \in UserRequest
  BY <1>1 DEF UserRequest
<1>2. CASE q \in DeviceRequest
  BY <1>2 DEF DeviceRequest
<1>3. CASE q \in ReplaceRequest
  BY <1>3 DEF ReplaceRequest
<1>4. CASE q \in FaucetRequest
  BY <1>4 DEF FaucetRequest
<1>5. CASE q \in PlainSetup
  BY <1>5 DEF PlainSetup
<1>6. CASE q \in AliasSetup
  BY <1>6 DEF AliasSetup
<1>7. QED
  BY <1>1, <1>2, <1>3, <1>4, <1>5, <1>6 DEF Requests

(* A stage is what is wanted, unsent, and waits for nothing unsent; when   *)
(* there is none, everything is sent.                                      *)
LEMMA StageFacts ==
  ASSUME NEW q, NEW S, q.wants \subseteq Kinds
  PROVE  /\ Stage(q, S) \subseteq q.wants \ S
         /\ \A k \in Stage(q, S), j \in q.wants : <<j, k>> \in Awaited => j \in S
         /\ Stage(q, S) = {} => q.wants \subseteq S
<1>1. /\ Stage(q, S) \subseteq q.wants \ S
      /\ \A k \in Stage(q, S), j \in q.wants : <<j, k>> \in Awaited => j \in S
  BY DEF Stage
<1>2. ASSUME Stage(q, S) = {} PROVE q.wants \subseteq S
  <2>1. \A k \in q.wants \ S : \E j \in q.wants \ S : <<j, k>> \in Awaited
    BY <1>2 DEF Stage
  <2>2. \A j, k : <<j, k>> \in Awaited =>
          \/ j = "fund" /\ k \in {"entry", "script", "data"}
          \/ j = "dappScript" /\ k \in {"alias", "dappData"}
          \/ j = "alias" /\ k = "dappData"
    BY DEF Awaited
  <2>3. "fund" \notin q.wants \ S /\ "dappScript" \notin q.wants \ S
    BY <2>1, <2>2
  <2>4. "alias" \notin q.wants \ S
    BY <2>1, <2>2, <2>3
  <2>5. QED
    BY <2>1, <2>2, <2>3, <2>4
<1>3. QED
  BY <1>1, <1>2

(* A handler submits its transactions: no reply and no other fate changes. *)
LEMMA SubmitFacts ==
  ASSUME B!TypeOK, B!OkMeansApplied, NEW T, T \subseteq Tx, B!Submit(T)
  PROVE  /\ B!TypeOK' /\ B!OkMeansApplied' /\ reply' = reply
         /\ \A t \in T : fate[t] = "none" /\ fate'[t] = "sent"
         /\ \A t \in Tx : t \notin T => fate'[t] = fate[t]
  BY DEF B!TypeOK, B!Submit, B!OkMeansApplied, B!Fates, B!Replies

(* A block includes one transaction.                                       *)
LEMMA ApplyFacts ==
  ASSUME B!TypeOK, B!OkMeansApplied, NEW u \in Tx, B!Apply(u)
  PROVE  /\ B!TypeOK' /\ B!OkMeansApplied' /\ reply' = reply
         /\ fate[u] = "sent" /\ fate'[u] = "applied"
         /\ \A t \in Tx : t # u => fate'[t] = fate[t]
  BY DEF B!TypeOK, B!Apply, B!OkMeansApplied, B!Fates, B!Replies

(* A broadcast call ends, and takes no earlier answer back.                *)
LEMMA OutcomeFacts ==
  ASSUME B!TypeOK, B!OkMeansApplied, NEW u \in Tx, B!Confirm(u) \/ B!Fail(u)
  PROVE  /\ B!TypeOK' /\ B!OkMeansApplied' /\ fate' = fate
         /\ \A t \in Tx : reply[t] # "none" => reply'[t] = reply[t]
<1> USE DEF B!TypeOK, B!OkMeansApplied, B!Fates, B!Replies
<1>1. CASE B!Confirm(u)
  BY <1>1 DEF B!Confirm
<1>2. CASE B!Fail(u)
  BY <1>2 DEF B!Fail
<1>3. QED
  BY <1>1, <1>2

(* Grants and fees are natural numbers.                                    *)
LEMMA MoneyFacts ==
  ASSUME env \in Configurations, NEW r \in Req
  PROVE  Grant(r) \in Nat /\ Spent(r) \in Nat /\ ScriptFee \in Nat /\ DataFee \in Nat
  BY ProvisioningAssumption DEF Grant, Spent

-----------------------------------------------------------------------------
(* Nothing has been asked, sent or taken at the start.                     *)
LEMMA InitIInv == Init => IInv
<1> SUFFICES ASSUME Init PROVE IInv
  OBVIOUS
<1>1. B!TypeOK /\ B!OkMeansApplied
  BY DEF Init, B!Init, B!TypeOK, B!OkMeansApplied, B!Fates, B!Replies
<1>2. \A k \in Kinds, r \in Req : fate[<<k, r>>] = "none"
  BY DEF Init, B!Init, Tx
<1>3. TypeOK
  BY <1>1 DEF Init, TypeOK, Steps, Patches
<1>4. \A r \in Req : ~Applied("alias", r) /\ ~Applied("script", r) /\ ~Applied("data", r)
  BY <1>2 DEF Applied, Kinds
<1>5. \A r \in Req : Control(r)
  BY <1>2 DEF Control, Init
<1>6. \A r \in Req : Patching(r)
  BY DEF Patching, Init
<1>7. Naming /\ OneHolder /\ \A r \in Req : Taken(r)
  BY <1>4 DEF Naming, OneHolder, Taken, Init
<1>8. ASSUME NEW r \in Req PROVE Credit(r)
  <2>1. Spent(r) = 0
    BY <1>4 DEF Spent
  <2>2. QED
    BY <1>3, <2>1, MoneyFacts DEF Credit, TypeOK
<1>9. QED
  BY <1>1, <1>3, <1>5, <1>6, <1>7, <1>8 DEF IInv

(* A request that does not move keeps what it has sent.                    *)
LEMMA ControlKept ==
  ASSUME NEW x \in Req, Control(x), ask'[x] = ask[x], step'[x] = step[x],
         \A k \in Kinds : /\ fate'[<<k, x>>] = "none" <=> fate[<<k, x>>] = "none"
                          /\ Applied(k, x) => Applied(k, x)',
         \A t \in Tx : reply[t] = "ok" => reply'[t] = "ok",
         TypeOK
  PROVE  Control(x)'
<1>1. Sent(x)' = Sent(x) /\ \A k \in Sent(x) : <<k, x>> \in Tx
  BY DEF Sent, Tx
<1>2. AllSucceed(x) => AllSucceed(x)'
  BY <1>1 DEF AllSucceed
<1>3. ask[x].wants \subseteq Kinds
  <2>1. ask[x] \in Requests \/ ask[x] = NoRequest
    BY DEF TypeOK
  <2>2. QED
    BY <2>1, RequestFacts DEF NoRequest
<1>4. QED
  BY <1>2, <1>3 DEF Control

(* A request whose step does not become ok keeps its part in renaming.     *)
LEMMA PatchingKept ==
  ASSUME NEW x \in Req, Patching(x), ask'[x] = ask[x], patch'[x] = patch[x], env' = env, TypeOK,
         step'[x] = step[x] \/ step'[x] = "lost",
         \A i \in Item : named[i] # "nobody" => named'[i] = named[i],
         \A k \in Kinds : Applied(k, x) => Applied(k, x)'
  PROVE  Patching(x)'
<1>1. ask[x] \in Requests \/ ask[x] = NoRequest
  BY DEF TypeOK
<1>2. ask[x].op = "replace" => ask[x].item \in Item
  BY <1>1, RequestFacts DEF NoRequest
<1>3. ask[x].wants \subseteq Kinds
  BY <1>1, RequestFacts DEF NoRequest
<1>4. patch[x] = "renamed" => named'[ask[x].item] = x
  BY <1>2, ProvisioningAssumption DEF Patching
<1>5. QED
  BY <1>3, <1>4 DEF Patching

(* Where nothing gets into a block, no alias is taken and nothing spent.   *)
LEMMA ChainKept ==
  ASSUME IInv, UNCHANGED <<env, aliases>>,
         \A x \in Req, k \in Kinds : /\ Applied(k, x)' <=> Applied(k, x)
                                     /\ Applied(k, x) => ask'[x] = ask[x]
  PROVE  OneHolder' /\ \A x \in Req : Taken(x)' /\ Credit(x)'
<1>1. \A x \in Req : /\ Applied("alias", x)' <=> Applied("alias", x)
                     /\ Applied("script", x)' <=> Applied("script", x)
                     /\ Applied("data", x)' <=> Applied("data", x)
                     /\ Applied("alias", x) \/ Applied("script", x) \/ Applied("data", x) => ask'[x] = ask[x]
  BY DEF Kinds
<1>2. OneHolder'
  <2> SUFFICES ASSUME NEW x \in Req, NEW y \in Req, Applied("alias", x)', Applied("alias", y)',
                      ask'[x].alias = ask'[y].alias
               PROVE  x = y
    BY DEF OneHolder
  <2>1. ask'[x] = ask[x] /\ ask'[y] = ask[y]
    BY <1>1
  <2>2. QED
    BY <1>1, <2>1 DEF IInv, OneHolder
<1>3. ASSUME NEW x \in Req PROVE Taken(x)'
  BY <1>1 DEF IInv, Taken
<1>4. ASSUME NEW x \in Req PROVE Credit(x)'
  <2>1. env \in Configurations
    BY DEF IInv, TypeOK
  <2>2. Spent(x)' = Spent(x) /\ Grant(x) \in Nat /\ Spent(x) \in Nat /\ Grant(x)' \in Nat
    BY <1>1, <2>1, MoneyFacts, ProvisioningAssumption DEF Spent, Grant
  <2>3. CASE Applied("script", x) \/ Applied("data", x)
    <3>1. Grant(x)' = Grant(x)
      BY <1>1, <2>3 DEF Grant
    <3>2. QED
      BY <2>2, <3>1 DEF IInv, Credit
  <2>4. CASE ~Applied("script", x) /\ ~Applied("data", x)
    <3>1. Spent(x) = 0
      BY <2>4 DEF Spent
    <3>2. QED
      BY <2>2, <3>1 DEF Credit
  <2>5. QED
    BY <2>3, <2>4
<1>5. QED
  BY <1>2, <1>3, <1>4

(* A step of one request's handler, given what it does to that request.    *)
LEMMA OneMoves ==
  ASSUME IInv, NEW r \in Req, TypeOK', B!OkMeansApplied', Control(r)', Patching(r)',
         UNCHANGED <<env, aliases, named, reply>>,
         \A x \in Req : x # r => ask'[x] = ask[x] /\ step'[x] = step[x] /\ patch'[x] = patch[x],
         \A x \in Req, k \in Kinds : x # r => fate'[<<k, x>>] = fate[<<k, x>>],
         \A k \in Kinds : /\ fate'[<<k, r>>] = "applied" <=> fate[<<k, r>>] = "applied"
                          /\ fate[<<k, r>>] = "applied" => ask'[r] = ask[r],
         patch[r] = "renamed" => patch'[r] = "renamed" /\ ask'[r] = ask[r]
  PROVE  IInv'
<1>1. TypeOK
  BY DEF IInv
<1>2. \A x \in Req, k \in Kinds : /\ Applied(k, x)' <=> Applied(k, x)
                                  /\ Applied(k, x) => ask'[x] = ask[x]
  BY DEF Applied
<1>3. OneHolder' /\ \A x \in Req : Taken(x)' /\ Credit(x)'
  BY <1>2, ChainKept
<1>4. ASSUME NEW x \in Req PROVE Control(x)' /\ Patching(x)'
  <2>1. CASE x # r
    <3>1. Control(x) /\ Patching(x)
      BY DEF IInv
    <3>2. Control(x)'
      BY <1>1, <1>2, <2>1, <3>1, ControlKept
    <3>3. Patching(x)'
      BY <1>1, <1>2, <2>1, <3>1, PatchingKept
    <3>4. QED
      BY <3>2, <3>3
  <2>2. QED
    BY <2>1
<1>5. Naming'
  <2> SUFFICES ASSUME NEW i \in Item, named[i] # "nobody"
               PROVE  patch'[named[i]] = "renamed" /\ ask'[named[i]].item = i
    BY DEF Naming
  <2>1. named[i] \in Req /\ patch[named[i]] = "renamed" /\ ask[named[i]].item = i
    BY <1>1 DEF IInv, Naming, TypeOK
  <2>2. QED
    BY <2>1
<1>6. QED
  BY <1>3, <1>4, <1>5 DEF IInv

-----------------------------------------------------------------------------
(* The handlers.                                                           *)

(* A stage is sent: by the first step of a call, by Continue or FileRead.  *)
LEMMA StageIInv ==
  ASSUME IInv, NEW r \in Req, NEW q \in Requests, NEW s \in {"compiling", "sending"},
         \/ step[r] = "idle"
         \/ step[r] \in {"compiling", "sending"} /\ q = ask[r],
         AllSucceed(r),
         ask' = [ask EXCEPT ![r] = q], step' = [step EXCEPT ![r] = s],
         \/ s = "sending" /\ B!Submit(Stage(q, Sent(r)) \X {r})
         \/ s = "compiling" /\ UNCHANGED <<fate, reply>>,
         UNCHANGED <<env, aliases, patch, named>>
  PROVE  IInv'
<1>1. /\ TypeOK /\ B!TypeOK /\ B!OkMeansApplied /\ Control(r) /\ Patching(r)
      /\ q.wants \subseteq Kinds /\ q.op # "none"
  BY RequestFacts DEF IInv, TypeOK
<1>2. /\ Stage(q, Sent(r)) \subseteq q.wants
      /\ \A k \in Stage(q, Sent(r)), j \in q.wants : <<j, k>> \in Awaited => j \in Sent(r)
      /\ Stage(q, Sent(r)) \X {r} \subseteq Tx
  BY <1>1, StageFacts DEF Tx
<1>3. /\ B!TypeOK' /\ B!OkMeansApplied' /\ reply' = reply
      /\ \A t \in Stage(q, Sent(r)) \X {r} : s = "sending" => fate[t] = "none" /\ fate'[t] = "sent"
      /\ \A t \in Tx : s = "compiling" \/ t \notin Stage(q, Sent(r)) \X {r} => fate'[t] = fate[t]
  <2>1. CASE s = "sending"
    BY <1>1, <1>2, <2>1, SubmitFacts
  <2>2. CASE s = "compiling"
    BY <1>1, <2>2 DEF B!TypeOK, B!OkMeansApplied
  <2>3. QED
    BY <2>1, <2>2
<1>4. /\ ask'[r] = q /\ step'[r] = s
      /\ \A x \in Req : x # r => ask'[x] = ask[x] /\ step'[x] = step[x] /\ patch'[x] = patch[x]
  BY <1>1 DEF TypeOK
<1>5. TypeOK'
  BY <1>1, <1>3 DEF TypeOK, Steps
<1>6. \A k \in Kinds : \/ fate'[<<k, r>>] = fate[<<k, r>>]
                       \/ /\ k \in Stage(q, Sent(r))
                          /\ fate[<<k, r>>] = "none" /\ fate'[<<k, r>>] = "sent" /\ s = "sending"
  BY <1>3 DEF Tx
<1>7. \A x \in Req, k \in Kinds : x # r => fate'[<<k, x>>] = fate[<<k, x>>]
  BY <1>3 DEF Tx
<1>8. step[r] = "idle" => ask[r].wants = {} /\ ask[r].op = "none"
  BY <1>1 DEF Control, NoRequest
<1>9. step[r] = "idle" => \A k \in Kinds : fate[<<k, r>>] = "none"
  BY <1>1, <1>8 DEF Control
<1>10. \A k \in Sent(r) : Applied(k, r)
  BY <1>1 DEF AllSucceed, Sent, Applied, B!OkMeansApplied, Tx
<1>11. \A k \in Kinds : Applied(k, r)' <=> Applied(k, r)
  BY <1>6 DEF Applied
<1>12. \A k \in Kinds : fate'[<<k, r>>] # "none" =>
         /\ k \in q.wants
         /\ \A j \in q.wants : <<j, k>> \in Awaited => Applied(j, r)'
  <2> SUFFICES ASSUME NEW k \in Kinds, fate'[<<k, r>>] # "none"
               PROVE  k \in q.wants /\ \A j \in q.wants : <<j, k>> \in Awaited => Applied(j, r)'
    OBVIOUS
  <2>1. CASE fate[<<k, r>>] = "none"
    BY <1>1, <1>2, <1>6, <1>10, <1>11, <2>1
  <2>2. CASE fate[<<k, r>>] # "none"
    BY <1>1, <1>9, <1>11, <2>2 DEF Control
  <2>3. QED
    BY <2>1, <2>2
<1>13. s = "compiling" => AllSucceed(r)'
  <2>1. s = "compiling" => Sent(r)' = Sent(r)
    BY <1>3 DEF Sent, Tx
  <2>2. QED
    BY <1>3, <2>1 DEF AllSucceed
<1>14. Control(r)'
  BY <1>4, <1>12, <1>13 DEF Control
<1>15. patch[r] = "none" /\ patch'[r] = "none"
  BY <1>1 DEF Patching
<1>16. step'[r] # "ok"
  BY <1>4
<1>17. Patching(r)'
  BY <1>15, <1>16 DEF Patching
<1>18. \A k \in Kinds : /\ fate'[<<k, r>>] = "applied" <=> fate[<<k, r>>] = "applied"
                        /\ fate[<<k, r>>] = "applied" => ask'[r] = ask[r]
  BY <1>4, <1>6, <1>9
<1>19. patch[r] = "renamed" => patch'[r] = "renamed" /\ ask'[r] = ask[r]
  BY <1>15
<1>20. QED
  BY <1>3, <1>4, <1>5, <1>7, <1>14, <1>17, <1>18, <1>19, OneMoves

(* The steps that send a stage, or read the file for it.                   *)
LEMMA SendingSteps ==
  ASSUME IInv, NEW r \in Req, Start(r) \/ Continue(r) \/ FileRead(r)
  PROVE  IInv'
<1>1. TypeOK /\ Control(r)
  BY DEF IInv
<1>2. CASE Start(r)
  <2>1. Sent(r) = {}
    BY <1>1, <1>2 DEF Start, Sent, Control, NoRequest
  <2>2. AllSucceed(r)
    BY <2>1 DEF AllSucceed
  <2>3. PICK q \in Requests :
          /\ ask' = [ask EXCEPT ![r] = q]
          /\ \/ GoTo(r, "compiling") /\ UNCHANGED <<fate, reply>>
             \/ GoTo(r, "sending") /\ B!Submit(Stage(q, {}) \X {r})
    BY <1>2 DEF Start
  <2>4. step[r] = "idle" /\ UNCHANGED <<env, aliases, patch, named>>
    BY <1>2 DEF Start
  <2>5. CASE GoTo(r, "compiling") /\ UNCHANGED <<fate, reply>>
    BY <2>2, <2>3, <2>4, <2>5, StageIInv DEF GoTo
  <2>6. CASE GoTo(r, "sending") /\ B!Submit(Stage(q, {}) \X {r})
    BY <2>1, <2>2, <2>3, <2>4, <2>6, StageIInv DEF GoTo
  <2>7. QED
    BY <2>3, <2>5, <2>6
<1>3. CASE Continue(r) \/ FileRead(r)
  <2>1. /\ step[r] \in {"compiling", "sending"} /\ UNCHANGED <<ask, env, aliases, patch, named>>
        /\ AllSucceed(r)
    BY <1>1, <1>3 DEF Continue, FileRead, Control
  <2>2. ask[r] \in Requests
    BY <1>1, <2>1 DEF Control
  <2>3. ask' = [ask EXCEPT ![r] = ask[r]]
    BY <1>1, <2>1 DEF TypeOK
  <2>4. \/ step' = [step EXCEPT ![r] = "compiling"] /\ UNCHANGED <<fate, reply>>
        \/ step' = [step EXCEPT ![r] = "sending"] /\ B!Submit(Stage(ask[r], Sent(r)) \X {r})
    BY <1>1, <1>3 DEF Continue, FileRead, GoTo, Due, TypeOK
  <2>5. CASE step' = [step EXCEPT ![r] = "compiling"] /\ UNCHANGED <<fate, reply>>
    BY <2>1, <2>2, <2>3, <2>5, StageIInv
  <2>6. CASE step' = [step EXCEPT ![r] = "sending"] /\ B!Submit(Stage(ask[r], Sent(r)) \X {r})
    BY <2>1, <2>2, <2>3, <2>6, StageIInv
  <2>7. QED
    BY <2>4, <2>5, <2>6
<1>4. QED
  BY <1>2, <1>3

(* When a stage has succeeded and none is due, all of it is in a block.    *)
LEMMA NothingDue ==
  ASSUME IInv, NEW r \in Req, step[r] = "sending", AllSucceed(r), Due(r) = {}
  PROVE  \A k \in ask[r].wants : Applied(k, r)
<1>1. B!OkMeansApplied /\ ask[r] \in Requests
  BY DEF IInv, Control
<1>2. ask[r].wants \subseteq Sent(r)
  BY <1>1, RequestFacts, StageFacts DEF Due
<1>3. QED
  BY <1>1, <1>2 DEF AllSucceed, Sent, B!OkMeansApplied, Applied, Tx

(* The steps that send nothing.                                            *)
LEMMA QuietSteps ==
  ASSUME IInv, NEW r \in Req, Refuse(r) \/ StageFails(r) \/ Finish(r) \/ RenameEnds(r)
  PROVE  IInv'
<1>1. TypeOK /\ B!TypeOK /\ B!OkMeansApplied /\ Control(r) /\ Patching(r)
  BY DEF IInv, TypeOK
<1>2. /\ UNCHANGED <<ask, env, aliases, named, fate, reply>>
      /\ \A x \in Req : x # r => step'[x] = step[x] /\ patch'[x] = patch[x]
  BY <1>1 DEF Refuse, StageFails, Finish, RenameEnds, GoTo, TypeOK
<1>3. step' \in [Req -> Steps] /\ patch' \in [Req -> Patches]
  BY <1>1 DEF Refuse, StageFails, Finish, RenameEnds, GoTo, TypeOK, Steps, Patches
<1>4. TypeOK' /\ B!OkMeansApplied'
  BY <1>1, <1>2, <1>3 DEF TypeOK, B!TypeOK, B!OkMeansApplied
<1>5. Sent(r)' = Sent(r) /\ \A k : Applied(k, r)' <=> Applied(k, r)
  BY <1>2 DEF Sent, Applied
<1>6. ASSUME Control(r)', Patching(r)', patch[r] = "renamed" => patch'[r] = "renamed" PROVE IInv'
  BY <1>2, <1>4, <1>6, OneMoves
<1>7. CASE Refuse(r)
  <2>1. step[r] = "idle" /\ step'[r] = "invalid" /\ patch' = patch
    BY <1>1, <1>7 DEF Refuse, GoTo, TypeOK
  <2>2. Control(r)'
    BY <1>1, <1>2, <1>5, <2>1 DEF Control
  <2>3. Patching(r)'
    BY <1>1, <1>2, <1>5, <2>1 DEF Patching
  <2>4. QED
    BY <1>6, <2>1, <2>2, <2>3
<1>8. CASE StageFails(r)
  <2>1. step[r] = "sending" /\ step'[r] = "error" /\ patch' = patch
    BY <1>1, <1>8 DEF StageFails, GoTo, TypeOK
  <2>2. Control(r)'
    BY <1>1, <1>2, <1>5, <2>1 DEF Control
  <2>3. Patching(r)'
    BY <1>1, <1>2, <1>5, <2>1 DEF Patching
  <2>4. QED
    BY <1>6, <2>1, <2>2, <2>3
<1>9. CASE Finish(r)
  <2>1. \A k \in ask[r].wants : Applied(k, r)
    BY <1>9, NothingDue DEF Finish
  <2>2. step[r] = "sending" /\ step'[r] \in {"error", "renaming", "ok"}
    BY <1>1, <1>9 DEF Finish, GoTo, TypeOK
  <2>3. Control(r)'
    BY <1>1, <1>2, <1>5, <2>1, <2>2 DEF Control
  <2>4. /\ step'[r] = "ok" => ask[r].op # "replace"
        /\ \/ patch' = patch
           \/ patch'[r] = "sent" /\ ask[r].op = "replace" /\ env.salted
    BY <1>1, <1>9, <2>2 DEF Finish, GoTo, Encrypts, MakesAccount, TypeOK
  <2>5. patch[r] = "none"
    BY <1>1, <2>2 DEF Patching
  <2>6. Patching(r)'
    BY <1>2, <1>5, <2>1, <2>2, <2>4, <2>5 DEF Patching
  <2>7. QED
    BY <1>6, <2>3, <2>5, <2>6
<1>10. CASE RenameEnds(r)
  <2>1. /\ step[r] = "renaming" /\ patch' = patch
        /\ \/ step'[r] = "ok" /\ patch[r] = "renamed"
           \/ step'[r] \in {"notfound", "error"}
    BY <1>1, <1>10 DEF RenameEnds, Renamed, GoTo, TypeOK
  <2>2. Control(r)'
    BY <1>1, <1>2, <1>5, <2>1 DEF Control
  <2>3. Patching(r)'
    BY <1>1, <1>2, <1>5, <2>1 DEF Patching
  <2>4. QED
    BY <1>6, <2>1, <2>2, <2>3
<1>11. QED
  BY <1>7, <1>8, <1>9, <1>10

-----------------------------------------------------------------------------
(* The chain.                                                              *)

(* What holds whenever a transaction gets into a block.                    *)
LEMMA IncludeFacts ==
  ASSUME IInv, NEW r \in Req, NEW k \in Kinds, B!Apply(<<k, r>>),
         UNCHANGED <<env, ask, step, patch, named>>
  PROVE  /\ B!TypeOK' /\ B!OkMeansApplied' /\ reply' = reply /\ Naming'
         /\ k \in ask[r].wants /\ ask[r] \in Requests /\ ~Applied(k, r) /\ Applied(k, r)'
         /\ \A j \in ask[r].wants : <<j, k>> \in Awaited => Applied(j, r)
         /\ \A j \in Kinds, x \in Req : <<j, x>> # <<k, r>> => (Applied(j, x)' <=> Applied(j, x))
         /\ \A x \in Req : Control(x)' /\ Patching(x)'
<1>1. TypeOK /\ B!TypeOK /\ B!OkMeansApplied /\ Control(r) /\ <<k, r>> \in Tx
  BY DEF IInv, TypeOK, Tx
<1>2. /\ B!TypeOK' /\ B!OkMeansApplied' /\ reply' = reply
      /\ fate[<<k, r>>] = "sent" /\ fate'[<<k, r>>] = "applied"
      /\ \A t \in Tx : t # <<k, r>> => fate'[t] = fate[t]
  BY <1>1, ApplyFacts
<1>3. \A j \in Kinds, x \in Req : <<j, x>> # <<k, r>> => fate'[<<j, x>>] = fate[<<j, x>>]
  BY <1>2 DEF Tx
<1>4. k \in ask[r].wants /\ \A j \in ask[r].wants : <<j, k>> \in Awaited => Applied(j, r)
  BY <1>1, <1>2 DEF Control
<1>5. ask[r] \in Requests
  BY <1>1, <1>4 DEF TypeOK, NoRequest
<1>6. ~Applied(k, r) /\ Applied(k, r)'
  BY <1>2 DEF Applied
<1>7. \A j \in Kinds, x \in Req : <<j, x>> # <<k, r>> => (Applied(j, x)' <=> Applied(j, x))
  BY <1>3 DEF Applied
<1>8. \A j \in Kinds, x \in Req : /\ fate'[<<j, x>>] = "none" <=> fate[<<j, x>>] = "none"
                                  /\ Applied(j, x) => Applied(j, x)'
  BY <1>2, <1>3, <1>6, <1>7
<1>9. ASSUME NEW x \in Req PROVE Control(x)' /\ Patching(x)'
  <2>1. Control(x) /\ Patching(x)
    BY DEF IInv
  <2>2. Control(x)'
    BY <1>1, <1>2, <1>8, <2>1, ControlKept
  <2>3. Patching(x)'
    BY <1>1, <1>8, <2>1, PatchingKept
  <2>4. QED
    BY <2>2, <2>3
<1>10. Naming'
  BY DEF IInv, Naming
<1>11. QED
  BY <1>2, <1>4, <1>5, <1>6, <1>7, <1>9, <1>10

(* The dApp pays: no alias and no grant is touched.                        *)
LEMMA PaidByDappIInv ==
  ASSUME IInv, NEW r \in Req, PaidByDapp(r), UNCHANGED <<env, ask, step, patch, named>>
  PROVE  IInv'
<1>1. PICK k \in {"fund", "entry", "dappScript", "dappData"} : B!Apply(<<k, r>>) /\ aliases' = aliases
  BY DEF PaidByDapp
<1>2. k \in Kinds
  BY DEF Kinds
<1>3. /\ B!TypeOK' /\ B!OkMeansApplied' /\ Naming' /\ \A x \in Req : Control(x)' /\ Patching(x)'
      /\ \A j \in Kinds, x \in Req : <<j, x>> # <<k, r>> => (Applied(j, x)' <=> Applied(j, x))
  BY <1>1, <1>2, IncludeFacts
<1>4. TypeOK'
  BY <1>1, <1>3 DEF IInv, TypeOK
<1>5. \A x \in Req : /\ Applied("alias", x)' <=> Applied("alias", x)
                     /\ Applied("script", x)' <=> Applied("script", x)
                     /\ Applied("data", x)' <=> Applied("data", x)
  BY <1>3 DEF Kinds
<1>6. OneHolder' /\ \A x \in Req : Taken(x)'
  BY <1>1, <1>5 DEF IInv, OneHolder, Taken
<1>7. \A x \in Req : Spent(x)' = Spent(x) /\ Grant(x)' = Grant(x)
  BY <1>5 DEF Spent, Grant
<1>8. \A x \in Req : Credit(x)'
  BY <1>7 DEF IInv, Credit
<1>9. QED
  BY <1>3, <1>4, <1>6, <1>8 DEF IInv

(* A new account pays: never more than it has.                             *)
LEMMA SpendIInv ==
  ASSUME IInv, NEW r \in Req, SetScript(r) \/ InsertData(r),
         UNCHANGED <<env, ask, step, patch, named>>
  PROVE  IInv'
<1>1. PICK k \in {"script", "data"} :
        /\ B!Apply(<<k, r>>) /\ CanPay(r, IF k = "script" THEN ScriptFee ELSE DataFee)
        /\ aliases' = aliases
  BY DEF SetScript, InsertData
<1>2. k \in Kinds
  BY DEF Kinds
<1>3. /\ B!TypeOK' /\ B!OkMeansApplied' /\ Naming' /\ \A x \in Req : Control(x)' /\ Patching(x)'
      /\ ~Applied(k, r) /\ Applied(k, r)'
      /\ \A j \in Kinds, x \in Req : <<j, x>> # <<k, r>> => (Applied(j, x)' <=> Applied(j, x))
  BY <1>1, <1>2, IncludeFacts
<1>4. TypeOK'
  BY <1>1, <1>3 DEF IInv, TypeOK
<1>5. \A x \in Req : /\ Applied("alias", x)' <=> Applied("alias", x)
                     /\ x # r \/ k = "data" => (Applied("script", x)' <=> Applied("script", x))
                     /\ x # r \/ k = "script" => (Applied("data", x)' <=> Applied("data", x))
  BY <1>3 DEF Kinds
<1>6. OneHolder' /\ \A x \in Req : Taken(x)'
  BY <1>1, <1>5 DEF IInv, OneHolder, Taken
<1>7. \A x \in Req : Grant(x)' = Grant(x)
  BY DEF Grant
<1>8. \A x \in Req : x # r => Spent(x)' = Spent(x)
  BY <1>5 DEF Spent
<1>9. Spent(r)' = Spent(r) + (IF k = "script" THEN ScriptFee ELSE DataFee)
  BY <1>3, <1>5, ProvisioningAssumption DEF Spent
<1>10. Credit(r)'
  BY <1>1, <1>7, <1>9 DEF Credit, CanPay
<1>11. \A x \in Req : Credit(x)'
  BY <1>7, <1>8, <1>10 DEF IInv, Credit
<1>12. QED
  BY <1>3, <1>4, <1>6, <1>11 DEF IInv

(* An alias is taken by the first that asks for it.                        *)
LEMMA SetAliasIInv ==
  ASSUME IInv, NEW r \in Req, SetAlias(r), UNCHANGED <<env, ask, step, patch, named>>
  PROVE  IInv'
<1>1. /\ "alias" \in Kinds /\ B!Apply(<<"alias", r>>) /\ ask[r].alias \notin aliases
      /\ aliases' = aliases \cup {ask[r].alias}
  BY DEF SetAlias, Kinds
<1>2. /\ B!TypeOK' /\ B!OkMeansApplied' /\ Naming' /\ \A x \in Req : Control(x)' /\ Patching(x)'
      /\ "alias" \in ask[r].wants /\ ask[r] \in Requests
      /\ \A j \in Kinds, x \in Req : <<j, x>> # <<"alias", r>> => (Applied(j, x)' <=> Applied(j, x))
  BY <1>1, IncludeFacts
<1>3. ask[r].alias \in Alias
  BY <1>2, RequestFacts
<1>4. TypeOK'
  BY <1>1, <1>2, <1>3 DEF IInv, TypeOK
<1>5. \A x \in Req : /\ x # r => (Applied("alias", x)' <=> Applied("alias", x))
                     /\ Applied("script", x)' <=> Applied("script", x)
                     /\ Applied("data", x)' <=> Applied("data", x)
  BY <1>2 DEF Kinds
<1>6. \A x \in Req : x # r /\ Applied("alias", x)' => ask[x].alias # ask[r].alias
  BY <1>1, <1>5 DEF IInv, Taken
<1>7. OneHolder'
  BY <1>5, <1>6 DEF IInv, OneHolder
<1>8. \A x \in Req : Taken(x)'
  BY <1>1, <1>5 DEF IInv, Taken
<1>9. \A x \in Req : Spent(x)' = Spent(x) /\ Grant(x)' = Grant(x)
  BY <1>5 DEF Spent, Grant
<1>10. \A x \in Req : Credit(x)'
  BY <1>9 DEF IInv, Credit
<1>11. QED
  BY <1>2, <1>4, <1>7, <1>8, <1>10 DEF IInv

-----------------------------------------------------------------------------
(* The supplier renames an item that nobody has, for a complete device.    *)
LEMMA PatchedIInv ==
  ASSUME IInv, NEW r \in Req, Patched(r)
  PROVE  IInv'
<1>1. /\ TypeOK /\ B!TypeOK /\ Patching(r) /\ patch[r] = "sent"
      /\ UNCHANGED <<env, ask, step, aliases, fate, reply>>
  BY DEF IInv, TypeOK, Patched
<1>2. ask[r] \in Requests /\ ask[r].item \in Item
  BY <1>1, RequestFacts DEF Patching, TypeOK, NoRequest
<1>3. \/ /\ named[ask[r].item] = "nobody" /\ patch' = [patch EXCEPT ![r] = "renamed"]
         /\ named' = [named EXCEPT ![ask[r].item] = r]
      \/ /\ patch' \in {[patch EXCEPT ![r] = "missing"], [patch EXCEPT ![r] = "refused"]}
         /\ named' = named
  BY DEF Patched
<1>4. /\ patch' \in [Req -> Patches] /\ named' \in [Item -> Req \cup {"nobody"}]
      /\ \A x \in Req : x # r => patch'[x] = patch[x]
      /\ \A i \in Item : named[i] # "nobody" => named'[i] = named[i]
  BY <1>1, <1>2, <1>3 DEF TypeOK, Patches
<1>5. TypeOK' /\ B!OkMeansApplied'
  BY <1>1, <1>4 DEF IInv, TypeOK, B!TypeOK, B!OkMeansApplied
<1>6. \A k, x : Applied(k, x)' <=> Applied(k, x)
  BY <1>1 DEF Applied
<1>7. OneHolder' /\ \A x \in Req : Taken(x)' /\ Credit(x)'
  BY <1>1, <1>6, ChainKept
<1>8. \A x \in Req : Control(x)'
  BY <1>1, <1>6, ControlKept DEF IInv
<1>9. ASSUME NEW x \in Req PROVE Patching(x)'
  <2>1. CASE x # r
    BY <1>1, <1>4, <1>6, <2>1, PatchingKept DEF IInv
  <2>2. CASE x = r
    <3>1. patch'[r] = "renamed" => named'[ask[r].item] = r
      BY <1>1, <1>2, <1>3 DEF TypeOK
    <3>2. step[r] # "ok"
      BY <1>1 DEF Patching
    <3>3. QED
      BY <1>1, <1>6, <2>2, <3>1, <3>2 DEF Patching
  <2>3. QED
    BY <2>1, <2>2
<1>10. Naming'
  <2> SUFFICES ASSUME NEW i \in Item, named'[i] # "nobody"
               PROVE  patch'[named'[i]] = "renamed" /\ ask'[named'[i]].item = i
    BY DEF Naming
  <2>1. CASE named[i] # "nobody"
    <3>1. named[i] \in Req /\ patch[named[i]] = "renamed" /\ ask[named[i]].item = i
      BY <1>1, <2>1 DEF IInv, Naming, TypeOK
    <3>2. named[i] # r /\ named'[i] = named[i]
      BY <1>1, <1>4, <2>1, <3>1
    <3>3. QED
      BY <1>1, <1>4, <3>1, <3>2
  <2>2. CASE named[i] = "nobody"
    <3>1. i = ask[r].item /\ named'[i] = r /\ patch'[r] = "renamed"
      BY <1>1, <1>2, <1>3, <2>2 DEF TypeOK
    <3>2. QED
      BY <1>1, <3>1
  <2>3. QED
    BY <2>1, <2>2
<1>11. QED
  BY <1>5, <1>7, <1>8, <1>9, <1>10 DEF IInv

(* An answer of broadcast, the end of the process, and nothing at all.     *)
LEMMA OutsideIInv ==
  ASSUME IInv, (\E t \in Tx : Outcome(t)) \/ Crash \/ UNCHANGED vars
  PROVE  IInv'
<1>1. TypeOK /\ B!TypeOK /\ B!OkMeansApplied
  BY DEF IInv, TypeOK
<1>2. /\ UNCHANGED <<env, ask, aliases, patch, named, fate>>
      /\ B!TypeOK' /\ B!OkMeansApplied'
      /\ \A t \in Tx : reply[t] = "ok" => reply'[t] = "ok"
  <2>1. CASE \E t \in Tx : Outcome(t)
    BY <1>1, <2>1, OutcomeFacts DEF Outcome
  <2>2. CASE Crash \/ UNCHANGED vars
    BY <1>1, <2>2 DEF Crash, vars, B!TypeOK, B!OkMeansApplied
  <2>3. QED
    BY <2>1, <2>2
<1>3. /\ step' \in [Req -> Steps]
      /\ \A x \in Req : step'[x] = step[x] \/ (step'[x] = "lost" /\ step[x] \notin {"idle", "invalid"})
  BY <1>1 DEF Outcome, Crash, vars, TypeOK, Steps, Busy
<1>4. TypeOK'
  BY <1>1, <1>2, <1>3 DEF TypeOK
<1>5. \A k, x : Applied(k, x)' <=> Applied(k, x)
  BY <1>2 DEF Applied
<1>6. OneHolder' /\ \A x \in Req : Taken(x)' /\ Credit(x)'
  BY <1>2, <1>5, ChainKept
<1>7. ASSUME NEW x \in Req PROVE Control(x)'
  <2>1. CASE step'[x] = step[x]
    BY <1>1, <1>2, <1>5, <2>1, ControlKept DEF IInv
  <2>2. CASE step'[x] = "lost" /\ step[x] \notin {"idle", "invalid"}
    BY <1>2, <1>5, <2>2 DEF IInv, Control
  <2>3. QED
    BY <1>3, <2>1, <2>2
<1>8. ASSUME NEW x \in Req PROVE Patching(x)'
  BY <1>1, <1>2, <1>3, <1>5, PatchingKept DEF IInv
<1>9. Naming'
  BY <1>2 DEF IInv, Naming
<1>10. QED
  BY <1>2, <1>4, <1>6, <1>7, <1>8, <1>9 DEF IInv

-----------------------------------------------------------------------------
(* The inductive invariant holds, for any requests and configurations.     *)
LEMMA NextIInv ==
  ASSUME IInv, [Next]_vars
  PROVE  IInv'
<1>1. ASSUME NEW r \in Req, Refuse(r) \/ Start(r) \/ Handle(r) PROVE IInv'
  BY <1>1, SendingSteps, QuietSteps DEF Handle
<1>2. ASSUME NEW r \in Req, Include(r) PROVE IInv'
  BY <1>2, PaidByDappIInv, SpendIInv, SetAliasIInv DEF Include
<1>3. ASSUME NEW r \in Req, Patched(r) PROVE IInv'
  BY <1>3, PatchedIInv
<1>4. CASE (\E t \in Tx : Outcome(t)) \/ Crash \/ UNCHANGED vars
  BY <1>4, OutsideIInv
<1>5. QED
  BY <1>1, <1>2, <1>3, <1>4 DEF Next

(* What a request has sent, renamed and spent is as the invariant says.    *)
THEOREM Invariance == Spec => []IInv
<1>1. IInv /\ [Next]_vars => IInv'
  BY NextIInv
<1>2. QED
  BY <1>1, InitIInv, PTL DEF Spec

(* The types of provisioning.                                              *)
THEOREM TypeCorrect == Spec => []TypeOK
<1>1. IInv => TypeOK
  BY DEF IInv
<1>2. QED
  BY <1>1, Invariance, PTL

(* An item is renamed to complete devices only.                            *)
THEOREM NamedWhenCompleteAlways == Spec => []NamedWhenComplete
<1>1. ASSUME IInv, NEW i \in Item, named[i] # "nobody"
      PROVE  Complete(named[i]) /\ env.salted
  <2>1. named[i] \in Req /\ patch[named[i]] = "renamed"
    BY <1>1 DEF IInv, Naming, TypeOK
  <2>2. Patching(named[i])
    BY <1>1, <2>1 DEF IInv
  <2>3. QED
    BY <2>1, <2>2 DEF Patching, Complete, Asked
<1>2. IInv => NamedWhenComplete
  BY <1>1 DEF NamedWhenComplete
<1>3. QED
  BY <1>2, Invariance, PTL

(* A call of connect_existing that succeeds has given the item its account.*)
THEOREM OneAccountPerItemAlways == Spec => []OneAccountPerItem
<1>1. IInv => OneAccountPerItem
  BY DEF IInv, Patching, OneAccountPerItem
<1>2. QED
  BY <1>1, Invariance, PTL

(* A setup with an alias that another has got does not succeed.            *)
THEOREM AliasOnceAlways == Spec => []AliasOnce
<1>1. ASSUME IInv, NEW r \in Req, NEW s \in Req, r # s, Applied("alias", r),
             ask[s].alias = ask[r].alias
      PROVE  step[s] # "ok"
  <2>1. TypeOK /\ "alias" \in Kinds /\ Control(r) /\ Control(s)
    BY <1>1 DEF IInv, Kinds
  <2>2. "alias" \in ask[r].wants
    BY <1>1, <2>1 DEF Control, Applied
  <2>3. ask[r] \in Requests
    BY <2>1, <2>2 DEF TypeOK, NoRequest
  <2>4. ask[s].alias \in Alias
    BY <1>1, <2>2, <2>3, RequestFacts
  <2>5. SUFFICES ASSUME step[s] = "ok" PROVE FALSE
    OBVIOUS
  <2>6. ask[s] \in Requests /\ "alias" \in ask[s].wants
    BY <2>1, <2>4, <2>5, RequestFacts DEF Control
  <2>7. Applied("alias", s)
    BY <2>1, <2>5, <2>6 DEF Control
  <2>8. QED
    BY <1>1, <2>7 DEF IInv, OneHolder
<1>2. IInv => AliasOnce
  BY <1>1 DEF AliasOnce
<1>3. QED
  BY <1>2, Invariance, PTL

(* An account that is reported or named could pay for what it was made of. *)
THEOREM NothingOnCreditAlways == Spec => []NothingOnCredit
<1>1. ASSUME IInv, NEW r \in Req, step[r] = "ok" \/ \E i \in Item : named[i] = r
      PROVE  (IF "script" \in ask[r].wants THEN ScriptFee ELSE 0)
               + (IF "data" \in ask[r].wants THEN DataFee ELSE 0) <= Grant(r)
  <2>1. /\ Control(r) /\ Patching(r) /\ Credit(r) /\ env \in Configurations
        /\ ask[r] \in Requests \cup {NoRequest}
    BY <1>1 DEF IInv, TypeOK
  <2>2. \A k \in ask[r].wants : Applied(k, r)
    <3>1. CASE step[r] = "ok"
      BY <2>1, <3>1 DEF Control
    <3>2. CASE \E i \in Item : named[i] = r
      <4>1. patch[r] = "renamed"
        BY <1>1, <3>2, ProvisioningAssumption DEF IInv, Naming
      <4>2. QED
        BY <2>1, <4>1 DEF Patching
    <3>3. QED
      BY <1>1, <3>1, <3>2
  <2>3. \A k \in Kinds : Applied(k, r) => k \in ask[r].wants
    BY <2>1 DEF Control, Applied
  <2>4. /\ Applied("script", r) <=> "script" \in ask[r].wants
        /\ Applied("data", r) <=> "data" \in ask[r].wants
    BY <2>2, <2>3 DEF Kinds
  <2>5. QED
    BY <2>1, <2>4 DEF Credit, Spent
<1>2. IInv => NothingOnCredit
  BY <1>1 DEF NothingOnCredit
<1>3. QED
  BY <1>2, Invariance, PTL
-----------------------------------------------------------------------------
(* The refinement: what StagedPromise sees of the calls (create of users   *)
(* and devices, connectExisting, faucet, setup).                           *)
Want == [r \in Req |-> Wanted(r)]
Have == [r \in Req |-> InPlace(r)]
Told == [r \in Req |-> step[r] = "ok"]

(* Nothing is asked for, in place or told at the start.                    *)
LEMMA InitPromise == Init => P!Init
<1> SUFFICES ASSUME Init PROVE P!Init
  OBVIOUS
<1>1. Want = [r \in Req |-> {}]
  BY DEF Init, Want, Wanted, NoRequest
<1>2. Have = [r \in Req |-> {}]
  <2>1. \A r \in Req, k \in Kinds : ~Applied(k, r)
    BY DEF Init, B!Init, Applied, Tx
  <2>2. \A r \in Req, i \in Item : named[i] # r
    BY ProvisioningAssumption DEF Init
  <2>3. QED
    BY <2>1, <2>2 DEF Have, InPlace
<1>3. Told = [r \in Req |-> FALSE]
  <2>1. \A r \in Req : (step[r] = "ok") = FALSE
    BY DEF Init
  <2>2. QED
    BY <2>1, Zenon DEF Told
<1>4. QED
  BY <1>1, <1>2, <1>3, Zenon DEF P!Init, Want, Have, Told

(* A step that asks for nothing, puts nothing in a block, names no item    *)
(* and reports no success cannot be seen.                                  *)
LEMMA Unseen ==
  ASSUME ask' = ask, named' = named,
         \A x \in Req, k \in Kinds : Applied(k, x)' <=> Applied(k, x),
         \A x \in Req : step'[x] = "ok" <=> step[x] = "ok"
  PROVE  UNCHANGED P!vars
<1>1. Want' = Want
  BY DEF Want, Wanted
<1>2. Have' = Have
  BY DEF Have, InPlace
<1>3. Told' = Told
  <2>1. \A x \in Req : (step'[x] = "ok") = (step[x] = "ok")
    OBVIOUS
  <2>2. QED
    BY <2>1, Zenon DEF Told
<1>4. QED
  BY <1>1, <1>2, <1>3, Zenon DEF P!vars, Want, Have, Told

(* A call that begins is the promise's Ask.                                *)
LEMMA StartAsks ==
  ASSUME IInv, NEW r \in Req, Start(r)
  PROVE  P!Ask(r)
<1>1. TypeOK /\ B!TypeOK /\ B!OkMeansApplied /\ Control(r) /\ named' = named
  BY DEF IInv, TypeOK, Start
<1>2. PICK q \in Requests :
        /\ ask' = [ask EXCEPT ![r] = q]
        /\ \/ GoTo(r, "compiling") /\ UNCHANGED <<fate, reply>>
           \/ GoTo(r, "sending") /\ B!Submit(Stage(q, {}) \X {r})
  BY DEF Start
<1>3. q.wants \subseteq Kinds /\ q.wants # {} /\ ask[r] = NoRequest /\ step[r] = "idle"
  BY <1>1, RequestFacts DEF Start, Control
<1>4. PICK S : S \subseteq CallPieces /\ S # {} /\ S = Wanted(r)'
  <2>1. ask'[r] = q
    BY <1>1, <1>2 DEF TypeOK
  <2>2. QED
    BY <1>3, <2>1 DEF Wanted, CallPieces
<1>5. Want[r] = {} /\ Want' = [Want EXCEPT ![r] = S]
  <2>1. Want[r] = {}
    BY <1>3 DEF Want, Wanted, NoRequest
  <2>2. \A x \in Req : Wanted(x)' = (IF x = r THEN S ELSE Want[x])
    BY <1>1, <1>2, <1>4 DEF Want, Wanted, TypeOK
  <2>3. Want' = [x \in Req |-> IF x = r THEN S ELSE Want[x]]
    BY <2>2, Zenon DEF Want
  <2>4. [Want EXCEPT ![r] = S] = [x \in Req |-> IF x = r THEN S ELSE Want[x]]
    BY DEF Want
  <2>5. QED
    BY <2>1, <2>3, <2>4
<1>6. \A x \in Req, k \in Kinds : Applied(k, x)' <=> Applied(k, x)
  <2>1. CASE UNCHANGED fate
    BY <2>1 DEF Applied
  <2>2. CASE B!Submit(Stage(q, {}) \X {r})
    <3>1. Stage(q, {}) \X {r} \subseteq Tx
      BY <1>3 DEF Stage, Tx
    <3>2. \A t \in Tx : fate'[t] = "applied" <=> fate[t] = "applied"
      BY <1>1, <2>2, <3>1, SubmitFacts
    <3>3. QED
      BY <3>2 DEF Applied, Tx
  <2>3. QED
    BY <1>2, <2>1, <2>2
<1>7. Have' = Have
  BY <1>1, <1>6 DEF Have, InPlace
<1>8. \A x \in Req : (step'[x] = "ok") = (step[x] = "ok")
  BY <1>1, <1>2, <1>3 DEF GoTo, TypeOK
<1>9. Told' = Told
  BY <1>8, Zenon DEF Told
<1>10. Want'[r] = S
  BY <1>5 DEF Want
<1>11. QED
  BY <1>4, <1>5, <1>7, <1>9, <1>10 DEF P!Ask, Want, Have, Told

(* One more piece in place.                                                *)
LEMMA OneArrives ==
  ASSUME NEW r \in Req, NEW p, \A x \in Req : InPlace(x)' = (IF x = r THEN Have[r] \cup {p} ELSE Have[x])
  PROVE  Have' = [Have EXCEPT ![r] = Have[r] \cup {p}]
<1>1. Have' = [x \in Req |-> IF x = r THEN Have[r] \cup {p} ELSE Have[x]]
  BY Zenon DEF Have
<1>2. [Have EXCEPT ![r] = Have[r] \cup {p}] = [x \in Req |-> IF x = r THEN Have[r] \cup {p} ELSE Have[x]]
  BY DEF Have
<1>3. QED
  BY <1>1, <1>2

(* A transaction that gets into a block is the promise's Arrive: what is   *)
(* ordered there is awaited here.                                          *)
LEMMA IncludeArrives ==
  ASSUME IInv, NEW r \in Req, Include(r)
  PROVE  \E k \in CallPieces : P!Arrive(r, k)
<1>1. UNCHANGED <<env, ask, step, patch, named>>
  BY DEF Include
<1>2. PICK k \in Kinds : B!Apply(<<k, r>>)
  BY DEF Include, PaidByDapp, SetScript, InsertData, SetAlias, Kinds
<1>3. /\ k \in ask[r].wants /\ ask[r] \in Requests /\ ~Applied(k, r) /\ Applied(k, r)'
      /\ \A j \in ask[r].wants : <<j, k>> \in Awaited => Applied(j, r)
      /\ \A j \in Kinds, x \in Req : <<j, x>> # <<k, r>> => (Applied(j, x)' <=> Applied(j, x))
  BY <1>1, <1>2, IncludeFacts
<1>4. ask[r].wants \subseteq Kinds /\ k # "name"
  BY <1>3, RequestFacts DEF Kinds
<1>5. Have' = [Have EXCEPT ![r] = Have[r] \cup {k}]
  <2>1. \A x \in Req : x # r => InPlace(x)' = Have[x]
    BY <1>1, <1>3 DEF Have, InPlace
  <2>2. InPlace(r)' = Have[r] \cup {k}
    BY <1>1, <1>3 DEF Have, InPlace
  <2>3. QED
    BY <2>1, <2>2, OneArrives
<1>6. k \in Want[r] \ Have[r]
  BY <1>3, <1>4 DEF Want, Wanted, Have, InPlace
<1>7. \A o \in Want[r] : <<o, k>> \in AccountOrder => o \in Have[r]
  <2>1. \A o : <<o, k>> \in AccountOrder => <<o, k>> \in Awaited /\ o # "name"
    BY <1>4 DEF AccountOrder, Awaited
  <2>2. QED
    BY <1>3, <1>4, <2>1 DEF Want, Wanted, Have, InPlace
<1>8. Want' = Want /\ Told' = Told
  BY <1>1 DEF Want, Wanted, Told
<1>9. P!Arrive(r, k)
  BY <1>5, <1>6, <1>7, <1>8 DEF P!Arrive, Want, Have, Told
<1>10. QED
  BY <1>9 DEF CallPieces

(* The supplier's renaming is the promise's Arrive of the name: the call   *)
(* was sent when everything else was in place.                             *)
LEMMA PatchedArrives ==
  ASSUME IInv, NEW r \in Req, Patched(r), named' # named
  PROVE  \E p \in CallPieces : P!Arrive(r, p)
<1>1. /\ TypeOK /\ Naming /\ Control(r) /\ Patching(r) /\ patch[r] = "sent"
      /\ UNCHANGED <<env, ask, step, aliases, fate, reply>>
      /\ named[ask[r].item] = "nobody" /\ named' = [named EXCEPT ![ask[r].item] = r]
  BY DEF IInv, Patched
<1>2. ask[r] \in Requests /\ ask[r].op = "replace" /\ \A k \in ask[r].wants : Applied(k, r)
  BY <1>1 DEF Patching, TypeOK, NoRequest
<1>3. ask[r].item \in Item /\ ask[r].wants \subseteq Kinds /\ "name" \notin Kinds
  BY <1>2, RequestFacts DEF Kinds
<1>4. \A i \in Item : named[i] # r
  BY <1>1, ProvisioningAssumption DEF Naming
<1>5. \A x \in Req : (\E i \in Item : named'[i] = x) <=> x = r \/ \E i \in Item : named[i] = x
  BY <1>1, <1>3, ProvisioningAssumption DEF TypeOK
<1>6. Have' = [Have EXCEPT ![r] = Have[r] \cup {"name"}]
  <2>1. \A x \in Req : InPlace(x)' = (IF x = r THEN Have[r] \cup {"name"} ELSE Have[x])
    BY <1>1, <1>5 DEF Have, InPlace, Applied
  <2>2. QED
    BY <2>1, OneArrives
<1>7. "name" \in Want[r] \ Have[r]
  BY <1>2, <1>3, <1>4 DEF Want, Wanted, Have, InPlace
<1>8. \A o \in Want[r] : <<o, "name">> \in AccountOrder => o \in Have[r]
  <2>1. \A o : <<o, "name">> \in AccountOrder => o \in Kinds
    BY DEF AccountOrder
  <2>2. QED
    BY <1>2, <1>3, <2>1 DEF Want, Wanted, Have, InPlace
<1>9. Want' = Want /\ Told' = Told
  BY <1>1 DEF Want, Wanted, Told
<1>10. P!Arrive(r, "name")
  BY <1>6, <1>7, <1>8, <1>9 DEF P!Arrive, Want, Have, Told
<1>11. QED
  BY <1>10 DEF CallPieces

(* A call is told of its account when nothing is missing: at the end of    *)
(* the last stage, or when the item is renamed.                            *)
LEMMA SuccessTells ==
  ASSUME IInv, NEW r \in Req, Finish(r) \/ RenameEnds(r), step'[r] = "ok"
  PROVE  P!Tell(r)
<1>1. /\ TypeOK /\ B!TypeOK /\ B!OkMeansApplied /\ Control(r) /\ Patching(r) /\ Naming
      /\ UNCHANGED <<ask, named, fate>>
  BY DEF IInv, TypeOK, Finish, RenameEnds
<1>2. step[r] \in {"sending", "renaming"} /\ step' = [step EXCEPT ![r] = "ok"]
  BY <1>1 DEF Finish, RenameEnds, GoTo, TypeOK
<1>3. ask[r] \in Requests
  BY <1>1, <1>2 DEF Control
<1>4. ask[r].wants \subseteq Kinds /\ ask[r].wants # {} /\ ask[r].item \in Item
  BY <1>3, RequestFacts
<1>5. \A k \in ask[r].wants : Applied(k, r)
  <2>1. CASE Finish(r)
    BY <2>1, NothingDue DEF Finish
  <2>2. CASE RenameEnds(r)
    BY <1>1, <2>2 DEF RenameEnds, Control
  <2>3. QED
    BY <2>1, <2>2
<1>6. \A k \in Kinds : Applied(k, r) => k \in ask[r].wants
  BY <1>1 DEF Control, Applied
<1>7. ask[r].op = "replace" <=> \E i \in Item : named[i] = r
  <2>1. CASE Finish(r)
    <3>1. ask[r].op # "replace"
      BY <1>1, <2>1 DEF Finish, GoTo, TypeOK
    <3>2. \A i \in Item : named[i] # r
      BY <1>1, <3>1, ProvisioningAssumption DEF Naming, Patching
    <3>3. QED
      BY <3>1, <3>2
  <2>2. CASE RenameEnds(r)
    <3>1. patch[r] = "renamed"
      BY <1>1, <2>2 DEF RenameEnds, Renamed, GoTo, TypeOK
    <3>2. QED
      BY <1>1, <1>4, <3>1 DEF Patching
  <2>3. QED
    BY <2>1, <2>2
<1>8. Want[r] # {} /\ Have[r] = Want[r]
  BY <1>4, <1>5, <1>6, <1>7 DEF Want, Wanted, Have, InPlace
<1>9. Want' = Want /\ Have' = Have
  BY <1>1 DEF Want, Wanted, Have, InPlace, Applied
<1>10. Told' = [Told EXCEPT ![r] = TRUE]
  <2>1. \A x \in Req : (step'[x] = "ok") = (IF x = r THEN TRUE ELSE Told[x])
    BY <1>1, <1>2 DEF Told, TypeOK
  <2>2. Told' = [x \in Req |-> IF x = r THEN TRUE ELSE Told[x]]
    BY <2>1, Zenon DEF Told
  <2>3. [Told EXCEPT ![r] = TRUE] = [x \in Req |-> IF x = r THEN TRUE ELSE Told[x]]
    BY DEF Told
  <2>4. QED
    BY <2>2, <2>3
<1>11. QED
  BY <1>8, <1>9, <1>10 DEF P!Tell, Want, Have, Told

(* Every other step of a call, of the supplier or of broadcast.            *)
LEMMA OthersAreUnseen ==
  ASSUME IInv,
         \/ \E r \in Req : Refuse(r) \/ Continue(r) \/ FileRead(r) \/ StageFails(r)
         \/ \E r \in Req : Patched(r) /\ named' = named
         \/ \E r \in Req : (Finish(r) \/ RenameEnds(r)) /\ step'[r] # "ok"
         \/ \E t \in Tx : Outcome(t)
         \/ Crash
         \/ UNCHANGED vars
  PROVE  UNCHANGED P!vars
<1>1. TypeOK /\ B!TypeOK /\ B!OkMeansApplied /\ ask' = ask /\ named' = named
  BY DEF IInv, TypeOK, Refuse, Continue, FileRead, StageFails, Patched, Finish, RenameEnds,
         Outcome, Crash, vars
<1>2. \A x \in Req : step'[x] = "ok" <=> step[x] = "ok"
  BY <1>1 DEF TypeOK, Refuse, Continue, FileRead, StageFails, Patched, Finish, RenameEnds,
         Outcome, Crash, vars, GoTo, Busy
<1>3. \A x \in Req, k \in Kinds : Applied(k, x)' <=> Applied(k, x)
  <2>1. CASE UNCHANGED fate
    BY <2>1 DEF Applied
  <2>2. ASSUME NEW r \in Req, Continue(r) \/ FileRead(r), B!Submit(Due(r) \X {r})
        PROVE  \A x \in Req, k \in Kinds : Applied(k, x)' <=> Applied(k, x)
    <3>1. ask[r].wants \subseteq Kinds
      BY <1>1, RequestFacts DEF TypeOK, NoRequest
    <3>2. Due(r) \X {r} \subseteq Tx
      BY <3>1 DEF Due, Stage, Tx
    <3>3. \A t \in Tx : fate'[t] = "applied" <=> fate[t] = "applied"
      BY <1>1, <2>2, <3>2, SubmitFacts
    <3>4. QED
      BY <3>3 DEF Applied, Tx
  <2>3. ASSUME NEW t \in Tx, Outcome(t) PROVE UNCHANGED fate
    BY <1>1, <2>3, OutcomeFacts DEF Outcome
  <2>4. QED
    BY <2>1, <2>2, <2>3 DEF Refuse, Continue, FileRead, StageFails, Patched, Finish, RenameEnds,
         Crash, vars
<1>4. QED
  BY <1>1, <1>2, <1>3, Unseen

(* The calls that make accounts implement StagedPromise, for any           *)
(* requests, aliases, items, grants and fees.                              *)
THEOREM Refinement == Spec => KeepsPromise
<1>1. ASSUME IInv, [Next]_vars PROVE [P!Next]_(P!vars)
  <2>1. ASSUME NEW r \in Req, Start(r) PROVE P!Next
    BY <1>1, <2>1, StartAsks DEF P!Next
  <2>2. ASSUME NEW r \in Req, Include(r) PROVE P!Next
    BY <1>1, <2>2, IncludeArrives DEF P!Next
  <2>3. ASSUME NEW r \in Req, Finish(r) \/ RenameEnds(r), step'[r] = "ok" PROVE P!Next
    BY <1>1, <2>3, SuccessTells DEF P!Next
  <2>4. ASSUME NEW r \in Req, Patched(r), named' # named PROVE P!Next
    BY <1>1, <2>4, PatchedArrives DEF P!Next
  <2>5. QED
    BY <1>1, <2>1, <2>2, <2>3, <2>4, OthersAreUnseen DEF Next, Handle
<1>2. QED
  BY <1>1, InitPromise, Invariance, PTL DEF Spec, KeepsPromise, P!Spec

-----------------------------------------------------------------------------
(* Submitting some transactions, or none, is a step of Broadcast.          *)
LEMMA SubmitIsNext ==
  ASSUME B!TypeOK, NEW T, T \subseteq Tx, B!Submit(T)
  PROVE  [B!Next]_(B!vars)
<1>1. CASE T = {}
  BY <1>1 DEF B!Submit, B!TypeOK, B!vars
<1>2. CASE T # {}
  BY <1>2 DEF B!Next
<1>3. QED
  BY <1>1, <1>2

(* Every transaction goes through broadcast: what Broadcast_proofs says of *)
(* it - an id is that of a transaction in a block, an answer and a fate    *)
(* are final - is so for all transactions of this module.                  *)
THEOREM SendsByBroadcast == Spec => B!Spec
<1>1. ASSUME IInv, [Next]_vars PROVE [B!Next]_(B!vars)
  <2>1. TypeOK /\ B!TypeOK
    BY <1>1 DEF IInv, TypeOK
  <2>2. ASSUME NEW r \in Req, NEW S, S \subseteq Kinds, B!Submit(S \X {r})
        PROVE  [B!Next]_(B!vars)
    BY <2>1, <2>2, SubmitIsNext DEF Tx
  <2>3. ASSUME NEW r \in Req, Start(r) PROVE [B!Next]_(B!vars)
    <3>1. PICK q \in Requests : \/ UNCHANGED <<fate, reply>>
                               \/ B!Submit(Stage(q, {}) \X {r})
      BY <2>3 DEF Start
    <3>2. Stage(q, {}) \subseteq Kinds
      BY RequestFacts, StageFacts
    <3>3. QED
      BY <2>2, <3>1, <3>2 DEF B!vars
  <2>4. ASSUME NEW r \in Req, Continue(r) \/ FileRead(r) PROVE [B!Next]_(B!vars)
    <3>1. UNCHANGED <<fate, reply>> \/ B!Submit(Due(r) \X {r})
      BY <2>4 DEF Continue, FileRead
    <3>2. Due(r) \subseteq Kinds
      BY <2>1, RequestFacts DEF TypeOK, NoRequest, Due, Stage
    <3>3. QED
      BY <2>2, <3>1, <3>2 DEF B!vars
  <2>5. ASSUME NEW r \in Req, Include(r) PROVE B!Next
    <3>1. PICK k \in Kinds : B!Apply(<<k, r>>)
      BY <2>5 DEF Include, PaidByDapp, SetScript, InsertData, SetAlias, Kinds
    <3>2. QED
      BY <3>1 DEF B!Next, B!Progress, Tx
  <2>6. ASSUME NEW t \in Tx, Outcome(t) PROVE B!Next
    BY <2>6 DEF Outcome, B!Next, B!Progress
  <2>7. QED
    BY <1>1, <2>3, <2>4, <2>5, <2>6
       DEF Next, Handle, Refuse, StageFails, Finish, RenameEnds, Patched, Crash, vars, B!vars
<1>2. Init => B!Init
  BY DEF Init
<1>3. QED
  BY <1>1, <1>2, Invariance, PTL DEF Spec, B!Spec
=============================================================================

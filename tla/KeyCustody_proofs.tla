-------------------------- MODULE KeyCustody_proofs ---------------------------
(***************************************************************************)
(* KeyCustody, for any requests, keys, devices and organisations.          *)
(***************************************************************************)
EXTENDS KeyCustody, TLAPS

-----------------------------------------------------------------------------
(* What a well-formed request names.                                       *)
LEMMA RequestFacts ==
  ASSUME NEW q \in Requests, WellFormed(q)
  PROVE  /\ q.key \in Key
         /\ q.op \in {"transfer", "burn", "show", "addKey", "removeKey", "retire", "enrol"}
         /\ q.op = "transfer" => q.at \in Recipient
         /\ q.op = "burn" => q.at = Dapp
         /\ q.op = "retire" => q.at \in Organisation /\ DeviceFor(q) \in Device
         /\ q.op \in {"addKey", "removeKey"} => q.at \in Device /\ DeviceFor(q) = q.at
         /\ q.op = "enrol" => q.at \in Organisation
  BY KeyAssumption
     DEF Requests, WellFormed, DeviceFor, TransferRequest, BurnRequest, ShowRequest, AddKeyRequest,
         RemoveKeyRequest, RetireRequest, EnrolRequest

(* The transactions of a request are its own, one of each kind.            *)
LEMMA TxFacts ==
  ASSUME NEW op, NEW r \in Req
  PROVE  /\ KindsOf(op) \subseteq Kinds
         /\ TxFor(op, r) \subseteq Tx
         /\ \A n \in Kinds, s \in Req : <<n, s>> \in Tx
         /\ \A n \in Kinds, s \in Req : <<n, s>> \in TxFor(op, r) => n \in KindsOf(op) /\ s = r
         /\ \A n \in KindsOf(op) : <<n, r>> \in TxFor(op, r)
<1>1. KindsOf(op) \subseteq Kinds
  BY Zenon DEF KindsOf, Kinds
<1>2. QED
  BY <1>1 DEF TxFor, Tx

(* Which requests send which kind.                                         *)
LEMMA KindFacts ==
  ASSUME NEW op
  PROVE  /\ "move" \in KindsOf(op) => op = "transfer"
         /\ "burn" \in KindsOf(op) => op \in {"burn", "retire"}
         /\ "list" \in KindsOf(op) => op = "addKey"
         /\ "unlist" \in KindsOf(op) => op \in {"removeKey", "retire"}
         /\ "verify" \in KindsOf(op) => op = "enrol"
  BY DEF KindsOf

(* A handler submits its transactions: no reply and no other fate changes. *)
LEMMA SubmitFacts ==
  ASSUME B!TypeOK, B!OkMeansApplied, NEW T, T \subseteq Tx, B!Submit(T)
  PROVE  /\ B!TypeOK' /\ B!OkMeansApplied' /\ reply' = reply
         /\ \A t \in T : fate[t] = "none" /\ fate'[t] = "sent"
         /\ \A t \in Tx : t \notin T => fate'[t] = fate[t]
  BY DEF B!TypeOK, B!Submit, B!OkMeansApplied, B!Fates, B!Replies

(* A block includes one transaction.                                       *)
LEMMA ApplyFacts ==
  ASSUME B!TypeOK, B!OkMeansApplied, NEW u \in Tx, B!Apply(u)
  PROVE  /\ B!TypeOK' /\ B!OkMeansApplied' /\ reply' = reply
         /\ fate[u] = "sent" /\ fate'[u] = "applied"
         /\ \A t \in Tx : t # u => fate'[t] = fate[t]
  BY DEF B!TypeOK, B!Apply, B!OkMeansApplied, B!Fates, B!Replies

(* A broadcast call ends, and takes no earlier answer back.                *)
LEMMA OutcomeFacts ==
  ASSUME B!TypeOK, B!OkMeansApplied, NEW u \in Tx, B!Confirm(u) \/ B!Fail(u)
  PROVE  /\ B!TypeOK' /\ B!OkMeansApplied' /\ fate' = fate
         /\ \A t \in Tx : reply[t] # "none" => reply'[t] = reply[t]
<1> USE DEF B!TypeOK, B!OkMeansApplied, B!Fates, B!Replies
<1>1. CASE B!Confirm(u)
  BY <1>1 DEF B!Confirm
<1>2. CASE B!Fail(u)
  BY <1>2 DEF B!Fail
<1>3. QED
  BY <1>1, <1>2

-----------------------------------------------------------------------------
(* Nothing has been asked and nothing submitted at the start.              *)
LEMMA InitIInv == Init => IInv
<1> SUFFICES ASSUME Init PROVE IInv
  OBVIOUS
<1>1. B!TypeOK /\ B!OkMeansApplied
  BY DEF Init, B!Init, B!TypeOK, B!OkMeansApplied, B!Fates, B!Replies
<1>2. \A n \in Kinds, r \in Req : fate[<<n, r>>] = "none"
  BY DEF Init, B!Init, Tx
<1>3. told \in [Req -> BOOLEAN] /\ \A r \in Req : ~told[r]
  BY Zenon DEF Init
<1>4. TypeOK
  BY <1>1, <1>3 DEF Init, TypeOK, Steps, Looks, Entries, Holder
<1>5. \A r \in Req : fate[<<"burn", r>>] = "none" /\ fate[<<"unlist", r>>] = "none"
  BY <1>2 DEF Kinds
<1>6. \A r \in Req : Control(r)
  BY <1>2, <1>3 DEF Control, Init
<1>7. BurntOnce /\ \A r \in Req : Burnt(r) /\ Unlisted(r)
  BY <1>5 DEF BurntOnce, Burnt, Unlisted
<1>8. QED
  BY <1>1, <1>4, <1>6, <1>7 DEF IInv

-----------------------------------------------------------------------------
(* A request that does not move keeps what it knows.                       *)
LEMMA ControlKept ==
  ASSUME NEW x \in Req, Control(x), ask'[x] = ask[x], step'[x] = step[x], told'[x] = told[x],
         \A n \in Kinds : fate'[<<n, x>>] = "none" <=> fate[<<n, x>>] = "none",
         \A t \in Tx : reply[t] = "ok" => reply'[t] = "ok"
  PROVE  Control(x)'
<1>1. Sent(x)' = Sent(x) /\ Sent(x) \subseteq Tx
  BY TxFacts DEF Sent, TxFor
<1>2. QED
  BY <1>1 DEF Control

(* Where nothing gets into a block, nothing is burnt or listed.            *)
LEMMA FactsKept ==
  ASSUME IInv, UNCHANGED <<owner, listed>>,
         \A t \in Tx : fate'[t] = "applied" <=> fate[t] = "applied",
         \A r \in Req, n \in Kinds : fate[<<n, r>>] = "applied" => ask'[r] = ask[r]
  PROVE  BurntOnce' /\ \A r \in Req : Burnt(r)' /\ Unlisted(r)'
<1>1. \A r \in Req, n \in {"burn", "unlist", "list"} :
        /\ fate'[<<n, r>>] = "applied" <=> fate[<<n, r>>] = "applied"
        /\ fate[<<n, r>>] = "applied" => ask'[r] = ask[r]
  BY DEF Kinds, Tx
<1>2. BurntOnce'
  <2> SUFFICES ASSUME NEW r \in Req, NEW q \in Req, fate'[<<"burn", r>>] = "applied",
                      fate'[<<"burn", q>>] = "applied", ask'[r].key = ask'[q].key
               PROVE  r = q
    BY DEF BurntOnce
  <2>1. ask'[r] = ask[r] /\ ask'[q] = ask[q]
    BY <1>1
  <2>2. QED
    BY <1>1, <2>1 DEF IInv, BurntOnce
<1>3. ASSUME NEW r \in Req PROVE Burnt(r)'
  BY <1>1 DEF IInv, Burnt
<1>4. ASSUME NEW r \in Req PROVE Unlisted(r)'
  <2> SUFFICES ASSUME fate'[<<"unlist", r>>] = "applied"
               PROVE  \/ <<DeviceFor(ask[r]), ask[r].key>> \notin listed
                      \/ \E s \in Req : ListedBy(s, DeviceFor(ask[r]), ask[r].key)'
    BY <1>1 DEF Unlisted, ListedBy
  <2>1. Unlisted(r) /\ fate[<<"unlist", r>>] = "applied"
    BY <1>1 DEF IInv
  <2>2. ASSUME NEW s \in Req, ListedBy(s, DeviceFor(ask[r]), ask[r].key)
        PROVE  ListedBy(s, DeviceFor(ask[r]), ask[r].key)'
    BY <1>1, <2>2, <2>1 DEF ListedBy
  <2>3. QED
    BY <2>1, <2>2 DEF Unlisted
<1>5. QED
  BY <1>2, <1>3, <1>4

(* A step of one request's handler, given what it does to that request.    *)
LEMMA OneMoves ==
  ASSUME IInv, NEW r \in Req, TypeOK', B!OkMeansApplied', Control(r)', UNCHANGED chain,
         reply' = reply,
         \A x \in Req : x # r => ask'[x] = ask[x] /\ step'[x] = step[x] /\ told'[x] = told[x],
         \A x \in Req, n \in Kinds : x # r => fate'[<<n, x>>] = fate[<<n, x>>],
         \A n \in Kinds : fate'[<<n, r>>] = "applied" <=> fate[<<n, r>>] = "applied",
         \A n \in Kinds : fate[<<n, r>>] = "applied" => ask'[r] = ask[r]
  PROVE  IInv'
<1>1. \A x \in Req : Control(x)'
  <2> SUFFICES ASSUME NEW x \in Req, x # r PROVE Control(x)'
    OBVIOUS
  <2>1. Control(x)
    BY DEF IInv
  <2>2. QED
    BY <2>1, ControlKept
<1>2. \A t \in Tx : fate'[t] = "applied" <=> fate[t] = "applied"
  BY DEF Tx
<1>3. \A x \in Req, n \in Kinds : fate[<<n, x>>] = "applied" => ask'[x] = ask[x]
  OBVIOUS
<1>4. BurntOnce' /\ \A x \in Req : Burnt(x)' /\ Unlisted(x)'
  BY <1>2, <1>3, FactsKept DEF chain
<1>5. QED
  BY <1>1, <1>4 DEF IInv

-----------------------------------------------------------------------------
(* Control of a request over its own steps.                                *)

(* A handler that submits: the request was known, and nothing was sent.    *)
LEMMA SubmitControl ==
  ASSUME IInv, NEW r \in Req, StartSending(r) \/ SendAfterLook(r)
  PROVE  IInv'
<1>1. TypeOK /\ B!TypeOK /\ B!OkMeansApplied /\ Control(r)
  BY DEF IInv, TypeOK
<1>2. \A n \in Kinds : fate[<<n, r>>] = "none"
  BY <1>1 DEF StartSending, SendAfterLook, Control
<1>3. /\ ask'[r] \in Requests /\ WellFormed(ask'[r])
      /\ ask' \in [Req -> Requests \cup {NoRequest}]
      /\ \A x \in Req : x # r => ask'[x] = ask[x]
  <2>1. CASE StartSending(r)
    BY <1>1, <2>1 DEF StartSending, TypeOK, Requests
  <2>2. CASE SendAfterLook(r)
    BY <1>1, <2>2 DEF SendAfterLook, Control, TypeOK
  <2>3. QED
    BY <2>1, <2>2
<1>4. B!Submit(TxFor(ask'[r].op, r))
  BY <1>1 DEF StartSending, SendAfterLook, Sent, TypeOK
<1>5. /\ step' = [step EXCEPT ![r] = "sending"] /\ told' = told /\ UNCHANGED chain
      /\ look' \in [Req -> Looks]
  BY <1>1 DEF StartSending, SendAfterLook, GoTo, TypeOK, Looks
<1>6. PICK op : op = ask'[r].op
  OBVIOUS
<1>7. TxFor(op, r) \subseteq Tx /\ B!Submit(TxFor(op, r))
  BY <1>4, <1>6, TxFacts
<1>8. /\ B!TypeOK' /\ B!OkMeansApplied' /\ reply' = reply
      /\ \A t \in TxFor(op, r) : fate'[t] = "sent"
      /\ \A t \in Tx : t \notin TxFor(op, r) => fate'[t] = fate[t]
  BY <1>1, <1>7, SubmitFacts
<1>9. TypeOK'
  BY <1>1, <1>3, <1>5, <1>8 DEF TypeOK, Steps, chain
<1>10. \A x \in Req, n \in Kinds : x # r => fate'[<<n, x>>] = fate[<<n, x>>]
  BY <1>8, TxFacts
<1>11. \A n \in Kinds : fate'[<<n, r>>] = "none" \/ (fate'[<<n, r>>] = "sent" /\ n \in KindsOf(op))
  BY <1>2, <1>8, TxFacts
<1>12. Control(r)'
  <2>1. step'[r] = "sending" /\ ~told'[r]
    BY <1>1, <1>5 DEF Control, TypeOK, StartSending, SendAfterLook
  <2>2. \A n \in Kinds : fate'[<<n, r>>] # "none" => n \in KindsOf(ask'[r].op)
    BY <1>6, <1>11
  <2>3. QED
    BY <1>3, <2>1, <2>2 DEF Control
<1>13. \A x \in Req : x # r => ask'[x] = ask[x] /\ step'[x] = step[x] /\ told'[x] = told[x]
  BY <1>1, <1>3, <1>5 DEF TypeOK
<1>14. \A n \in Kinds : fate[<<n, r>>] # "applied" /\ fate'[<<n, r>>] # "applied"
  BY <1>2, <1>11
<1>15. QED
  BY <1>5, <1>8, <1>9, <1>10, <1>12, <1>13, <1>14, OneMoves

(* A handler that submits nothing, given what it does to its own request.  *)
LEMMA QuietControl ==
  ASSUME IInv, NEW r \in Req, TypeOK', Control(r)', UNCHANGED <<fate, reply>>, UNCHANGED chain,
         \A x \in Req : x # r => ask'[x] = ask[x] /\ step'[x] = step[x] /\ told'[x] = told[x],
         \A n \in Kinds : fate[<<n, r>>] = "applied" => ask'[r] = ask[r]
  PROVE  IInv'
<1>1. B!OkMeansApplied'
  BY DEF IInv, B!OkMeansApplied
<1>2. QED
  BY <1>1, OneMoves

(* The steps that submit nothing.                                          *)
LEMMA QuietSteps ==
  ASSUME IInv, NEW r \in Req,
         \/ Refuse(r) \/ StartLooking(r) \/ NodeAnswers(r) \/ ShowEnds(r)
         \/ TurnDown(r) \/ SendingEnds(r) \/ RequestFails(r)
  PROVE  IInv'
<1>1. TypeOK /\ B!TypeOK /\ Control(r) /\ told \in [Req -> BOOLEAN]
  BY DEF IInv, TypeOK
<1>2. UNCHANGED <<fate, reply>> /\ UNCHANGED chain
  BY DEF Refuse, StartLooking, NodeAnswers, ShowEnds, TurnDown, SendingEnds, RequestFails
<1>3. \A x \in Req : x # r => ask'[x] = ask[x] /\ step'[x] = step[x] /\ told'[x] = told[x]
  BY <1>1 DEF Refuse, StartLooking, NodeAnswers, ShowEnds, TurnDown, SendingEnds, RequestFails,
              GoTo, TypeOK
<1>4. B!TypeOK'
  BY <1>1, <1>2 DEF B!TypeOK
<1>5. ASSUME step' \in [Req -> Steps], look' \in [Req -> Looks], told' \in [Req -> BOOLEAN],
             ask' \in [Req -> Requests \cup {NoRequest}], Control(r)',
             \A n \in Kinds : fate[<<n, r>>] = "applied" => ask'[r] = ask[r]
      PROVE  IInv'
  <2>1. TypeOK'
    BY <1>1, <1>2, <1>4, <1>5 DEF TypeOK, chain
  <2>2. QED
    BY <1>2, <1>3, <1>5, <2>1, QuietControl
<1> USE DEF Steps, Looks, GoTo
<1>6. CASE Refuse(r)
  <2>1. Control(r)'
    BY <1>1, <1>6 DEF Refuse, Control, TypeOK, Sent, TxFor
  <2>2. QED
    BY <1>1, <1>5, <1>6, <2>1 DEF Refuse, TypeOK, Answers
<1>7. CASE StartLooking(r)
  <2>1. ask'[r] \in Requests /\ WellFormed(ask'[r])
    BY <1>1, <1>7 DEF StartLooking, TypeOK, Requests
  <2>2. /\ \A n \in Kinds : fate'[<<n, r>>] = "none"
        /\ step'[r] = "looking" /\ ~told'[r]
    BY <1>1, <1>7 DEF StartLooking, Control, TypeOK
  <2>3. Control(r)'
    BY <2>1, <2>2 DEF Control
  <2>4. QED
    BY <1>1, <1>2, <1>5, <1>7, <2>1, <2>2, <2>3 DEF StartLooking, TypeOK
<1>8. CASE NodeAnswers(r)
  <2>1. Control(r)'
    BY <1>1, <1>8 DEF NodeAnswers, Control, Sent, TxFor
  <2>2. QED
    BY <1>1, <1>5, <1>8, <2>1 DEF NodeAnswers, TypeOK
<1>9. CASE ShowEnds(r)
  <2>1. Sent(r) = {} /\ Sent(r)' = {}
    BY <1>9 DEF ShowEnds, Sent, TxFor, KindsOf
  <2>2. Control(r)'
    BY <1>1, <1>9, <2>1 DEF ShowEnds, Control, TypeOK
  <2>3. QED
    BY <1>1, <1>5, <1>9, <2>2 DEF ShowEnds, TypeOK, Answers
<1>10. CASE TurnDown(r)
  <2>1. step'[r] \in {"notfound", "refused"} /\ ~told'[r]
    BY <1>1, <1>10 DEF TurnDown, TypeOK, Control
  <2>2. Control(r)'
    BY <1>1, <1>10, <2>1 DEF TurnDown, Control
  <2>3. QED
    BY <1>1, <1>5, <1>10, <2>2 DEF TurnDown, TypeOK, Answers
<1>11. CASE SendingEnds(r)
  <2>1. Sent(r)' = Sent(r) /\ \A t \in Sent(r) : reply[t] = "ok"
    BY <1>11 DEF SendingEnds, Ready, AllSucceed, Sent, TxFor
  <2>2. step'[r] = "ok" /\ (told'[r] <=> ask[r].op = "transfer")
    BY <1>1, <1>11 DEF SendingEnds, TypeOK
  <2>3. Control(r)'
    BY <1>1, <1>11, <2>1, <2>2 DEF SendingEnds, Control
  <2>4. told' \in [Req -> BOOLEAN]
    BY <1>1, <1>11, Zenon DEF SendingEnds, TypeOK
  <2>5. QED
    BY <1>1, <1>5, <1>11, <2>3, <2>4 DEF SendingEnds, TypeOK, Answers
<1>12. CASE RequestFails(r)
  <2>1. step'[r] = "error" /\ ~told'[r]
    BY <1>1, <1>12 DEF RequestFails, TypeOK, Control
  <2>2. Control(r)'
    BY <1>1, <1>12, <2>1 DEF RequestFails, Control
  <2>3. QED
    BY <1>1, <1>5, <1>12, <2>2 DEF RequestFails, TypeOK, Answers
<1>13. QED
  BY <1>6, <1>7, <1>8, <1>9, <1>10, <1>11, <1>12

-----------------------------------------------------------------------------
(* The chain.                                                              *)

(* What holds whenever a transaction gets into a block.                    *)
LEMMA IncludeFacts ==
  ASSUME IInv, NEW r \in Req, NEW n \in Kinds, B!Apply(<<n, r>>), UNCHANGED handlers
  PROVE  /\ B!TypeOK' /\ B!OkMeansApplied' /\ reply' = reply
         /\ n \in KindsOf(ask[r].op) /\ ask[r] \in Requests /\ WellFormed(ask[r])
         /\ fate[<<n, r>>] = "sent" /\ fate'[<<n, r>>] = "applied"
         /\ \A m \in Kinds, x \in Req : <<m, x>> # <<n, r>> => fate'[<<m, x>>] = fate[<<m, x>>]
         /\ \A x \in Req : Control(x)'
<1>1. TypeOK /\ B!TypeOK /\ B!OkMeansApplied /\ Control(r) /\ <<n, r>> \in Tx
  BY TxFacts DEF IInv, TypeOK
<1>2. /\ B!TypeOK' /\ B!OkMeansApplied' /\ reply' = reply
      /\ fate[<<n, r>>] = "sent" /\ fate'[<<n, r>>] = "applied"
      /\ \A t \in Tx : t # <<n, r>> => fate'[t] = fate[t]
  BY <1>1, ApplyFacts
<1>3. n \in KindsOf(ask[r].op) /\ ask[r] \in Requests /\ WellFormed(ask[r])
  BY <1>1, <1>2 DEF Control
<1>4. \A m \in Kinds, x \in Req : <<m, x>> # <<n, r>> => fate'[<<m, x>>] = fate[<<m, x>>]
  BY <1>2, TxFacts
<1>5. ASSUME NEW x \in Req PROVE Control(x)'
  <2>1. Control(x) /\ ask'[x] = ask[x] /\ step'[x] = step[x] /\ told'[x] = told[x]
    BY DEF IInv, handlers
  <2>2. \A m \in Kinds : fate'[<<m, x>>] = "none" <=> fate[<<m, x>>] = "none"
    BY <1>2, <1>4
  <2>3. QED
    BY <1>2, <2>1, <2>2, ControlKept
<1>6. QED
  BY <1>2, <1>3, <1>4, <1>5

(* What gets on a whitelist gets there by an addKey.                       *)
LEMMA UnlistedKept ==
  ASSUME NEW x \in Req, Unlisted(x), ask' = ask,
         fate'[<<"unlist", x>>] = fate[<<"unlist", x>>],
         \A s \in Req : fate[<<"list", s>>] = "applied" => fate'[<<"list", s>>] = "applied",
         \A d, k : <<d, k>> \in listed' =>
           <<d, k>> \in listed \/ \E s \in Req : ListedBy(s, d, k)'
  PROVE  Unlisted(x)'
<1>1. PICK d, k : d = DeviceFor(ask[x]) /\ k = ask[x].key
  OBVIOUS
<1>2. d = DeviceFor(ask[x])' /\ k = ask'[x].key
  BY <1>1 DEF DeviceFor
<1>3. \A s \in Req : ListedBy(s, d, k) => ListedBy(s, d, k)'
  BY DEF ListedBy
<1>4. CASE fate[<<"unlist", x>>] # "applied"
  BY <1>4 DEF Unlisted
<1>5. CASE <<d, k>> \notin listed \/ \E s \in Req : ListedBy(s, d, k)
  BY <1>2, <1>3, <1>5 DEF Unlisted
<1>6. QED
  BY <1>1, <1>4, <1>5 DEF Unlisted

(* A transfer takes the key from the dApp: one that is burnt stays burnt.  *)
LEMMA MoveIInv ==
  ASSUME IInv, NEW r \in Req, Move(r), UNCHANGED handlers
  PROVE  IInv'
<1>1. TypeOK /\ "move" \in Kinds /\ B!Apply(<<"move", r>>) /\ handlers' = handlers
  BY DEF IInv, Move, Kinds
<1>2. /\ B!TypeOK' /\ B!OkMeansApplied' /\ \A x \in Req : Control(x)'
      /\ "move" \in KindsOf(ask[r].op) /\ ask[r] \in Requests /\ WellFormed(ask[r])
      /\ \A m \in Kinds, x \in Req : <<m, x>> # <<"move", r>> => fate'[<<m, x>>] = fate[<<m, x>>]
  BY <1>1, IncludeFacts
<1>3. ask[r].key \in Key /\ ask[r].at \in Recipient
  BY <1>2, KindFacts, RequestFacts
<1>4. /\ owner' = [owner EXCEPT ![ask[r].key] = ask[r].at] /\ owner[ask[r].key] = Dapp
      /\ listed' = listed /\ entry' = entry
  BY DEF Move
<1>5. TypeOK'
  BY <1>1, <1>2, <1>3, <1>4 DEF TypeOK, handlers, Holder
<1>6. \A x \in Req : /\ fate'[<<"burn", x>>] = fate[<<"burn", x>>]
                     /\ fate'[<<"list", x>>] = fate[<<"list", x>>]
                     /\ fate'[<<"unlist", x>>] = fate[<<"unlist", x>>]
  BY <1>2 DEF Kinds
<1>7. \A k : owner[k] = Nobody => owner'[k] = Nobody
  BY <1>1, <1>3, <1>4, KeyAssumption DEF TypeOK
<1>8. ask' = ask
  BY DEF handlers
<1>9. BurntOnce' /\ \A x \in Req : Burnt(x)'
  BY <1>6, <1>7, <1>8 DEF IInv, BurntOnce, Burnt
<1>10. \A x \in Req : Unlisted(x)'
  BY <1>4, <1>6, <1>8, UnlistedKept DEF IInv
<1>11. QED
  BY <1>2, <1>5, <1>9, <1>10 DEF IInv

(* A key is burnt by the one who holds it: nobody burns it a second time.  *)
LEMMA BurnIInv ==
  ASSUME IInv, NEW r \in Req, Burn(r), UNCHANGED handlers
  PROVE  IInv'
<1>1. TypeOK /\ "burn" \in Kinds /\ B!Apply(<<"burn", r>>) /\ handlers' = handlers
  BY DEF IInv, Burn, Kinds
<1>2. /\ B!TypeOK' /\ B!OkMeansApplied' /\ \A x \in Req : Control(x)'
      /\ "burn" \in KindsOf(ask[r].op) /\ ask[r] \in Requests /\ WellFormed(ask[r])
      /\ fate'[<<"burn", r>>] = "applied"
      /\ \A m \in Kinds, x \in Req : <<m, x>> # <<"burn", r>> => fate'[<<m, x>>] = fate[<<m, x>>]
  BY <1>1, IncludeFacts
<1>3. ask[r].key \in Key /\ ask[r].at \in Organisation \cup {Dapp}
  BY <1>2, KindFacts, RequestFacts
<1>4. /\ owner' = [owner EXCEPT ![ask[r].key] = Nobody] /\ owner[ask[r].key] = ask[r].at
      /\ listed' = listed /\ entry' = entry
  BY DEF Burn
<1>5. TypeOK'
  BY <1>1, <1>2, <1>3, <1>4 DEF TypeOK, handlers, Holder
<1>6. \A x \in Req : /\ x # r => fate'[<<"burn", x>>] = fate[<<"burn", x>>]
                     /\ fate'[<<"list", x>>] = fate[<<"list", x>>]
                     /\ fate'[<<"unlist", x>>] = fate[<<"unlist", x>>]
  BY <1>2 DEF Kinds
<1>7. ask' = ask
  BY DEF handlers
<1>8. owner[ask[r].key] # Nobody
  BY <1>3, <1>4, KeyAssumption
<1>9. \A x \in Req : x # r /\ fate'[<<"burn", x>>] = "applied" => ask[x].key # ask[r].key
  BY <1>6, <1>8 DEF IInv, Burnt
<1>10. BurntOnce'
  BY <1>6, <1>7, <1>9 DEF IInv, BurntOnce
<1>11. ASSUME NEW x \in Req PROVE Burnt(x)'
  <2>1. \A k \in Key : owner[k] = Nobody => owner'[k] = Nobody
    BY <1>1, <1>3, <1>4 DEF TypeOK
  <2>2. owner'[ask[r].key] = Nobody
    BY <1>1, <1>3, <1>4 DEF TypeOK
  <2>3. CASE x = r
    BY <1>7, <2>2, <2>3 DEF Burnt
  <2>4. CASE x # r
    <3> SUFFICES ASSUME fate'[<<"burn", x>>] = "applied" PROVE owner'[ask[x].key] = Nobody
      BY <1>7 DEF Burnt
    <3>1. fate[<<"burn", x>>] = "applied" /\ owner[ask[x].key] = Nobody
      BY <1>6, <2>4 DEF IInv, Burnt
    <3>2. ask[x].key # ask[r].key
      BY <1>9, <2>4
    <3>3. QED
      BY <1>1, <1>4, <3>1, <3>2 DEF TypeOK
  <2>5. QED
    BY <2>3, <2>4
<1>12. \A x \in Req : Unlisted(x)'
  BY <1>4, <1>6, <1>7, UnlistedKept DEF IInv
<1>13. QED
  BY <1>2, <1>5, <1>10, <1>11, <1>12 DEF IInv

(* An addKey that gets into a block stands for what it lists.              *)
LEMMA EnlistIInv ==
  ASSUME IInv, NEW r \in Req, Enlist(r), UNCHANGED handlers
  PROVE  IInv'
<1>1. TypeOK /\ "list" \in Kinds /\ B!Apply(<<"list", r>>) /\ handlers' = handlers
  BY DEF IInv, Enlist, Kinds
<1>2. /\ B!TypeOK' /\ B!OkMeansApplied' /\ \A x \in Req : Control(x)'
      /\ "list" \in KindsOf(ask[r].op) /\ ask[r] \in Requests /\ WellFormed(ask[r])
      /\ fate'[<<"list", r>>] = "applied"
      /\ \A m \in Kinds, x \in Req : <<m, x>> # <<"list", r>> => fate'[<<m, x>>] = fate[<<m, x>>]
  BY <1>1, IncludeFacts
<1>3. /\ ask[r].op = "addKey" /\ ask[r].key \in Key /\ ask[r].at \in Device
      /\ DeviceFor(ask[r]) = ask[r].at
  BY <1>2, KindFacts, RequestFacts
<1>4. /\ listed' = listed \cup {<<ask[r].at, ask[r].key>>} /\ owner' = owner /\ entry' = entry
      /\ ask' = ask
  BY <1>3 DEF Enlist, handlers
<1>5. TypeOK'
  BY <1>1, <1>2, <1>3, <1>4 DEF TypeOK, handlers
<1>6. \A x \in Req : /\ fate'[<<"burn", x>>] = fate[<<"burn", x>>]
                     /\ x # r => fate'[<<"list", x>>] = fate[<<"list", x>>]
                     /\ fate'[<<"unlist", x>>] = fate[<<"unlist", x>>]
  BY <1>2 DEF Kinds
<1>7. BurntOnce' /\ \A x \in Req : Burnt(x)'
  BY <1>4, <1>6 DEF IInv, BurntOnce, Burnt
<1>8. ListedBy(r, ask[r].at, ask[r].key)'
  BY <1>2, <1>3, <1>4 DEF ListedBy
<1>9. \A d, k : <<d, k>> \in listed' => <<d, k>> \in listed \/ \E s \in Req : ListedBy(s, d, k)'
  BY <1>4, <1>8
<1>10. \A x \in Req : Unlisted(x)'
  BY <1>2, <1>4, <1>6, <1>9, UnlistedKept DEF IInv
<1>11. QED
  BY <1>2, <1>5, <1>7, <1>10 DEF IInv

(* A removal takes the key off.                                            *)
LEMMA UnlistIInv ==
  ASSUME IInv, NEW r \in Req, Unlist(r), UNCHANGED handlers
  PROVE  IInv'
<1>1. TypeOK /\ "unlist" \in Kinds /\ B!Apply(<<"unlist", r>>) /\ handlers' = handlers
  BY DEF IInv, Unlist, Kinds
<1>2. /\ B!TypeOK' /\ B!OkMeansApplied' /\ \A x \in Req : Control(x)'
      /\ \A m \in Kinds, x \in Req : <<m, x>> # <<"unlist", r>> => fate'[<<m, x>>] = fate[<<m, x>>]
  BY <1>1, IncludeFacts
<1>3. /\ listed' = listed \ {<<DeviceFor(ask[r]), ask[r].key>>} /\ owner' = owner /\ entry' = entry
      /\ ask' = ask
  BY DEF Unlist, handlers
<1>4. TypeOK'
  BY <1>1, <1>2, <1>3 DEF TypeOK, handlers
<1>5. \A x \in Req : /\ fate'[<<"burn", x>>] = fate[<<"burn", x>>]
                     /\ fate'[<<"list", x>>] = fate[<<"list", x>>]
                     /\ x # r => fate'[<<"unlist", x>>] = fate[<<"unlist", x>>]
  BY <1>2 DEF Kinds
<1>6. BurntOnce' /\ \A x \in Req : Burnt(x)'
  BY <1>3, <1>5 DEF IInv, BurntOnce, Burnt
<1>7. ASSUME NEW x \in Req PROVE Unlisted(x)'
  <2>1. CASE x = r
    BY <1>3, <2>1 DEF Unlisted, DeviceFor
  <2>2. CASE x # r
    BY <1>3, <1>5, <2>2, UnlistedKept DEF IInv
  <2>3. QED
    BY <2>1, <2>2
<1>8. QED
  BY <1>2, <1>4, <1>6, <1>7 DEF IInv

(* The verification of an organisation touches no key.                     *)
LEMMA VerifyIInv ==
  ASSUME IInv, NEW r \in Req, Verify(r), UNCHANGED handlers
  PROVE  IInv'
<1>1. TypeOK /\ "verify" \in Kinds /\ B!Apply(<<"verify", r>>) /\ handlers' = handlers
  BY DEF IInv, Verify, Kinds
<1>2. /\ B!TypeOK' /\ B!OkMeansApplied' /\ \A x \in Req : Control(x)'
      /\ "verify" \in KindsOf(ask[r].op) /\ ask[r] \in Requests /\ WellFormed(ask[r])
      /\ \A m \in Kinds, x \in Req : <<m, x>> # <<"verify", r>> => fate'[<<m, x>>] = fate[<<m, x>>]
  BY <1>1, IncludeFacts
<1>3. ask[r].at \in Organisation
  BY <1>2, KindFacts, RequestFacts
<1>4. /\ entry' = [entry EXCEPT ![ask[r].at] = "active"] /\ owner' = owner /\ listed' = listed
      /\ ask' = ask
  BY DEF Verify, handlers
<1>5. TypeOK'
  BY <1>1, <1>2, <1>3, <1>4 DEF TypeOK, handlers, Entries
<1>6. \A x \in Req : /\ fate'[<<"burn", x>>] = fate[<<"burn", x>>]
                     /\ fate'[<<"list", x>>] = fate[<<"list", x>>]
                     /\ fate'[<<"unlist", x>>] = fate[<<"unlist", x>>]
  BY <1>2 DEF Kinds
<1>7. BurntOnce' /\ \A x \in Req : Burnt(x)'
  BY <1>4, <1>6 DEF IInv, BurntOnce, Burnt
<1>8. \A x \in Req : Unlisted(x)'
  BY <1>4, <1>6, UnlistedKept DEF IInv
<1>9. QED
  BY <1>2, <1>5, <1>7, <1>8 DEF IInv

(* A block.                                                                *)
LEMMA IncludeIInv ==
  ASSUME IInv, NEW r \in Req, Include(r)
  PROVE  IInv'
  BY MoveIInv, BurnIInv, EnlistIInv, UnlistIInv, VerifyIInv DEF Include

(* The steps outside: an answer of broadcast, holders, the dApp's owner,   *)
(* and the end of the process.                                             *)
LEMMA OutsideIInv ==
  ASSUME IInv,
         \/ \E t \in Tx : Outcome(t)
         \/ \E k \in Key : HolderMoves(k)
         \/ \E o \in Organisation : Suspend(o)
         \/ Crash
         \/ UNCHANGED vars
  PROVE  IInv'
<1>1. TypeOK /\ B!TypeOK /\ B!OkMeansApplied
  BY DEF IInv, TypeOK
<1>2. ASSUME UNCHANGED <<ask, step, told>>, fate' = fate,
             \A t \in Tx : reply[t] = "ok" => reply'[t] = "ok"
      PROVE  \A x \in Req : Control(x)'
  BY <1>2, ControlKept DEF IInv
<1>3. CASE \E t \in Tx : Outcome(t)
  <2>1. PICK t \in Tx : Outcome(t)
    BY <1>3
  <2>2. /\ B!TypeOK' /\ B!OkMeansApplied' /\ fate' = fate
        /\ \A u \in Tx : reply[u] # "none" => reply'[u] = reply[u]
        /\ ask' = ask /\ step' = step /\ told' = told /\ look' = look /\ UNCHANGED chain
    BY <1>1, <2>1, OutcomeFacts DEF Outcome, handlers
  <2>3. \A x \in Req : Control(x)'
    BY <1>2, <2>2
  <2>4. TypeOK'
    BY <1>1, <2>2 DEF TypeOK, chain
  <2>5. BurntOnce' /\ \A x \in Req : Burnt(x)' /\ Unlisted(x)'
    BY <2>2, FactsKept DEF chain
  <2>6. QED
    BY <2>2, <2>3, <2>4, <2>5 DEF IInv
<1>4. CASE \E k \in Key : HolderMoves(k)
  <2>1. PICK k \in Key : HolderMoves(k)
    BY <1>4
  <2>2. /\ ask' = ask /\ step' = step /\ told' = told /\ look' = look /\ listed' = listed
        /\ entry' = entry /\ fate' = fate /\ reply' = reply
    BY <2>1 DEF HolderMoves, handlers
  <2>3. PICK h \in Recipient \cup {Dapp} : owner' = [owner EXCEPT ![k] = h]
    BY <2>1 DEF HolderMoves
  <2>4. owner[k] # Nobody
    BY <2>1, KeyAssumption DEF HolderMoves
  <2>5. TypeOK' /\ B!OkMeansApplied'
    BY <1>1, <2>2, <2>3 DEF TypeOK, Holder, B!TypeOK, B!OkMeansApplied
  <2>6. \A j : owner[j] = Nobody => owner'[j] = Nobody
    BY <1>1, <2>3, <2>4 DEF TypeOK
  <2>7. BurntOnce' /\ \A x \in Req : Burnt(x)'
    BY <2>2, <2>6 DEF IInv, BurntOnce, Burnt
  <2>8. \A x \in Req : Unlisted(x)'
    BY <2>2, UnlistedKept DEF IInv
  <2>9. \A x \in Req : Control(x)'
    BY <1>2, <2>2
  <2>10. QED
    BY <2>5, <2>7, <2>8, <2>9 DEF IInv
<1>5. CASE \E o \in Organisation : Suspend(o)
  <2>1. PICK o \in Organisation : Suspend(o)
    BY <1>5
  <2>2. /\ ask' = ask /\ step' = step /\ told' = told /\ look' = look /\ listed' = listed
        /\ owner' = owner /\ fate' = fate /\ reply' = reply
    BY <2>1 DEF Suspend, handlers
  <2>3. entry' \in [Organisation -> Entries]
    BY <1>1, <2>1 DEF Suspend, TypeOK, Entries
  <2>4. TypeOK' /\ B!OkMeansApplied'
    BY <1>1, <2>2, <2>3 DEF TypeOK, B!TypeOK, B!OkMeansApplied
  <2>5. BurntOnce' /\ \A x \in Req : Burnt(x)' /\ Unlisted(x)'
    BY <2>2, FactsKept
  <2>6. \A x \in Req : Control(x)'
    BY <1>2, <2>2
  <2>7. QED
    BY <2>4, <2>5, <2>6 DEF IInv
<1>6. CASE Crash
  <2>1. /\ ask' = ask /\ told' = told /\ look' = look /\ UNCHANGED chain
        /\ fate' = fate /\ reply' = reply
    BY <1>6 DEF Crash
  <2>2. /\ step' \in [Req -> Steps]
        /\ \A x \in Req : step'[x] = step[x] \/ (step'[x] = "lost" /\ step[x] \in {"looking", "sending"})
    BY <1>1, <1>6 DEF Crash, TypeOK, Steps, Answers
  <2>3. TypeOK' /\ B!OkMeansApplied'
    BY <1>1, <2>1, <2>2 DEF TypeOK, B!TypeOK, B!OkMeansApplied, chain
  <2>4. BurntOnce' /\ \A x \in Req : Burnt(x)' /\ Unlisted(x)'
    BY <2>1, FactsKept DEF chain
  <2>5. ASSUME NEW x \in Req PROVE Control(x)'
    <3>1. Control(x) /\ Sent(x)' = Sent(x)
      BY <2>1 DEF IInv, Sent, TxFor
    <3>2. QED
      BY <2>1, <2>2, <3>1 DEF Control
  <2>6. QED
    BY <2>3, <2>4, <2>5 DEF IInv
<1>7. CASE UNCHANGED vars
  <2>1. UNCHANGED <<ask, step, told, look, owner, listed, entry, fate, reply>>
    BY <1>7 DEF vars
  <2>2. TypeOK' /\ B!OkMeansApplied'
    BY <1>1, <2>1 DEF TypeOK, B!TypeOK, B!OkMeansApplied
  <2>3. BurntOnce' /\ \A x \in Req : Burnt(x)' /\ Unlisted(x)'
    BY <2>1, FactsKept
  <2>4. \A x \in Req : Control(x)'
    BY <1>2, <2>1
  <2>5. QED
    BY <2>2, <2>3, <2>4 DEF IInv
<1>8. QED
  BY <1>3, <1>4, <1>5, <1>6, <1>7

-----------------------------------------------------------------------------
(* The inductive invariant holds, for any requests, keys and devices.      *)
THEOREM Invariance == Spec => []IInv
<1>1. IInv /\ [Next]_vars => IInv'
  <2> SUFFICES ASSUME IInv, [Next]_vars PROVE IInv'
    OBVIOUS
  <2>1. ASSUME NEW r \in Req, Start(r) \/ Handle(r) PROVE IInv'
    BY <2>1, SubmitControl, QuietSteps DEF Start, Handle
  <2>2. ASSUME NEW r \in Req, Include(r) PROVE IInv'
    BY <2>2, IncludeIInv
  <2>3. CASE \/ \E t \in Tx : Outcome(t)
             \/ \E k \in Key : HolderMoves(k)
             \/ \E o \in Organisation : Suspend(o)
             \/ Crash
             \/ UNCHANGED vars
    BY <2>3, OutsideIInv
  <2>4. QED
    BY <2>1, <2>2, <2>3 DEF Next
<1>2. QED
  BY <1>1, InitIInv, PTL DEF Spec

(* The types of custody.                                                   *)
THEOREM TypeCorrect == Spec => []TypeOK
<1>1. IInv => TypeOK
  BY DEF IInv
<1>2. QED
  BY <1>1, Invariance, PTL

(* What a successful request has sent is in a block.                       *)
LEMMA OkIsApplied ==
  ASSUME IInv, NEW r \in Req, step[r] = "ok"
  PROVE  /\ Applied(Sent(r))
         /\ Destroys(r) => fate[<<"burn", r>>] = "applied"
         /\ ask[r].op = "retire" => fate[<<"unlist", r>>] = "applied"
<1>1. Control(r) /\ B!OkMeansApplied /\ Sent(r) \subseteq Tx
  BY TxFacts DEF IInv, Sent
<1>2. Applied(Sent(r))
  BY <1>1 DEF Control, B!OkMeansApplied, Applied
<1>3. Destroys(r) => <<"burn", r>> \in Sent(r)
  BY DEF Destroys, Sent, TxFor, KindsOf
<1>4. ask[r].op = "retire" => <<"unlist", r>> \in Sent(r)
  BY DEF Sent, TxFor, KindsOf
<1>5. QED
  BY <1>2, <1>3, <1>4 DEF Applied

(* The supplier is only told of transfers that are in a block.             *)
THEOREM NoticeIsTrueAlways == Spec => []NoticeIsTrue
<1>1. IInv => NoticeIsTrue
  BY OkIsApplied DEF IInv, Control, NoticeIsTrue
<1>2. QED
  BY <1>1, Invariance, PTL

(* A successful answer stands for transactions in a block; after a burn or *)
(* a removal the key is gone.                                              *)
THEOREM OkMeansDoneAlways == Spec => []OkMeansDone
<1>1. IInv => OkMeansDone
  BY OkIsApplied DEF IInv, Burnt, OkMeansDone
<1>2. QED
  BY <1>1, Invariance, PTL

(* Of two requests at most one is told that it has destroyed a key.        *)
THEOREM DestroyedOnceAlways == Spec => []DestroyedOnce
<1>1. IInv => DestroyedOnce
  BY OkIsApplied DEF IInv, BurntOnce, DestroyedOnce
<1>2. QED
  BY <1>1, Invariance, PTL

(* A key reported as removed is on the whitelist only if an addKey has put *)
(* it there.                                                               *)
THEOREM RetiredKeysAreOffAlways == Spec => []RetiredKeysAreOff
<1>1. ASSUME IInv, NEW r \in Req, step[r] = "ok", ask[r].op = "retire"
      PROVE  \/ <<DeviceOf[ask[r].key], ask[r].key>> \notin listed
             \/ \E s \in Req : /\ ask[s].op = "addKey" /\ ask[s].key = ask[r].key
                               /\ ask[s].at = DeviceOf[ask[r].key] /\ Applied(Sent(s))
  <2>1. DeviceFor(ask[r]) = DeviceOf[ask[r].key]
    BY <1>1 DEF DeviceFor
  <2>2. \/ <<DeviceFor(ask[r]), ask[r].key>> \notin listed
        \/ \E s \in Req : ListedBy(s, DeviceFor(ask[r]), ask[r].key)
    BY <1>1, OkIsApplied DEF IInv, Unlisted
  <2>3. ASSUME NEW s \in Req, ListedBy(s, DeviceFor(ask[r]), ask[r].key)
        PROVE  Applied(Sent(s))
    <3>1. Sent(s) = {<<"list", s>>}
      BY <2>3 DEF ListedBy, Sent, TxFor, KindsOf
    <3>2. QED
      BY <2>3, <3>1 DEF ListedBy, Applied
  <2>4. QED
    BY <2>1, <2>2, <2>3 DEF ListedBy
<1>2. IInv => RetiredKeysAreOff
  BY <1>1 DEF RetiredKeysAreOff
<1>3. QED
  BY <1>2, Invariance, PTL

-----------------------------------------------------------------------------
(* The refinement: what CustodyPromise sees of the calls (show, transfer,  *)
(* burn, addKey, removeKey, addOrganisation).                              *)
DoneOf(r) == {e \in EffectsOf(ask[r]) : fate[<<e.kind, r>>] = "applied"}
Want == [r \in Req |-> EffectsOf(ask[r])]
Have == [r \in Req |-> DoneOf(r)]
Answered == [r \in Req |-> step[r] = "ok" /\ ask[r].op # "show"]

(* What a request wants done: one effect of each kind it sends.            *)
LEMMA EffectFacts ==
  /\ EffectsOf(NoRequest) = {}
  /\ \A q : \A e \in EffectsOf(q) : /\ e.kind \in KindsOf(q.op)
                                   /\ \A f \in EffectsOf(q) : e.kind = f.kind => e = f
  /\ \A q : \A n \in KindsOf(q.op) : \E e \in EffectsOf(q) : e.kind = n
<1>1. KindsOf("none") = {}
  BY DEF KindsOf
<1>2. EffectsOf(NoRequest) = {}
  BY <1>1 DEF EffectsOf, NoRequest
<1>3. \A q, n : EffectOf(q, n).kind = n
  BY DEF EffectOf
<1>4. QED
  BY <1>2, <1>3 DEF EffectsOf

(* A well-formed request wants what the ledger knows; only show wants      *)
(* nothing.                                                                *)
LEMMA WantFacts ==
  ASSUME NEW q \in Requests, WellFormed(q)
  PROVE  /\ EffectsOf(q) \subseteq P!Effect
         /\ EffectsOf(q) = {} <=> q.op = "show"
<1>1. /\ q.key \in Key
      /\ q.op \in {"transfer", "burn", "show", "addKey", "removeKey", "retire", "enrol"}
      /\ q.op \in {"transfer", "burn", "retire", "enrol"} => q.at \in Holder
      /\ q.op \in {"addKey", "removeKey", "retire"} => DeviceFor(q) \in Device
  BY RequestFacts, KeyAssumption DEF Holder
<1>2. ASSUME NEW n \in KindsOf(q.op)
      PROVE  EffectOf(q, n) \in P!Effect
  <2>1. n \in Kinds
    BY TxFacts, <1>2 DEF KindsOf, Kinds
  <2>2. CASE n \in {"list", "unlist"}
    BY <1>1, <1>2, <2>2, KindFacts DEF P!Effect, EffectOf
  <2>3. CASE n \notin {"list", "unlist"}
    BY <1>1, <1>2, <2>1, <2>3, KindFacts DEF P!Effect, Kinds, EffectOf
  <2>4. QED
    BY <2>2, <2>3
<1>3. KindsOf(q.op) = {} <=> q.op = "show"
  BY <1>1 DEF KindsOf
<1>4. QED
  BY <1>2, <1>3 DEF EffectsOf

(* Nothing is wanted, done or told at the start.                           *)
LEMMA InitPromise == Init => P!Init
<1> SUFFICES ASSUME Init PROVE P!Init
  OBVIOUS
<1>1. \A r \in Req : EffectsOf(ask[r]) = {}
  BY EffectFacts DEF Init
<1>2. \A r \in Req : DoneOf(r) = {}
  BY <1>1 DEF DoneOf
<1>3. \A r \in Req : (step[r] = "ok" /\ ask[r].op # "show") = FALSE
  BY DEF Init
<1>4. Want = [r \in Req |-> {}] /\ Have = [r \in Req |-> {}] /\ Answered = [r \in Req |-> FALSE]
  BY <1>1, <1>2, <1>3, Zenon DEF Want, Have, Answered
<1>5. told = [r \in Req |-> FALSE] /\ owner \in [Key -> Holder \ {Nobody}]
      /\ listed \in SUBSET (Device \X Key)
  BY DEF Init
<1>6. QED
  BY <1>4, <1>5, Zenon DEF P!Init, Want, Have, Answered, DoneOf

(* What the promise sees of a request that asks for nothing new and gets   *)
(* nothing into a block.                                                   *)
LEMMA SameView ==
  ASSUME NEW r \in Req, ask'[r] = ask[r],
         \A n \in Kinds : fate'[<<n, r>>] = "applied" <=> fate[<<n, r>>] = "applied"
  PROVE  EffectsOf(ask[r])' = EffectsOf(ask[r]) /\ DoneOf(r)' = DoneOf(r)
<1>1. EffectsOf(ask[r])' = EffectsOf(ask[r])
  BY DEF EffectsOf, EffectOf, DeviceFor
<1>2. \A e \in EffectsOf(ask[r]) : e.kind \in Kinds
  BY EffectFacts, TxFacts
<1>3. QED
  BY <1>1, <1>2 DEF DoneOf

(* A request that reaches its handler is the promise's Ask; show asks for  *)
(* nothing and is not seen.                                                *)
LEMMA StartAsks ==
  ASSUME IInv, NEW r \in Req, StartSending(r) \/ StartLooking(r)
  PROVE  P!Ask(r) \/ UNCHANGED P!vars
<1>1. TypeOK /\ B!TypeOK /\ B!OkMeansApplied /\ Control(r)
  BY DEF IInv, TypeOK
<1>2. /\ step[r] = "idle" /\ ask[r] = NoRequest /\ UNCHANGED <<owner, listed, told>>
      /\ \A n \in Kinds : fate[<<n, r>>] = "none"
  BY <1>1 DEF StartSending, StartLooking, Control, chain
<1>3. PICK q \in Requests : WellFormed(q) /\ ask' = [ask EXCEPT ![r] = q]
  BY DEF StartSending, StartLooking, Requests
<1>4. \A x \in Req : ask'[x] = IF x = r THEN q ELSE ask[x]
  BY <1>1, <1>3 DEF TypeOK
<1>5. \A t \in Tx : fate'[t] = "applied" <=> fate[t] = "applied"
  <2>1. CASE StartLooking(r)
    BY <2>1 DEF StartLooking
  <2>2. CASE StartSending(r)
    <3>1. PICK op : B!Submit(TxFor(op, r))
      BY <2>2 DEF StartSending
    <3>2. TxFor(op, r) \subseteq Tx
      BY TxFacts
    <3>3. QED
      BY <1>1, <3>1, <3>2, SubmitFacts
  <2>3. QED
    BY <2>1, <2>2
<1>6. \A x \in Req, n \in Kinds : fate'[<<n, x>>] = "applied" <=> fate[<<n, x>>] = "applied"
  BY <1>5, TxFacts
<1>7. \A x \in Req : x # r => EffectsOf(ask[x])' = EffectsOf(ask[x]) /\ DoneOf(x)' = DoneOf(x)
  BY <1>4, <1>6, SameView
<1>8. EffectsOf(ask[r]) = {} /\ EffectsOf(ask[r])' = EffectsOf(q)
  BY <1>2, <1>4, EffectFacts DEF EffectsOf, EffectOf, DeviceFor
<1>9. DoneOf(r) = {} /\ DoneOf(r)' = {}
  <2>1. \A e \in EffectsOf(q) : e.kind \in Kinds
    BY EffectFacts, TxFacts
  <2>2. QED
    BY <1>2, <1>6, <1>8, <2>1 DEF DoneOf
<1>10. Have' = Have
  BY <1>7, <1>9, Zenon DEF Have
<1>11. Answered' = Answered
  <2>1. \A x \in Req : step'[x] = "ok" <=> step[x] = "ok"
    BY <1>1, <1>2 DEF StartSending, StartLooking, GoTo, TypeOK
  <2>2. \A x \in Req : (step'[x] = "ok" /\ ask'[x].op # "show") = (step[x] = "ok" /\ ask[x].op # "show")
    BY <1>2, <1>4, <2>1
  <2>3. QED
    BY <2>2, Zenon DEF Answered
<1>12. Want' = [Want EXCEPT ![r] = EffectsOf(q)]
  BY <1>7, <1>8 DEF Want
<1>13. CASE q.op = "show"
  <2>1. EffectsOf(q) = {}
    BY <1>3, <1>13, WantFacts
  <2>2. \A x \in Req : EffectsOf(ask[x])' = EffectsOf(ask[x])
    BY <1>7, <1>8, <2>1
  <2>3. Want' = Want
    BY <2>2, Zenon DEF Want
  <2>4. QED
    BY <1>2, <1>10, <1>11, <2>3, Zenon DEF P!vars, Want, Have, Answered, DoneOf
<1>14. CASE q.op # "show"
  <2>1. EffectsOf(q) \subseteq P!Effect /\ EffectsOf(q) # {}
    BY <1>3, <1>14, WantFacts
  <2>2. Want[r] = {} /\ Want'[r] = EffectsOf(q)
    BY <1>8 DEF Want
  <2>3. /\ Want[r] = {} /\ Want'[r] \subseteq P!Effect /\ Want'[r] # {}
        /\ Want' = [Want EXCEPT ![r] = Want'[r]]
        /\ UNCHANGED <<Have, owner, listed, Answered, told>>
    BY <1>2, <1>10, <1>11, <1>12, <2>1, <2>2
  <2>4. QED
    BY <2>3, Zenon DEF P!Ask, Want, Have, Answered, DoneOf
<1>15. QED
  BY <1>13, <1>14

(* A transaction that gets into a block is the promise's Do.               *)
LEMMA IncludeDoes ==
  ASSUME IInv, NEW r \in Req, Include(r)
  PROVE  \E e \in EffectsOf(ask[r]) : P!Do(r, e)
<1>1. TypeOK /\ UNCHANGED <<ask, step, told>> /\ UNCHANGED handlers
  BY DEF IInv, Include, handlers
<1>2. PICK n \in Kinds : \/ n = "move" /\ Move(r)
                         \/ n = "burn" /\ Burn(r)
                         \/ n = "list" /\ Enlist(r)
                         \/ n = "unlist" /\ Unlist(r)
                         \/ n = "verify" /\ Verify(r)
  <2>1. Move(r) \/ Burn(r) \/ Enlist(r) \/ Unlist(r) \/ Verify(r)
    BY DEF Include
  <2>2. /\ "move" \in Kinds /\ "burn" \in Kinds /\ "list" \in Kinds
        /\ "unlist" \in Kinds /\ "verify" \in Kinds
    BY DEF Kinds
  <2>3. QED
    BY <2>1, <2>2, Zenon
<1>3. /\ n \in KindsOf(ask[r].op) /\ fate[<<n, r>>] = "sent" /\ fate'[<<n, r>>] = "applied"
      /\ \A m \in Kinds, x \in Req : <<m, x>> # <<n, r>> => fate'[<<m, x>>] = fate[<<m, x>>]
  <2>1. B!Apply(<<n, r>>)
    BY <1>2 DEF Move, Burn, Enlist, Unlist, Verify
  <2>2. QED
    BY <1>1, <2>1, IncludeFacts
<1>4. PICK e : e = EffectOf(ask[r], n)
  OBVIOUS
<1>5. e \in EffectsOf(ask[r]) /\ e.kind = n /\ e.key = ask[r].key
      /\ e.at = IF n \in {"list", "unlist"} THEN DeviceFor(ask[r]) ELSE ask[r].at
  BY <1>3, <1>4 DEF EffectsOf, EffectOf
<1>6. P!Rule(e)
  BY <1>2, <1>5 DEF P!Rule, Move, Burn, Enlist, Unlist, Verify
<1>7. \A x \in Req : EffectsOf(ask[x])' = EffectsOf(ask[x])
  BY <1>1 DEF EffectsOf, EffectOf, DeviceFor
<1>8. \A x \in Req : x # r => DoneOf(x)' = DoneOf(x)
  BY <1>1, <1>3, SameView
<1>9. e \notin DoneOf(r) /\ DoneOf(r)' = DoneOf(r) \cup {e}
  <2>1. e \notin DoneOf(r)
    BY <1>3, <1>5 DEF DoneOf
  <2>2. \A f \in EffectsOf(ask[r]) : f.kind \in Kinds /\ (f.kind = n => f = e)
    BY <1>5, EffectFacts, TxFacts
  <2>3. \A f \in EffectsOf(ask[r]) : fate'[<<f.kind, r>>] = "applied" <=> fate[<<f.kind, r>>] = "applied" \/ f = e
    BY <1>3, <1>5, <2>2
  <2>4. QED
    BY <1>5, <1>7, <2>1, <2>3 DEF DoneOf
<1>10. Have' = [Have EXCEPT ![r] = Have[r] \cup {e}]
  BY <1>8, <1>9 DEF Have
<1>11. Want' = Want
  BY <1>7, Zenon DEF Want
<1>12. Answered' = Answered
  BY <1>1 DEF Answered
<1>13. e \in Want[r] \ Have[r]
  BY <1>5, <1>9 DEF Want, Have
<1>14. P!Do(r, e)
  BY <1>1, <1>6, <1>10, <1>11, <1>12, <1>13, Zenon DEF P!Do, Want, Have, Answered, DoneOf
<1>15. QED
  BY <1>5, <1>14

(* An answer of success is the promise's Tell.                             *)
LEMMA SendingTells ==
  ASSUME IInv, NEW r \in Req, SendingEnds(r), ask[r].op # "show"
  PROVE  P!Tell(r)
<1>1. /\ TypeOK /\ Control(r) /\ B!OkMeansApplied /\ step[r] = "sending"
      /\ UNCHANGED <<ask, fate, owner, listed>>
      /\ told' = [told EXCEPT ![r] = ask[r].op = "transfer"] /\ step' = [step EXCEPT ![r] = "ok"]
  BY DEF IInv, SendingEnds, GoTo, chain
<1>2. ask[r] \in Requests /\ WellFormed(ask[r])
  BY <1>1 DEF Control
<1>3. Want[r] # {}
  BY <1>2, WantFacts DEF Want
<1>4. Have[r] = Want[r]
  <2>1. \A n \in KindsOf(ask[r].op) : <<n, r>> \in Sent(r) /\ <<n, r>> \in Tx
    BY TxFacts DEF Sent
  <2>2. \A n \in KindsOf(ask[r].op) : fate[<<n, r>>] = "applied"
    BY <1>1, <2>1 DEF SendingEnds, Ready, AllSucceed, B!OkMeansApplied
  <2>3. QED
    BY <2>2, EffectFacts DEF Want, Have, DoneOf
<1>5. \A x \in Req : EffectsOf(ask[x])' = EffectsOf(ask[x]) /\ DoneOf(x)' = DoneOf(x)
  BY <1>1, SameView
<1>6. Want' = Want /\ Have' = Have
  BY <1>5, Zenon DEF Want, Have
<1>7. ~Answered[r] /\ Answered' = [Answered EXCEPT ![r] = TRUE]
  <2>1. \A x \in Req : (step'[x] = "ok" /\ ask'[x].op # "show") = (IF x = r THEN TRUE ELSE Answered[x])
    BY <1>1 DEF Answered, TypeOK
  <2>2. Answered' = [x \in Req |-> IF x = r THEN TRUE ELSE Answered[x]]
    BY <2>1, Zenon DEF Answered
  <2>3. [Answered EXCEPT ![r] = TRUE] = [x \in Req |-> IF x = r THEN TRUE ELSE Answered[x]]
    BY DEF Answered
  <2>4. ~Answered[r]
    BY <1>1 DEF Answered
  <2>5. QED
    BY <2>2, <2>3, <2>4
<1>8. ask[r].op = "transfer" <=> \E e \in Want[r] : e.kind = "move"
  <2>1. "move" \in KindsOf(ask[r].op) <=> ask[r].op = "transfer"
    BY KindFacts DEF KindsOf
  <2>2. Want[r] = EffectsOf(ask[r])
    BY DEF Want
  <2>3. "move" \in KindsOf(ask[r].op) <=> \E e \in EffectsOf(ask[r]) : e.kind = "move"
    <3>1. \A e \in EffectsOf(ask[r]) : e.kind \in KindsOf(ask[r].op)
      BY EffectFacts
    <3>2. \A n \in KindsOf(ask[r].op) : \E e \in EffectsOf(ask[r]) : e.kind = n
      BY EffectFacts
    <3>3. QED
      BY <3>1, <3>2
  <2>4. QED
    BY <2>1, <2>2, <2>3
<1>9. told' = [told EXCEPT ![r] = \E e \in Want[r] : e.kind = "move"]
  <2>1. CASE ask[r].op = "transfer"
    <3>1. (ask[r].op = "transfer") = TRUE /\ (\E e \in Want[r] : e.kind = "move") = TRUE
      BY <1>8, <2>1
    <3>2. QED
      BY <1>1, <3>1, Zenon
  <2>2. CASE ask[r].op # "transfer"
    <3>1. (ask[r].op = "transfer") = FALSE /\ (\E e \in Want[r] : e.kind = "move") = FALSE
      BY <1>8, <2>2
    <3>2. QED
      BY <1>1, <3>1, Zenon
  <2>3. QED
    BY <2>1, <2>2
<1>10. QED
  BY <1>1, <1>3, <1>4, <1>6, <1>7, <1>9, Zenon DEF P!Tell, Want, Have, Answered, DoneOf

(* A holder who passes a key on is the promise's Give.                     *)
LEMMA HolderGives ==
  ASSUME IInv, NEW k \in Key, HolderMoves(k)
  PROVE  \E h \in Holder \ {Nobody} : P!Give(k, h)
<1>1. PICK h \in Recipient \cup {Dapp} : owner' = [owner EXCEPT ![k] = h]
  BY DEF HolderMoves
<1>2. h \in Holder \ {Nobody} /\ owner[k] \notin {Dapp, Nobody}
      /\ UNCHANGED <<ask, step, look, told, listed, fate>>
  BY KeyAssumption DEF HolderMoves, handlers, Holder
<1>3. \A x \in Req : EffectsOf(ask[x])' = EffectsOf(ask[x]) /\ DoneOf(x)' = DoneOf(x)
  BY <1>2, SameView
<1>4. Want' = Want /\ Have' = Have
  BY <1>3, Zenon DEF Want, Have
<1>5. Answered' = Answered
  BY <1>2 DEF Answered
<1>6. P!Give(k, h)
  BY <1>1, <1>2, <1>4, <1>5, Zenon DEF P!Give, Want, Have, Answered, DoneOf
<1>7. QED
  BY <1>2, <1>6

(* Reads, refusals, submissions, errors, the other end of show, the        *)
(* outcomes of broadcast calls and a crash change nothing of the promise.  *)
LEMMA OthersAreUnseen ==
  ASSUME IInv,
         \/ \E r \in Req : \/ Refuse(r) \/ NodeAnswers(r) \/ ShowEnds(r) \/ SendAfterLook(r)
                           \/ TurnDown(r) \/ RequestFails(r)
                           \/ SendingEnds(r) /\ ask[r].op = "show"
         \/ \E t \in Tx : Outcome(t)
         \/ \E o \in Organisation : Suspend(o)
         \/ Crash
         \/ UNCHANGED vars
  PROVE  UNCHANGED P!vars
<1>1. TypeOK /\ B!TypeOK /\ B!OkMeansApplied /\ \A r \in Req : Control(r)
  BY DEF IInv, TypeOK
<1>2. UNCHANGED <<ask, owner, listed>>
  BY DEF Refuse, NodeAnswers, ShowEnds, SendAfterLook, TurnDown, RequestFails, SendingEnds, Outcome,
         Suspend, Crash, vars, handlers, chain
<1>3. UNCHANGED told
  <2>1. ASSUME NEW r \in Req, SendingEnds(r), ask[r].op = "show" PROVE told' = told
    <3>1. /\ told \in [Req -> BOOLEAN] /\ ~told[r]
          /\ told' = [told EXCEPT ![r] = ask[r].op = "transfer"]
      BY <1>1, <2>1 DEF SendingEnds, Control, TypeOK
    <3>2. (ask[r].op = "transfer") = FALSE
      BY <2>1
    <3>3. told' = [told EXCEPT ![r] = FALSE] /\ told[r] = FALSE
      BY <3>1, <3>2, Zenon
    <3>4. QED
      BY <3>1, <3>3
  <2>2. QED
    BY <2>1 DEF Refuse, NodeAnswers, ShowEnds, SendAfterLook, TurnDown, RequestFails, Outcome,
                Suspend, Crash, vars, handlers
<1>4. \A x \in Req : step'[x] = "ok" /\ ask[x].op # "show" <=> step[x] = "ok" /\ ask[x].op # "show"
  BY <1>1 DEF TypeOK, GoTo, Refuse, NodeAnswers, ShowEnds, SendAfterLook, TurnDown, RequestFails,
              SendingEnds, Outcome, Suspend, Crash, vars, handlers
<1>5. \A t \in Tx : fate'[t] = "applied" <=> fate[t] = "applied"
  <2>1. ASSUME NEW r \in Req, SendAfterLook(r)
        PROVE  \A t \in Tx : fate'[t] = "applied" <=> fate[t] = "applied"
    <3>1. Sent(r) \subseteq Tx
      BY TxFacts DEF Sent
    <3>2. B!Submit(Sent(r))
      BY <2>1 DEF SendAfterLook
    <3>3. QED
      BY <1>1, <3>1, <3>2, SubmitFacts
  <2>2. ASSUME NEW t \in Tx, Outcome(t) PROVE fate' = fate
    BY <1>1, <2>2, OutcomeFacts DEF Outcome
  <2>3. QED
    BY <2>1, <2>2 DEF Refuse, NodeAnswers, ShowEnds, TurnDown, RequestFails, SendingEnds, Suspend,
                      Crash, vars
<1>6. \A x \in Req, n \in Kinds : fate'[<<n, x>>] = "applied" <=> fate[<<n, x>>] = "applied"
  BY <1>5, TxFacts
<1>7. \A x \in Req : EffectsOf(ask[x])' = EffectsOf(ask[x]) /\ DoneOf(x)' = DoneOf(x)
  BY <1>2, <1>6, SameView
<1>8. Want' = Want /\ Have' = Have
  BY <1>7, Zenon DEF Want, Have
<1>9. Answered' = Answered
  <2>1. \A x \in Req : (step'[x] = "ok" /\ ask'[x].op # "show") = (step[x] = "ok" /\ ask[x].op # "show")
    BY <1>2, <1>4
  <2>2. QED
    BY <2>1, Zenon DEF Answered
<1>10. QED
  BY <1>2, <1>3, <1>8, <1>9, Zenon DEF P!vars, Want, Have, Answered, DoneOf

(* The calls about existing keys implement CustodyPromise, for any         *)
(* requests, keys, devices, organisations and recipients.                  *)
THEOREM Refinement == Spec => KeepsPromise
<1>1. ASSUME IInv, [Next]_vars PROVE [P!Next]_(P!vars)
  <2>1. ASSUME NEW r \in Req, StartSending(r) \/ StartLooking(r) PROVE [P!Next]_(P!vars)
    BY <1>1, <2>1, StartAsks DEF P!Next
  <2>2. ASSUME NEW r \in Req, Include(r) PROVE P!Next
    <3>1. [x \in Req |-> EffectsOf(ask[x])][r] = EffectsOf(ask[r])
      OBVIOUS
    <3>2. QED
      BY <1>1, <2>2, <3>1, IncludeDoes DEF P!Next
  <2>3. ASSUME NEW r \in Req, SendingEnds(r), ask[r].op # "show" PROVE P!Next
    BY <1>1, <2>3, SendingTells DEF P!Next
  <2>4. ASSUME NEW k \in Key, HolderMoves(k) PROVE P!Next
    BY <1>1, <2>4, HolderGives DEF P!Next
  <2>5. QED
    BY <1>1, <2>1, <2>2, <2>3, <2>4, OthersAreUnseen DEF Next, Start, Handle
<1>2. QED
  BY <1>1, InitPromise, Invariance, PTL DEF Spec, KeepsPromise, P!Spec

-----------------------------------------------------------------------------
(* Submitting some transactions, or none, is a step of Broadcast.          *)
LEMMA SubmitIsNext ==
  ASSUME B!TypeOK, NEW T, T \subseteq Tx, B!Submit(T)
  PROVE  [B!Next]_(B!vars)
<1>1. CASE T = {}
  BY <1>1 DEF B!Submit, B!TypeOK, B!vars
<1>2. CASE T # {}
  BY <1>2 DEF B!Next
<1>3. QED
  BY <1>1, <1>2

(* Every transaction goes through broadcast: what Broadcast_proofs says of *)
(* it - an id is that of a transaction in a block, an answer and a fate    *)
(* are final - is so for all transactions of this module.                  *)
THEOREM SendsByBroadcast == Spec => B!Spec
<1>1. ASSUME IInv, [Next]_vars PROVE [B!Next]_(B!vars)
  <2>1. TypeOK /\ B!TypeOK
    BY <1>1 DEF IInv, TypeOK
  <2>2. ASSUME NEW r \in Req, StartSending(r) \/ SendAfterLook(r) PROVE [B!Next]_(B!vars)
    <3>1. PICK op : B!Submit(TxFor(op, r))
      BY <2>2 DEF StartSending, SendAfterLook, Sent
    <3>2. QED
      BY <2>1, <3>1, TxFacts, SubmitIsNext
  <2>3. ASSUME NEW r \in Req, Include(r) PROVE B!Next
    <3>1. PICK n \in Kinds : B!Apply(<<n, r>>)
      BY <2>3 DEF Include, Move, Burn, Enlist, Unlist, Verify, Kinds
    <3>2. QED
      BY <3>1, TxFacts DEF B!Next, B!Progress
  <2>4. ASSUME NEW t \in Tx, Outcome(t) PROVE B!Next
    BY <2>4 DEF Outcome, B!Next, B!Progress
  <2>5. QED
    BY <1>1, <2>2, <2>3, <2>4
       DEF Next, Start, Handle, Refuse, StartLooking, NodeAnswers, ShowEnds, TurnDown, SendingEnds,
           RequestFails, HolderMoves, Suspend, Crash, vars, B!vars
<1>2. Init => B!Init
  BY DEF Init
<1>3. QED
  BY <1>1, <1>2, Invariance, PTL DEF Spec, B!Spec
=============================================================================

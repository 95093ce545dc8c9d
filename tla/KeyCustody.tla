------------------------------ MODULE KeyCustody ------------------------------
(***************************************************************************)
(* What happens to keys once they exist: KeysService.show, transfer and    *)
(* burn, the whitelist calls of DevicesService (addKey, removeKey) and     *)
(* OrganisationsService (removeKey, addOrganisation).  Their requests      *)
(* share the keys, so they are modelled together, against a chain that     *)
(* knows who holds a key, which device lists it and which organisations    *)
(* the dApp has verified.                                                  *)
(*                                                                         *)
(* Every one of them is: read the chain, decide, send, wait - except that  *)
(* transfer sends while it is still reading.  What was read may no longer  *)
(* be so when the transaction reaches a block.                             *)
(***************************************************************************)
CONSTANTS
  Req,            \* HTTP requests
  Key,            \* assets
  Issued,         \* those whose issuer is the dApp
  Device, Organisation,
  Recipient,      \* addresses that keys are sent to
  Dapp,           \* the address of this supplier
  DeviceOf,       \* the device in the description of a key
  Malformed       \* a path parameter that does not match its pattern

Nobody == "nobody"   \* the holder of a burnt key

Holder == Recipient \cup {Dapp, Nobody}

ASSUME KeyAssumption ==
  /\ Issued \subseteq Key /\ DeviceOf \in [Key -> Device]
  /\ Organisation \subseteq Recipient
  /\ Nobody \notin Recipient \cup {Dapp}
  /\ Malformed \notin Key \cup Device \cup Recipient

VARIABLES
  ask,            \* what each request asks for
  step,           \* where it is, and then what it was answered
  look,           \* what its read of the chain has returned
  told,           \* whether the supplier was sent a message about it
  owner,          \* the chain: who holds each key
  listed,         \* the chain: the keys on the whitelist of each device
  entry,          \* the chain: the dApp's entry org_<address>
  fate, reply     \* the transactions, see Broadcast

handlers == <<ask, step, look, told>>
chain == <<owner, listed, entry>>
vars == <<ask, step, look, told, owner, listed, entry, fate, reply>>

(* PUT /keys/:assetId/transfer/:address                                    *)
TransferRequest == [op : {"transfer"}, key : Key \cup {Malformed}, at : Recipient \cup {Malformed}]
(* DELETE /keys/:assetId, GET /keys/:assetId                               *)
BurnRequest == [op : {"burn"}, key : Key \cup {Malformed}, at : {Dapp}]
ShowRequest == [op : {"show"}, key : Key \cup {Malformed}, at : {Dapp}]
(* POST and DELETE /devices/:address/keys/:assetId                         *)
AddKeyRequest    == [op : {"addKey"}, key : Key \cup {Malformed}, at : Device \cup {Malformed}]
RemoveKeyRequest == [op : {"removeKey"}, key : Key \cup {Malformed}, at : Device \cup {Malformed}]
(* DELETE /organisations/:organisation/keys/:key                           *)
RetireRequest == [op : {"retire"}, key : Key \cup {Malformed}, at : Organisation \cup {Malformed}]
(* POST /organisations/:address.  It names no key: any one stands for it.  *)
EnrolRequest == [op : {"enrol"}, key : Key, at : Organisation \cup {Malformed}]

Requests == TransferRequest \cup BurnRequest \cup ShowRequest \cup AddKeyRequest
              \cup RemoveKeyRequest \cup RetireRequest \cup EnrolRequest
NoRequest == [op |-> "none", key |-> Malformed, at |-> Dapp]

(* AddressValidationPipe and AssetIdValidationPipe.                        *)
WellFormed(q) == q.key # Malformed /\ q.at # Malformed

Kinds == {"move", "burn", "list", "unlist", "verify"}
Tx == Kinds \X Req

B == INSTANCE Broadcast

(* The transactions of each operation; retire sends its two at once.       *)
KindsOf(op) ==
  CASE op = "transfer"  -> {"move"}
    [] op = "burn"      -> {"burn"}
    [] op = "addKey"    -> {"list"}
    [] op = "removeKey" -> {"unlist"}
    [] op = "retire"    -> {"burn", "unlist"}
    [] op = "enrol"     -> {"verify"}
    [] OTHER            -> {}
TxFor(op, r) == KindsOf(op) \X {r}
Sent(r) == TxFor(ask[r].op, r)

(* The whitelist that a request is about.                                  *)
DeviceFor(q) == IF q.op = "retire" THEN DeviceOf[q.key] ELSE q.at

Answers == {"invalid", "notfound", "refused", "error", "ok", "lost"}
Steps == {"idle", "looking", "sending"} \cup Answers
Looks == {"none", "pending", "found", "missing", "failed"}
Entries == {"none", "active", "inactive"}

TypeOK ==
  /\ ask \in [Req -> Requests \cup {NoRequest}]
  /\ step \in [Req -> Steps]
  /\ look \in [Req -> Looks]
  /\ told \in [Req -> BOOLEAN]
  /\ owner \in [Key -> Holder]
  /\ listed \subseteq Device \X Key
  /\ entry \in [Organisation -> Entries]
  /\ B!TypeOK

Init ==
  /\ ask = [r \in Req |-> NoRequest]
  /\ step = [r \in Req |-> "idle"]
  /\ look = [r \in Req |-> "none"]
  /\ told = [r \in Req |-> FALSE]
  /\ owner \in [Key -> Holder \ {Nobody}]
  /\ listed \in SUBSET (Device \X Key)
  /\ entry \in [Organisation -> {"none", "active"}]
  /\ B!Init

-----------------------------------------------------------------------------
GoTo(r, s) == step' = [step EXCEPT ![r] = s]

(* The pipes answer 400 to a malformed parameter.  Everything else reaches *)
(* its handler, which runs to its first await: transfer has then sent its  *)
(* transaction and its read, addKey and removeKey their transaction, the   *)
(* others their reads.                                                     *)
Refuse(r) ==
  /\ step[r] = "idle"
  /\ \E q \in Requests : ~WellFormed(q)
  /\ GoTo(r, "invalid")
  /\ UNCHANGED <<ask, look, told, fate, reply>> /\ UNCHANGED chain

StartSending(r) ==
  /\ step[r] = "idle"
  /\ \E q \in TransferRequest \cup AddKeyRequest \cup RemoveKeyRequest :
       /\ WellFormed(q)
       /\ ask' = [ask EXCEPT ![r] = q]
       /\ look' = [look EXCEPT ![r] = IF q.op = "transfer" THEN "pending" ELSE "none"]
       /\ B!Submit(TxFor(q.op, r))
  /\ GoTo(r, "sending")
  /\ UNCHANGED told /\ UNCHANGED chain

StartLooking(r) ==
  /\ step[r] = "idle"
  /\ \E q \in BurnRequest \cup ShowRequest \cup RetireRequest \cup EnrolRequest :
       WellFormed(q) /\ ask' = [ask EXCEPT ![r] = q]
  /\ look' = [look EXCEPT ![r] = "pending"]
  /\ GoTo(r, "looking")
  /\ UNCHANGED <<told, fate, reply>> /\ UNCHANGED chain

(* What the node knows when it answers: the dApp's balance of the key      *)
(* (burn), any entry of the organisation (removeKey), one that says active *)
(* (addOrganisation).  Issuer and description of an asset never change.    *)
Seen(q) ==
  CASE q.op = "burn"   -> owner[q.key] = Dapp
    [] q.op = "retire" -> entry[q.at] # "none" /\ q.key \in Issued
    [] q.op = "enrol"  -> entry[q.at] = "active"
    [] OTHER           -> TRUE

NodeAnswers(r) ==
  /\ look[r] = "pending" /\ step[r] \in {"looking", "sending"}
  /\ \/ look' = [look EXCEPT ![r] = IF Seen(ask[r]) THEN "found" ELSE "missing"]
     \/ look' = [look EXCEPT ![r] = "failed"]
  /\ UNCHANGED <<ask, step, told, fate, reply>> /\ UNCHANGED chain

-----------------------------------------------------------------------------
(* The handlers, after the await of their reads.                           *)

ShowEnds(r) ==
  /\ step[r] = "looking" /\ ask[r].op = "show" /\ look[r] = "found"
  /\ GoTo(r, "ok")
  /\ UNCHANGED <<ask, look, told, fate, reply>> /\ UNCHANGED chain

(* Burn if the dApp held the key, burn and unlist if the organisation and  *)
(* the key are known, verify if the organisation was not active.           *)
SendAfterLook(r) ==
  /\ step[r] = "looking"
  /\ \/ ask[r].op \in {"burn", "retire"} /\ look[r] = "found"
     \/ ask[r].op = "enrol" /\ look[r] = "missing"
  /\ B!Submit(Sent(r))
  /\ GoTo(r, "sending")
  /\ UNCHANGED <<ask, look, told>> /\ UNCHANGED chain

(* NotFoundException, UnprocessableEntityException.                        *)
TurnDown(r) ==
  /\ step[r] = "looking"
  /\ \/ ask[r].op \in {"burn", "retire"} /\ look[r] = "missing" /\ GoTo(r, "notfound")
     \/ ask[r].op = "enrol" /\ look[r] = "found" /\ GoTo(r, "refused")
  /\ UNCHANGED <<ask, look, told, fate, reply>> /\ UNCHANGED chain

(* Faulty: Promise.race.                                                   *)
FirstSucceeds(r) == \E t \in Sent(r) : reply[t] = "ok"
(* Faulty: Promise.allSettled.                                             *)
AllEnd(r) == \A t \in Sent(r) : reply[t] # "none"
AllSucceed(r) == \A t \in Sent(r) : reply[t] = "ok"

(* Faulty: the answer waits for every transaction to fail.                 *)
AllFail(r) == \A t \in Sent(r) : reply[t] = "err"

OneFails(r) == (\E t \in Sent(r) : reply[t] = "err") \/ look[r] = "failed"

(* Faulty: the message goes out with the transfer.                         *)
ReadyWhenRead(r) == ask[r].op = "transfer" /\ look[r] = "found"

(* Promise.all of transfer: the read and the transfer.                     *)
Ready(r) == AllSucceed(r) /\ look[r] # "pending" /\ look[r] # "failed"

(* The supplier is sent its message without being waited for.              *)
SendingEnds(r) ==
  /\ step[r] = "sending" /\ Ready(r)
  /\ told' = [told EXCEPT ![r] = ask[r].op = "transfer"]
  /\ GoTo(r, "ok")
  /\ UNCHANGED <<ask, look, fate, reply>> /\ UNCHANGED chain

(* A failed transaction or read ends the request; what it has sent goes on.*)
RequestFails(r) ==
  /\ step[r] \in {"looking", "sending"} /\ OneFails(r)
  /\ GoTo(r, "error")
  /\ UNCHANGED <<ask, look, told, fate, reply>> /\ UNCHANGED chain

Crash ==
  /\ \E r \in Req : step[r] \in {"looking", "sending"}
  /\ step' = [r \in Req |-> IF step[r] \in {"looking", "sending"} THEN "lost" ELSE step[r]]
  /\ UNCHANGED <<ask, look, told, fate, reply>> /\ UNCHANGED chain

-----------------------------------------------------------------------------
(* The chain.  Only the holder of a key moves or burns it: the dApp itself *)
(* for move and burn, the organisation's script for retire.                *)

Move(r) ==
  /\ B!Apply(<<"move", r>>)
  /\ owner[ask[r].key] = Dapp
  /\ owner' = [owner EXCEPT ![ask[r].key] = ask[r].at]
  /\ UNCHANGED <<listed, entry>>

Burn(r) ==
  /\ B!Apply(<<"burn", r>>)
  /\ owner[ask[r].key] = ask[r].at
  /\ owner' = [owner EXCEPT ![ask[r].key] = Nobody]
  /\ UNCHANGED <<listed, entry>>

Enlist(r) ==
  /\ B!Apply(<<"list", r>>)
  /\ listed' = listed \cup {<<DeviceFor(ask[r]), ask[r].key>>}
  /\ UNCHANGED <<owner, entry>>

Unlist(r) ==
  /\ B!Apply(<<"unlist", r>>)
  /\ listed' = listed \ {<<DeviceFor(ask[r]), ask[r].key>>}
  /\ UNCHANGED <<owner, entry>>

Verify(r) ==
  /\ B!Apply(<<"verify", r>>)
  /\ entry' = [entry EXCEPT ![ask[r].at] = "active"]
  /\ UNCHANGED <<owner, listed>>

Include(r) ==
  /\ Move(r) \/ Burn(r) \/ Enlist(r) \/ Unlist(r) \/ Verify(r)
  /\ UNCHANGED handlers

(* A broadcast call returns or throws.  One whose request has been answered*)
(* or lost is left out: nobody looks at its outcome.  A transaction that   *)
(* is refused or expires stays sent for ever, so Drop is left out too.     *)
Outcome(t) ==
  /\ step[t[2]] = "sending"
  /\ B!Confirm(t) \/ B!Fail(t)
  /\ UNCHANGED handlers /\ UNCHANGED chain

(* Done without this API: a holder sends the key on, or back to the dApp,  *)
(* and the owner of the dApp changes the entry of an organisation.         *)
HolderMoves(k) ==
  /\ owner[k] \in Recipient \ {Dapp}
  /\ \E h \in Recipient \cup {Dapp} : owner' = [owner EXCEPT ![k] = h]
  /\ UNCHANGED <<listed, entry, fate, reply>> /\ UNCHANGED handlers

Suspend(o) ==
  /\ entry[o] = "active"
  /\ entry' = [entry EXCEPT ![o] = "inactive"]
  /\ UNCHANGED <<owner, listed, fate, reply>> /\ UNCHANGED handlers

Start(r) == Refuse(r) \/ StartSending(r) \/ StartLooking(r)
Handle(r) == \/ NodeAnswers(r) \/ ShowEnds(r) \/ SendAfterLook(r) \/ TurnDown(r)
             \/ SendingEnds(r) \/ RequestFails(r)

Next ==
  \/ \E r \in Req : Start(r) \/ Handle(r) \/ Include(r)
  \/ \E t \in Tx : Outcome(t)
  \/ \E k \in Key : HolderMoves(k)
  \/ \E o \in Organisation : Suspend(o)
  \/ Crash

(* The node answers a read or the connection ends, the event loop runs     *)
(* what is ready, and every broadcast call ends.                           *)
Fairness ==
  /\ \A r \in Req : WF_vars(Handle(r))
  /\ \A t \in Tx : WF_vars(Outcome(t))

Spec == Init /\ [][Next]_vars /\ Fairness

-----------------------------------------------------------------------------
Applied(T) == \A t \in T : fate[t] = "applied"
Destroys(r) == ask[r].op \in {"burn", "retire"}

(* The supplier is only told of transfers that have happened, whatever     *)
(* order the read and the transfer end in (transfer, lines 79-94).         *)
NoticeIsTrue ==
  \A r \in Req : told[r] => ask[r].op = "transfer" /\ Applied(Sent(r))

(* An id, or two, in an answer stand for transactions in a block: after a  *)
(* successful burn or removeKey the key is gone (removeKey, lines 31-36).  *)
OkMeansDone ==
  \A r \in Req : step[r] = "ok" =>
    Applied(Sent(r)) /\ (Destroys(r) => owner[ask[r].key] = Nobody)

(* However burns and removals of a key overlap - each may have read the    *)
(* chain before the other's transaction - one of them at most is told that *)
(* it has destroyed the key (burn, lines 101-107).                         *)
DestroyedOnce ==
  \A r, s \in Req :
    r # s /\ Destroys(r) /\ Destroys(s) /\ ask[r].key = ask[s].key
      => ~(step[r] = "ok" /\ step[s] = "ok")

(* A key that an organisation's removal reported as removed is on its      *)
(* device's whitelist only if an addKey has put it there (lines 31-34).    *)
RetiredKeysAreOff ==
  \A r \in Req : step[r] = "ok" /\ ask[r].op = "retire" =>
    \/ <<DeviceOf[ask[r].key], ask[r].key>> \notin listed
    \/ \E s \in Req : /\ ask[s].op = "addKey" /\ ask[s].key = ask[r].key
                      /\ ask[s].at = DeviceOf[ask[r].key] /\ Applied(Sent(s))

(* What the calls about keys promise, as CustodyPromise states it: each    *)
(* transaction that a request asks for takes effect at most once and only  *)
(* when asked for, and the client and the supplier are told when all of    *)
(* them have - whatever was read before, and whenever the read returns.    *)
EffectOf(q, n) ==
  [kind |-> n, key |-> q.key, at |-> IF n \in {"list", "unlist"} THEN DeviceFor(q) ELSE q.at]
EffectsOf(q) == {EffectOf(q, n) : n \in KindsOf(q.op)}

P == INSTANCE CustodyPromise WITH
       want <- [r \in Req |-> EffectsOf(ask[r])],
       have <- [r \in Req |-> {e \in EffectsOf(ask[r]) : fate[<<e.kind, r>>] = "applied"}],
       answered <- [r \in Req |-> step[r] = "ok" /\ ask[r].op # "show"],
       notified <- told
KeepsPromise == P!Spec

(* Every request is answered unless the process stops.                     *)
EveryRequestIsAnswered ==
  \A r \in Req : step[r] \in {"looking", "sending"} ~> step[r] \in Answers

-----------------------------------------------------------------------------
(* The inductive invariant.  What a request asked for, has sent and knows: *)
Control(r) ==
  /\ step[r] = "idle" => ask[r] = NoRequest
  /\ step[r] \in {"idle", "invalid", "looking", "notfound", "refused"} =>
       \A n \in Kinds : fate[<<n, r>>] = "none"
  /\ step[r] \notin {"idle", "invalid"} => ask[r] \in Requests /\ WellFormed(ask[r])
  /\ \A n \in Kinds : fate[<<n, r>>] # "none" =>
       n \in KindsOf(ask[r].op) /\ ask[r] \in Requests /\ WellFormed(ask[r])
  /\ step[r] = "ok" => \A t \in Sent(r) : reply[t] = "ok"
  /\ told[r] => step[r] = "ok" /\ ask[r].op = "transfer"

(* A burnt key stays burnt, and it was burnt once.                         *)
Burnt(r) == fate[<<"burn", r>>] = "applied" => owner[ask[r].key] = Nobody

BurntOnce ==
  \A r, s \in Req :
    fate[<<"burn", r>>] = "applied" /\ fate[<<"burn", s>>] = "applied" /\ ask[r].key = ask[s].key
      => r = s

(* A key taken off a whitelist is on it only if an addKey put it there.    *)
ListedBy(s, d, k) ==
  ask[s].op = "addKey" /\ ask[s].key = k /\ ask[s].at = d /\ fate[<<"list", s>>] = "applied"

Unlisted(r) ==
  fate[<<"unlist", r>>] = "applied" =>
    \/ <<DeviceFor(ask[r]), ask[r].key>> \notin listed
    \/ \E s \in Req : ListedBy(s, DeviceFor(ask[r]), ask[r].key)

IInv ==
  /\ TypeOK /\ B!OkMeansApplied /\ BurntOnce
  /\ \A r \in Req : Control(r) /\ Burnt(r) /\ Unlisted(r)
=============================================================================

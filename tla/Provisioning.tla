----------------------------- MODULE Provisioning -----------------------------
(***************************************************************************)
(* The calls that make accounts and pay for them: UsersService.create,     *)
(* DevicesService.create, connectExisting without an address, and          *)
(* UtilsService.faucet and setup.  Each generates what it needs, sends its *)
(* transactions in stages, waits for all of a stage before the next, and   *)
(* keeps the seed of the new account in a local variable until it answers. *)
(*                                                                         *)
(* The chain lets an account act only with money: what a new account signs *)
(* itself is paid from the grant of the configuration.                     *)
(***************************************************************************)
EXTENDS Naturals

CONSTANTS
  Req,         \* HTTP requests; each makes an account of its own
  Alias, NoAlias,
  Item,        \* ids of devices at the supplier
  MayMeet,     \* bound: what calls that are made next to each other want
  Configurations,      \* FAUCET_USER, FAUCET_DEVICE, ENCRYPTION_SALT and _IV
  ScriptFee, DataFee   \* in the same unit

ASSUME ProvisioningAssumption ==
  /\ NoAlias \notin Alias /\ "nobody" \notin Req
  /\ Configurations \subseteq [user : Nat, device : Nat, salted : BOOLEAN]
  /\ ScriptFee \in Nat /\ DataFee \in Nat

VARIABLES
  env,         \* the configuration
  ask,         \* what each request asks for
  step,        \* where it is, and then what it was answered
  aliases,     \* the chain: the aliases that are taken
  patch,       \* the supplier's part of the renaming of an item
  named,       \* the supplier: the account an item is named after
  fate, reply  \* the transactions, see Broadcast

vars == <<env, ask, step, aliases, patch, named, fate, reply>>

Kinds == {"fund", "entry", "script", "data", "dappScript", "alias", "dappData"}
Tx == Kinds \X Req

B == INSTANCE Broadcast

-----------------------------------------------------------------------------
(* The body of each call, as what it makes it want; a call without name    *)
(* and description makes no data for a user, one without parameters none   *)
(* for a device.                                                           *)
UserRequest    == [op : {"user"}, wants : {{"fund"}, {"fund", "data"}}, alias : {NoAlias}, item : Item]
DeviceRequest  == [op : {"device"}, wants : {{"fund", "entry", "script", "data"}},
                   alias : {NoAlias}, item : Item]
ReplaceRequest == [op : {"replace"}, alias : {NoAlias}, item : Item,
                   wants : {{"fund", "entry", "script"}, {"fund", "entry", "script", "data"}}]
FaucetRequest  == [op : {"faucet"}, wants : {{"fund"}}, alias : {NoAlias}, item : Item]
PlainSetup     == [op : {"setup"}, wants : {{"dappData"}, {"dappScript", "dappData"}},
                   alias : {NoAlias}, item : Item]
AliasSetup     == [op : {"setup"}, alias : Alias, item : Item,
                   wants : {{"alias", "dappData"}, {"dappScript", "alias", "dappData"}}]

Requests == UserRequest \cup DeviceRequest \cup ReplaceRequest \cup FaucetRequest
              \cup PlainSetup \cup AliasSetup
NoRequest == [op |-> "none", wants |-> {}, alias |-> NoAlias, item |-> "none"]

MakesAccount(q) == q.op \in {"user", "device", "replace"}

Steps == {"idle", "compiling", "sending", "renaming", "invalid", "notfound", "error", "ok", "lost"}
Busy == {"compiling", "sending", "renaming"}
Patches == {"none", "sent", "renamed", "missing", "refused"}

TypeOK ==
  /\ env \in Configurations
  /\ ask \in [Req -> Requests \cup {NoRequest}]
  /\ step \in [Req -> Steps]
  /\ aliases \subseteq Alias
  /\ patch \in [Req -> Patches]
  /\ named \in [Item -> Req \cup {"nobody"}]
  /\ B!TypeOK

Init ==
  /\ env \in Configurations
  /\ ask = [r \in Req |-> NoRequest]
  /\ step = [r \in Req |-> "idle"]
  /\ aliases = {}
  /\ patch = [r \in Req |-> "none"]
  /\ named = [i \in Item |-> "nobody"]
  /\ B!Init

-----------------------------------------------------------------------------
(* Faulty: the data of a new account is sent next to the faucet.           *)
NoWaitForFunds == {"dappScript"} \X {"alias", "dappData"} \cup {<<"alias", "dappData">>}

(* What is awaited before what is sent.                                    *)
Awaited == ({"fund"} \X {"entry", "script", "data"})
             \cup ({"dappScript"} \X {"alias", "dappData"}) \cup {<<"alias", "dappData">>}

(* The next stage of a request that has sent the transactions S.           *)
Stage(q, S) == {k \in q.wants \ S : \A j \in q.wants : <<j, k>> \in Awaited => j \in S}

Sent(r) == {k \in Kinds : fate[<<k, r>>] # "none"}
Due(r) == Stage(ask[r], Sent(r))

(* fetchScript reads the script from a file before it is sent.             *)
NeedsFile(S) == S \cap {"script", "dappScript"} # {}

GoTo(r, s) == step' = [step EXCEPT ![r] = s]

(* Class validators and pipes answer 400.                                  *)
Refuse(r) ==
  /\ step[r] = "idle"
  /\ GoTo(r, "invalid")
  /\ UNCHANGED <<env, ask, aliases, patch, named, fate, reply>>

Start(r) ==
  /\ step[r] = "idle"
  /\ \E q \in Requests :
       /\ \A s \in Req : ask[s].op = "none" \/ {q.wants, ask[s].wants} \in MayMeet
       /\ ask' = [ask EXCEPT ![r] = q]
       /\ \/ NeedsFile(Stage(q, {})) /\ GoTo(r, "compiling") /\ UNCHANGED <<fate, reply>>
          \/ ~NeedsFile(Stage(q, {})) /\ GoTo(r, "sending") /\ B!Submit(Stage(q, {}) \X {r})
  /\ UNCHANGED <<env, aliases, patch, named>>

(* Faulty: Promise.race, Promise.allSettled.                               *)
FirstSucceeds(r) == \E k \in Sent(r) : reply[<<k, r>>] = "ok"
AllEnd(r) == \A k \in Sent(r) : reply[<<k, r>>] # "none"

AllSucceed(r) == \A k \in Sent(r) : reply[<<k, r>>] = "ok"

(* Faulty: the call waits for every transaction to fail.                   *)
AllFail(r) == \A k \in Sent(r) : reply[<<k, r>>] = "err"

OneFails(r) == \E k \in Sent(r) : reply[<<k, r>>] = "err"

Continue(r) ==
  /\ step[r] = "sending" /\ AllSucceed(r) /\ Due(r) # {}
  /\ \/ NeedsFile(Due(r)) /\ GoTo(r, "compiling") /\ UNCHANGED <<fate, reply>>
     \/ ~NeedsFile(Due(r)) /\ B!Submit(Due(r) \X {r}) /\ UNCHANGED step
  /\ UNCHANGED <<env, ask, aliases, patch, named>>

(* A file that cannot be read ends the process: the callback goes on after *)
(* reject and takes the text of undefined.  That is a Crash.               *)
FileRead(r) ==
  /\ step[r] = "compiling"
  /\ B!Submit(Due(r) \X {r})
  /\ GoTo(r, "sending")
  /\ UNCHANGED <<env, ask, aliases, patch, named>>

StageFails(r) ==
  /\ step[r] = "sending" /\ OneFails(r)
  /\ GoTo(r, "error")
  /\ UNCHANGED <<env, ask, aliases, patch, named>> /\ UNCHANGED <<fate, reply>>

(* Faulty: the seed is encrypted when the answer is made.                  *)
EncryptLater(q) == TRUE

(* encrypt throws without a salt and an iv; only now is that found out.    *)
Encrypts(q) == MakesAccount(q) => env.salted

Finish(r) ==
  /\ step[r] = "sending" /\ AllSucceed(r) /\ Due(r) = {}
  /\ IF ~Encrypts(ask[r]) THEN GoTo(r, "error") /\ UNCHANGED patch
     ELSE IF ask[r].op = "replace"
          THEN GoTo(r, "renaming") /\ patch' = [patch EXCEPT ![r] = "sent"]
          ELSE GoTo(r, "ok") /\ UNCHANGED patch
  /\ UNCHANGED <<env, ask, aliases, named, fate, reply>>

(* Faulty: 404 is taken for a repeated call.                               *)
RenamedOrGone == {"renamed", "missing"}

Renamed == {"renamed"}

(* updateDeviceId: 404 from the supplier is 404, anything else that is not *)
(* a success is 400, and so is an answer that does not arrive.             *)
RenameEnds(r) ==
  /\ step[r] = "renaming"
  /\ \/ patch[r] \in Renamed /\ GoTo(r, "ok")
     \/ patch[r] = "missing" /\ GoTo(r, "notfound")
     \/ GoTo(r, "error")
  /\ UNCHANGED <<env, ask, aliases, patch, named>> /\ UNCHANGED <<fate, reply>>

Crash ==
  /\ \E r \in Req : step[r] \in Busy
  /\ step' = [r \in Req |-> IF step[r] \in Busy THEN "lost" ELSE step[r]]
  /\ UNCHANGED <<env, ask, aliases, patch, named, fate, reply>>

-----------------------------------------------------------------------------
(* The chain.  The money of the account that a request has made.           *)
Applied(k, r) == fate[<<k, r>>] = "applied"
Grant(r) == IF ask[r].op = "user" THEN env.user ELSE env.device
Spent(r) == (IF Applied("script", r) THEN ScriptFee ELSE 0) + (IF Applied("data", r) THEN DataFee ELSE 0)
CanPay(r, fee) == Applied("fund", r) /\ Spent(r) + fee <= Grant(r)

PaidByDapp(r) == \E k \in {"fund", "entry", "dappScript", "dappData"} : B!Apply(<<k, r>>) /\ UNCHANGED aliases
SetScript(r) == B!Apply(<<"script", r>>) /\ CanPay(r, ScriptFee) /\ UNCHANGED aliases
InsertData(r) == B!Apply(<<"data", r>>) /\ CanPay(r, DataFee) /\ UNCHANGED aliases

(* An alias belongs to one account for ever.  One that somebody else holds *)
(* shows as one that never gets into a block.                              *)
SetAlias(r) ==
  /\ B!Apply(<<"alias", r>>)
  /\ ask[r].alias \notin aliases
  /\ aliases' = aliases \cup {ask[r].alias}

Include(r) ==
  /\ PaidByDapp(r) \/ SetScript(r) \/ InsertData(r) \/ SetAlias(r)
  /\ UNCHANGED <<env, ask, step, patch, named>>

Outcome(t) ==
  /\ step[t[2]] = "sending"
  /\ B!Confirm(t) \/ B!Fail(t)
  /\ UNCHANGED <<env, ask, step, aliases, patch, named>>

(* The supplier, whether or not anybody still waits: it knows the item by  *)
(* its old id until it is renamed.                                         *)
Patched(r) ==
  /\ patch[r] = "sent"
  /\ \/ /\ named[ask[r].item] = "nobody"
        /\ patch' = [patch EXCEPT ![r] = "renamed"]
        /\ named' = [named EXCEPT ![ask[r].item] = r]
     \/ /\ named[ask[r].item] # "nobody"
        /\ patch' = [patch EXCEPT ![r] = "missing"]
        /\ UNCHANGED named
     \/ patch' = [patch EXCEPT ![r] = "refused"] /\ UNCHANGED named
  /\ UNCHANGED <<env, ask, step, aliases, fate, reply>>

Handle(r) == Continue(r) \/ FileRead(r) \/ StageFails(r) \/ Finish(r) \/ RenameEnds(r)

Next ==
  \/ \E r \in Req : Refuse(r) \/ Start(r) \/ Handle(r) \/ Include(r) \/ Patched(r)
  \/ \E t \in Tx : Outcome(t)
  \/ Crash

(* The event loop runs what is ready, and every call of a node or of the   *)
(* supplier ends.                                                          *)
Fairness ==
  /\ \A r \in Req : WF_vars(Handle(r))
  /\ \A t \in Tx : WF_vars(Outcome(t))

Spec == Init /\ [][Next]_vars /\ Fairness

-----------------------------------------------------------------------------
Asked(r) == ask[r].op # "none"
Complete(r) == Asked(r) /\ \A k \in ask[r].wants : Applied(k, r)

(* The pieces of a call: its transactions and, for connect_existing, the   *)
(* new name of the item.                                                   *)
CallPieces == Kinds \cup {"name"}
Wanted(r) == ask[r].wants \cup (IF ask[r].op = "replace" THEN {"name"} ELSE {})
InPlace(r) == {k \in Kinds : Applied(k, r)} \cup (IF \E i \in Item : named[i] = r THEN {"name"} ELSE {})

(* An account is paid for before anything is done with it; the dApp is     *)
(* described last; an item is named after an account that has everything.  *)
AccountOrder == ({"fund"} \X {"entry", "script", "data"})
                  \cup ({"dappScript", "alias"} \X {"dappData"}) \cup (Kinds \X {"name"})

(* A caller is given an address and the only copy of a seed when all of    *)
(* the account is on the chain and its item is named after it, and each    *)
(* piece got there in order (StagedPromise).                               *)
P == INSTANCE StagedPromise WITH
       Pieces <- CallPieces, Order <- AccountOrder,
       want <- [r \in Req |-> Wanted(r)],
       have <- [r \in Req |-> InPlace(r)],
       told <- [r \in Req |-> step[r] = "ok"]
KeepsPromise == P!Spec

(* An item of the supplier is renamed to a device only when the device is  *)
(* complete and its seed could be encrypted (create comes first in         *)
(* connectExisting, lines 195-200).                                        *)
NamedWhenComplete ==
  \A i \in Item : named[i] # "nobody" => Complete(named[i]) /\ env.salted

(* A call of connect_existing that succeeds has given the item its account *)
(* - of several calls for one item, at most one succeeds.                  *)
OneAccountPerItem ==
  \A r \in Req : ask[r].op = "replace" /\ step[r] = "ok" => named[ask[r].item] = r

(* A setup that is repeated with the alias it has already got can never    *)
(* succeed, whatever the first answer was (setup, lines 53-57).            *)
AliasOnce ==
  \A r, s \in Req :
    r # s /\ Applied("alias", r) /\ ask[s].alias = ask[r].alias => step[s] # "ok"

(* The grant of the configuration bounds what can be made: an account whose*)
(* fees exceed it is never reported nor named.  With the default of        *)
(* config.ts, 10, a script costs more than any device is given.            *)
NothingOnCredit ==
  \A r \in Req : MakesAccount(ask[r]) /\ (step[r] = "ok" \/ \E i \in Item : named[i] = r) =>
    (IF "script" \in ask[r].wants THEN ScriptFee ELSE 0)
      + (IF "data" \in ask[r].wants THEN DataFee ELSE 0) <= Grant(r)

(* Every request is answered unless the process stops.                     *)
EveryRequestIsAnswered ==
  \A r \in Req : step[r] \in Busy ~> step[r] \notin Busy

-----------------------------------------------------------------------------
(* The inductive invariant.  A request has sent what it wants, in order:   *)
(* what is awaited before something that is sent is in a block.            *)
Control(r) ==
  /\ step[r] \in {"idle", "invalid"} => ask[r] = NoRequest
  /\ step[r] \notin {"idle", "invalid"} => ask[r] \in Requests
  /\ \A k \in Kinds : fate[<<k, r>>] # "none" =>
       /\ k \in ask[r].wants
       /\ \A j \in ask[r].wants : <<j, k>> \in Awaited => Applied(j, r)
  /\ step[r] = "compiling" => AllSucceed(r)
  /\ step[r] \in {"renaming", "ok"} => \A k \in ask[r].wants : Applied(k, r)

(* Only a complete device is renamed, and an item once.                    *)
Patching(r) ==
  /\ patch[r] # "none" =>
       /\ step[r] \notin {"idle", "invalid", "compiling", "sending"}
       /\ ask[r].op = "replace" /\ env.salted /\ \A k \in ask[r].wants : Applied(k, r)
  /\ patch[r] = "renamed" => named[ask[r].item] = r
  /\ step[r] = "ok" /\ ask[r].op = "replace" => patch[r] = "renamed"

Naming ==
  \A i \in Item : named[i] # "nobody" => patch[named[i]] = "renamed" /\ ask[named[i]].item = i

(* An alias that is in use is taken, by one request.                       *)
Taken(r) == Applied("alias", r) => ask[r].alias \in aliases

OneHolder ==
  \A r, s \in Req :
    Applied("alias", r) /\ Applied("alias", s) /\ ask[r].alias = ask[s].alias => r = s

(* No account has spent more than it was given.                            *)
Credit(r) == Spent(r) <= Grant(r)

IInv ==
  /\ TypeOK /\ B!OkMeansApplied /\ Naming /\ OneHolder
  /\ \A r \in Req : Control(r) /\ Patching(r) /\ Taken(r) /\ Credit(r)
=============================================================================

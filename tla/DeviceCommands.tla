---------------------------- MODULE DeviceCommands ----------------------------
(***************************************************************************)
(* DevicesCommandService: POST /devices/:address/commands/:command sends a *)
(* transaction that acts on a device, and POST .../validate_transaction    *)
(* judges a transaction that a caller has signed, with the validators for  *)
(* deviceAction and deviceActionAs.                                        *)
(*                                                                         *)
(* A validation is four or six reads at once, of a chain that goes on      *)
(* growing under them; the owner of the key is read one block back.  What  *)
(* the blocks say is chosen at the start (history), since nothing these    *)
(* calls do changes it before they have answered; height is what moves.    *)
(***************************************************************************)
EXTENDS Naturals

CONSTANTS
  Req,         \* HTTP requests
  MaxHeight,   \* bound: the last block
  Histories    \* bound: what the blocks say in turn

(* What a validator looks up: the dApp lists the device, the device lists  *)
(* the key, the key is there, its description names the device and is not  *)
(* out of date, the holder holds it, the caller is a member of the         *)
(* organisation, it is verified.  Device and key are those of the path of  *)
(* the request, holder and caller those of the transaction.  The key and   *)
(* the dApp that the transaction itself names are not looked at.           *)
Facts == {"device", "listed", "valid", "owner", "member", "verified"}

ASSUME CommandsAssumption ==
  /\ MaxHeight \in Nat /\ MaxHeight >= 2
  /\ Histories \subseteq [1 .. MaxHeight -> SUBSET Facts]

VARIABLES
  history, height,   \* the chain
  ask, step,
  todo,        \* the facts whose reads have not returned
  tip,         \* what fetchHeight has returned, 0 before
  why,         \* the fact that the error of a verdict is about
  began,       \* the height when a request came in, for the properties
  fate, reply  \* the transactions, see Broadcast

vars == <<history, height, ask, step, todo, tip, why, began, fate, reply>>

B == INSTANCE Broadcast WITH Tx <- Req

-----------------------------------------------------------------------------
(* A transaction to judge: its type, the function that it calls, whether   *)
(* its signature is right - verify may also throw, which counts as wrong - *)
(* and whether it has the third argument, the owner of the key.            *)
Judgements == [op : {"validate"}, type : {"none", "invoke", "other"},
               call : {"none", "deviceAction", "deviceActionAs", "other"},
               signed : BOOLEAN, owner : BOOLEAN, wait : {"-"}]

(* A command: deviceAction when the dApp holds the key.  The query         *)
(* parameter waitForTx is any text or is left out.                         *)
Commands == [op : {"command"}, type : {"invoke"}, call : {"deviceAction", "deviceActionAs"},
             signed : {TRUE}, owner : {TRUE}, wait : {"true", "false", "other"}]

NoRequest == [op |-> "none", type |-> "none", call |-> "none",
              signed |-> FALSE, owner |-> FALSE, wait |-> "-"]

(* Faulty: a missing parameter is not a wish to wait.                      *)
WaitsOnDemand(q) == q.wait = "true"

Waits(q) == q.wait # "false"

(* What each validator needs.                                              *)
Needed(q) ==
  {"device", "listed", "valid", "owner"} \cup (IF q.call = "deviceActionAs" THEN {"member", "verified"} ELSE {})

Steps == {"idle", "finding", "checking", "fetching", "sending",
          "verified", "denied", "invalid", "notfound", "error", "ok", "lost"}
Busy == {"finding", "checking", "fetching", "sending"}

TypeOK ==
  /\ history \in Histories /\ height \in 2 .. MaxHeight
  /\ ask \in [Req -> Judgements \cup Commands \cup {NoRequest}]
  /\ step \in [Req -> Steps]
  /\ todo \in [Req -> SUBSET Facts]
  /\ tip \in [Req -> 0 .. MaxHeight]
  /\ why \in [Req -> Facts \cup {"-"}]
  /\ began \in [Req -> 2 .. MaxHeight]
  /\ B!TypeOK

Init ==
  /\ history \in Histories /\ height = 2
  /\ ask = [r \in Req |-> NoRequest]
  /\ step = [r \in Req |-> "idle"]
  /\ todo = [r \in Req |-> {}]
  /\ tip = [r \in Req |-> 0]
  /\ why = [r \in Req |-> "-"]
  /\ began = [r \in Req |-> 2]
  /\ B!Init

-----------------------------------------------------------------------------
GoTo(r, s) == step' = [step EXCEPT ![r] = s]

Start(r) ==
  /\ step[r] = "idle"
  /\ \E q \in Judgements \cup Commands :
       /\ ask' = [ask EXCEPT ![r] = q]
       /\ GoTo(r, IF q.op = "command" THEN "fetching" ELSE "finding")
  /\ began' = [began EXCEPT ![r] = height]
  /\ UNCHANGED <<history, height, todo, tip, why, fate, reply>>

(* fetchDevice: any error of it is answered 404.                           *)
DeviceMissing(r) ==
  /\ step[r] = "finding"
  /\ GoTo(r, "notfound")
  /\ UNCHANGED <<history, height, ask, todo, tip, why, began>> /\ UNCHANGED <<fate, reply>>

(* A property of something that is not there is read: the function of no   *)
(* call, or, once the signature is right, the value of no third argument.  *)
Throws(q) ==
  /\ q.type = "invoke"
  /\ \/ q.call = "none"
     \/ q.call = "deviceActionAs" /\ q.signed /\ ~q.owner

(* What comes to the checks.  Turned down without the chain are a body     *)
(* without transaction, another type, a function without validator, a      *)
(* signature that is not right.                                            *)
WellFormed(q) ==
  /\ q.type = "invoke" /\ q.call \in {"deviceAction", "deviceActionAs"} /\ q.signed
  /\ ~Throws(q)

DeviceFound(r) ==
  /\ step[r] = "finding"
  /\ \/ /\ WellFormed(ask[r])
        /\ GoTo(r, "checking") /\ todo' = [todo EXCEPT ![r] = Needed(ask[r])]
     \/ /\ Throws(ask[r])
        /\ GoTo(r, "error") /\ UNCHANGED todo
     \/ /\ ~WellFormed(ask[r]) /\ ~Throws(ask[r])
        /\ GoTo(r, "invalid") /\ UNCHANGED todo
  /\ UNCHANGED <<history, height, ask, tip, why, began, fate, reply>>

(* addressOwnsKey reads the height first.                                  *)
SeeHeight(r) ==
  /\ step[r] = "checking" /\ "owner" \in todo[r] /\ tip[r] = 0
  /\ tip' = [tip EXCEPT ![r] = height]
  /\ UNCHANGED <<history, height, ask, step, todo, why, began, fate, reply>>

(* Faulty: the owner is read at the height itself.                         *)
OwnerAtTip(r, f) == IF f = "owner" THEN f \in history[tip[r]] ELSE f \in history[height]

(* What the node says of a fact.                                           *)
Holds(r, f) == IF f = "owner" THEN f \in history[tip[r] - 1] ELSE f \in history[height]

(* One check returns.                                                      *)
FactHolds(r, f) ==
  /\ step[r] = "checking" /\ f \in todo[r] /\ (f = "owner" => tip[r] # 0)
  /\ Holds(r, f)
  /\ todo' = [todo EXCEPT ![r] = @ \ {f}]
  /\ UNCHANGED <<history, height, ask, step, tip, why, began, fate, reply>>

(* The first ValidationError ends the validation with its message.         *)
FactFails(r, f) ==
  /\ step[r] = "checking" /\ f \in todo[r] /\ (f = "owner" => tip[r] # 0)
  /\ ~Holds(r, f)
  /\ GoTo(r, "denied")
  /\ why' = [why EXCEPT ![r] = f]
  /\ UNCHANGED <<history, height, ask, todo, tip, began, fate, reply>>

(* Faulty: any error of a read is a verdict.                               *)
Verdict(f) == "denied"

(* Another error is thrown on; of the key, as 404.                         *)
OtherError(f) == IF f = "valid" THEN "notfound" ELSE "error"

ReadFails(r, f) ==
  /\ step[r] = "checking" /\ f \in todo[r]
  /\ GoTo(r, OtherError(f))
  /\ why' = [why EXCEPT ![r] = f]
  /\ UNCHANGED <<history, height, ask, todo, tip, began, fate, reply>>

(* Faulty: both validators wait for six checks.                            *)
SixHold(r) == Needed(ask[r]) \ todo[r] = Facts

AllHold(r) == todo[r] = {}

(* The verified transaction is answered and forgotten.                     *)
Verified(r) ==
  /\ step[r] = "checking" /\ AllHold(r)
  /\ GoTo(r, "verified")
  /\ UNCHANGED <<history, height, ask, todo, tip, why, began, fate, reply>>

-----------------------------------------------------------------------------
(* deviceCommand: the issuer of the key is the dApp that the action goes to.*)
KeyMissing(r) ==
  /\ step[r] = "fetching"
  /\ GoTo(r, "error")
  /\ UNCHANGED <<history, height, ask, todo, tip, why, began>> /\ UNCHANGED <<fate, reply>>

KeyFetched(r) ==
  /\ step[r] = "fetching"
  /\ B!Submit({r})
  /\ GoTo(r, "sending")
  /\ UNCHANGED <<history, height, ask, todo, tip, why, began>>

(* The library broadcasts, and waits for the block if it is told to.       *)
CommandEnds(r) ==
  /\ step[r] = "sending"
  /\ IF Waits(ask[r]) THEN B!Confirm(r) ELSE UNCHANGED <<fate, reply>>
  /\ GoTo(r, "ok")
  /\ UNCHANGED <<history, height, ask, todo, tip, why, began>>

CommandFails(r) ==
  /\ step[r] = "sending" /\ B!Fail(r)
  /\ GoTo(r, "error")
  /\ UNCHANGED <<history, height, ask, todo, tip, why, began>>

Crash ==
  /\ \E r \in Req : step[r] \in Busy
  /\ step' = [r \in Req |-> IF step[r] \in Busy THEN "lost" ELSE step[r]]
  /\ UNCHANGED <<history, height, ask, todo, tip, why, began, fate, reply>>

(* The chain: one more block, and the transaction of a command in a block. *)
(* Whether the dApp's script accepts it is its own matter.                 *)
Block ==
  /\ height < MaxHeight
  /\ height' = height + 1
  /\ UNCHANGED <<history, ask, step, todo, tip, why, began, fate, reply>>

Include(r) ==
  /\ B!Apply(r)
  /\ UNCHANGED <<history, height, ask, step, todo, tip, why, began>>

Check(r) == SeeHeight(r) \/ \E f \in Facts : FactHolds(r, f) \/ FactFails(r, f) \/ ReadFails(r, f)

Handle(r) == \/ DeviceMissing(r) \/ DeviceFound(r) \/ Check(r) \/ Verified(r)
             \/ KeyMissing(r) \/ KeyFetched(r) \/ CommandEnds(r) \/ CommandFails(r)

Next ==
  \/ \E r \in Req : Start(r) \/ Handle(r) \/ Include(r)
  \/ Block \/ Crash

(* Every read and every broadcast ends, the event loop runs what is ready. *)
Spec == Init /\ [][Next]_vars /\ \A r \in Req : WF_vars(Handle(r))

-----------------------------------------------------------------------------
(* The heights that a read of a fact for request r may have looked at.     *)
Window(r, f) ==
  IF f = "owner" THEN {h \in 1 .. MaxHeight : began[r] <= h + 1 /\ h < height}
                 ELSE began[r] .. height

(* A verdict of verified rests on the chain: each fact that its function   *)
(* needs was so in some block while the request ran, and the key was held  *)
(* in a block that was not the last (validators, lines 25-99).  Blocks may *)
(* come between the reads, so more than this cannot be said.  The facts    *)
(* are about the key of the path: that the transaction is to use that key  *)
(* the code does not check, and this does not say.                         *)
VerifiedMeansHeld ==
  \A r \in Req : step[r] = "verified" =>
    WellFormed(ask[r]) /\ \A f \in Needed(ask[r]) : \E h \in Window(r, f) : f \in history[h]

(* A verdict that blames a fact is right: it did not hold in some block    *)
(* while the request ran.  A read that failed is never a verdict           *)
(* (canInteractDirectly, lines 12-20).                                     *)
DeniedMeansFailed ==
  \A r \in Req : step[r] = "denied" =>
    /\ why[r] \in Needed(ask[r])
    /\ \E h \in Window(r, why[r]) : why[r] \notin history[h]

(* Unless the caller has asked not to wait, an answered command is in a    *)
(* block; leaving waitForTx out, or misspelling it, is no such wish        *)
(* (command, lines 432-442).                                               *)
WaitedMeansApplied ==
  \A r \in Req : step[r] = "ok" /\ ask[r].wait # "false" => fate[r] = "applied"

(* Every call is answered unless the process stops.                        *)
EveryCallIsAnswered ==
  \A r \in Req : step[r] \in Busy ~> step[r] \notin Busy

-----------------------------------------------------------------------------
(* The inductive invariant: what the reads that have returned saw.         *)
RequestInv(r) ==
  /\ step[r] # "idle" => ask[r] # NoRequest
  /\ began[r] <= height /\ tip[r] <= height
  /\ tip[r] # 0 => began[r] <= tip[r]
  /\ step[r] = "idle" => tip[r] = 0
  /\ step[r] \in {"checking", "verified", "denied"} => WellFormed(ask[r])
  /\ step[r] \in {"checking", "verified"} =>
       \A f \in Needed(ask[r]) \ todo[r] : \E h \in Window(r, f) : f \in history[h]
  /\ step[r] = "checking" => todo[r] \subseteq Needed(ask[r])
  /\ step[r] = "verified" => todo[r] = {}
  /\ step[r] = "denied" =>
       why[r] \in Needed(ask[r]) /\ \E h \in Window(r, why[r]) : why[r] \notin history[h]
  /\ step[r] = "ok" /\ Waits(ask[r]) => fate[r] = "applied"

IInv == TypeOK /\ B!OkMeansApplied /\ \A r \in Req : RequestInv(r)
=============================================================================

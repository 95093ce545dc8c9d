------------------------- MODULE GenerateAndTransfer --------------------------
(***************************************************************************)
(* KeysService.createAndTransfer (POST /keys/generate_and_transfer): the   *)
(* supplier is told that keys of the device are being handed over, then    *)
(* keys are issued, whitelisted and transferred, each stage for all keys   *)
(* at once and only after the stage before has succeeded for all of them.  *)
(* Nothing is undone when a stage fails.                                   *)
(***************************************************************************)
EXTENDS Naturals, FiniteSets

CONSTANTS Call, Key, CallOf,
          KeyLimit   \* maxAmount of validateKeyLimit: 80

ASSUME CallAssumption == CallOf \in [Key -> Call] /\ KeyLimit \in Nat

VARIABLES
  keys,    \* the keys each call asks for
  step,    \* where the call is, and then what it was answered
  flag,    \* whether the supplier has set keyTransferred for the call
  fate, reply   \* the transactions, see Broadcast

local == <<keys, step, flag>>
vars == <<keys, step, flag, fate, reply>>

Issue(k)    == <<"issue", k>>
Transfer(k) == <<"transfer", k>>
Listing(c)  == <<"list", c>>
Tx == ({"issue", "transfer"} \X Key) \cup ({"list"} \X Call)

B == INSTANCE Broadcast

KeysOf(c) == {k \in Key : CallOf[k] = c}
Issues(c) == {Issue(k) : k \in keys[c]}
Transfers(c) == {Transfer(k) : k \in keys[c]}

Stages  == {"flagging", "issuing", "listing", "moving"}
Answers == {"invalid", "unreachable", "error", "ok", "lost"}

TypeOK ==
  /\ keys \in [Call -> SUBSET Key]
  /\ \A c \in Call : keys[c] \subseteq KeysOf(c)
  /\ step \in [Call -> {"idle"} \cup Stages \cup Answers]
  /\ flag \in [Call -> BOOLEAN]
  /\ B!TypeOK

Init ==
  /\ keys = [c \in Call |-> {}]
  /\ step = [c \in Call |-> "idle"]
  /\ flag = [c \in Call |-> FALSE]
  /\ B!Init

-----------------------------------------------------------------------------
GoTo(c, s) == step' = [step EXCEPT ![c] = s]
Stay == UNCHANGED <<keys, flag>>

(* validateKeyLimit, validateTimestamp, then the request to the supplier.  *)
Start(c) ==
  /\ step[c] = "idle"
  /\ \E K \in SUBSET KeysOf(c) : \E late \in BOOLEAN :
       /\ K # {}
       /\ keys' = [keys EXCEPT ![c] = K]
       /\ GoTo(c, IF Cardinality(K) > KeyLimit \/ late THEN "invalid" ELSE "flagging")
  /\ UNCHANGED <<flag, fate, reply>>

(* The supplier takes the PATCH, whether or not anybody still waits for    *)
(* its answer.                                                             *)
Patch(c) ==
  /\ step[c] \in {"flagging", "unreachable", "lost"} /\ ~flag[c]
  /\ flag' = [flag EXCEPT ![c] = TRUE]
  /\ UNCHANGED <<keys, step, fate, reply>>

(* Its answer arrives: issue every key.                                    *)
FlagSet(c) ==
  /\ step[c] = "flagging" /\ flag[c]
  /\ GoTo(c, "issuing")
  /\ B!Submit(Issues(c))
  /\ Stay

(* Faulty: the error is logged, as it is for the other messages.           *)
FlagFailsUnnoticed(c) ==
  /\ step[c] = "flagging"
  /\ GoTo(c, "issuing")
  /\ B!Submit(Issues(c))
  /\ Stay

(* It refuses the PATCH, or its answer is lost: BadRequestException, with  *)
(* the property set or not.                                                *)
FlagFails(c) ==
  /\ step[c] = "flagging"
  /\ GoTo(c, "unreachable")
  /\ Stay /\ UNCHANGED <<fate, reply>>

(* Faulty: Promise.any.                                                    *)
FirstSucceeds(T) == T = {} \/ \E t \in T : reply[t] = "ok"

(* Promise.all.                                                            *)
AllSucceed(T) == \A t \in T : reply[t] = "ok"

(* Faulty: an error is waited for with every other outcome.                *)
AllFail(T) == T # {} /\ \A t \in T : reply[t] = "err"

(* Promise.all rejects with the first error; it waits for no one else.     *)
OneFails(T) == \E t \in T : reply[t] = "err"

IssuesEnd(c) ==
  /\ step[c] = "issuing"
  /\ AllSucceed(Issues(c))
  /\ GoTo(c, "listing")
  /\ B!Submit({Listing(c)})
  /\ Stay

ListingEnds(c) ==
  /\ step[c] = "listing"
  /\ AllSucceed({Listing(c)})
  /\ GoTo(c, "moving")
  /\ B!Submit(Transfers(c))
  /\ Stay

TransfersEnd(c) ==
  /\ step[c] = "moving"
  /\ AllSucceed(Transfers(c))
  /\ GoTo(c, "ok")
  /\ Stay /\ UNCHANGED <<fate, reply>>

(* What a stage waits for.                                                 *)
Awaited(c) == IF step[c] = "issuing" THEN Issues(c)
              ELSE IF step[c] = "listing" THEN {Listing(c)} ELSE Transfers(c)

StageFails(c) ==
  /\ step[c] \in {"issuing", "listing", "moving"}
  /\ OneFails(Awaited(c))
  /\ GoTo(c, "error")
  /\ Stay /\ UNCHANGED <<fate, reply>>

Crash ==
  /\ \E c \in Call : step[c] \in Stages
  /\ step' = [c \in Call |-> IF step[c] \in Stages THEN "lost" ELSE step[c]]
  /\ Stay /\ UNCHANGED <<fate, reply>>

Chain == (\E t \in Tx : B!Progress(t)) /\ UNCHANGED local

Handle(c) == \/ FlagSet(c) \/ FlagFails(c) \/ IssuesEnd(c) \/ ListingEnds(c)
             \/ TransfersEnd(c) \/ StageFails(c)

Next ==
  \/ \E c \in Call : Start(c) \/ Handle(c) \/ Patch(c)
  \/ Crash
  \/ Chain

(* The supplier's server answers or the connection ends, the event loop    *)
(* runs what is ready, and every broadcast call ends.                      *)
Fairness ==
  /\ \A c \in Call : WF_vars(Handle(c))
  /\ \A t \in Tx : WF_vars((B!Confirm(t) \/ B!Fail(t)) /\ UNCHANGED local)

Spec == Init /\ [][Next]_vars /\ Fairness

-----------------------------------------------------------------------------
Applied(T) == \A t \in T : fate[t] = "applied"

(* A user is never sent a key that the device does not know yet, nor any   *)
(* key of an incomplete batch; and the whitelist is never sent before the  *)
(* whole batch is on the chain (createAndTransfer, lines 118-126).         *)
NoPartialHandover ==
  \A c \in Call :
    /\ fate[Listing(c)] # "none" => Applied(Issues(c))
    /\ \A k \in keys[c] : fate[Transfer(k)] # "none" => Applied(Issues(c) \cup {Listing(c)})

(* The supplier has set keyTransferred before anything of the call is on   *)
(* the chain (line 116 awaits it).                                         *)
FlaggedFirst ==
  \A c \in Call : \A k \in KeysOf(c) : fate[Issue(k)] # "none" => flag[c]

(* A successful answer means that the whole batch is issued, whitelisted   *)
(* and with the user (lines 126-131).                                      *)
OkMeansDelivered ==
  \A c \in Call : step[c] = "ok" =>
    flag[c] /\ Applied(Issues(c) \cup {Listing(c)} \cup Transfers(c))

(* What the call promises, whatever it sends and waits for: the supplier   *)
(* knows, every key is issued, the list is on the device, every key is     *)
(* moved, strictly in this order even when the call is given up half way,  *)
(* and ok is told when all of that is done (StagedPromise).                *)
Flag(c) == <<"flag", c>>
Wanted(c) == IF step[c] \in {"idle", "invalid"} THEN {}
             ELSE Issues(c) \cup Transfers(c) \cup {Flag(c), Listing(c)}
InPlace(c) == {p \in Wanted(c) : IF p = Flag(c) THEN flag[c] ELSE fate[p] = "applied"}
Pieces == Tx \cup ({"flag"} \X Call)
HandoverOrder ==
  {o \in Pieces \X Pieces :
     <<o[1][1], o[2][1]>> \in {<<"flag", "issue">>, <<"issue", "list">>, <<"list", "transfer">>}}

P == INSTANCE StagedPromise WITH
       Req <- Call, Order <- HandoverOrder,
       want <- [c \in Call |-> Wanted(c)],
       have <- [c \in Call |-> InPlace(c)],
       told <- [c \in Call |-> step[c] = "ok"]
KeepsPromise == P!Spec

(* Every call is answered unless the process stops: a Promise.all ends     *)
(* whatever becomes of the transactions it waits for.                      *)
EveryCallIsAnswered ==
  \A c \in Call : step[c] \in Stages ~> step[c] \in Answers

(* The inductive invariant: what each stage of a call stands on, and what  *)
(* a transaction stands on whatever has become of the call.                *)
CallInv(c) ==
  /\ step[c] \in {"idle", "invalid"} => ~flag[c]
  /\ step[c] \in {"idle", "flagging", "invalid", "unreachable"} =>
       /\ fate[Listing(c)] = "none"
       /\ \A k \in KeysOf(c) : fate[Issue(k)] = "none" /\ fate[Transfer(k)] = "none"
  /\ step[c] = "issuing" =>
       flag[c] /\ fate[Listing(c)] = "none" /\ \A k \in KeysOf(c) : fate[Transfer(k)] = "none"
  /\ step[c] = "listing" =>
       /\ flag[c] /\ \A k \in keys[c] : reply[Issue(k)] = "ok"
       /\ \A k \in KeysOf(c) : fate[Transfer(k)] = "none"
  /\ step[c] \in {"moving", "ok"} =>
       flag[c] /\ reply[Listing(c)] = "ok" /\ \A k \in keys[c] : reply[Issue(k)] = "ok"
  /\ step[c] = "ok" => \A k \in keys[c] : reply[Transfer(k)] = "ok"
  /\ fate[Listing(c)] # "none" => \A k \in keys[c] : fate[Issue(k)] = "applied"
  /\ \A k \in keys[c] : fate[Transfer(k)] # "none" =>
       fate[Listing(c)] = "applied" /\ \A l \in keys[c] : fate[Issue(l)] = "applied"
  /\ \A k \in KeysOf(c) : fate[Issue(k)] # "none" => flag[c] /\ k \in keys[c]
  /\ \A k \in KeysOf(c) : fate[Transfer(k)] # "none" => k \in keys[c]

IInv == TypeOK /\ B!OkMeansApplied /\ \A c \in Call : CallInv(c)
=============================================================================

---------------------------- MODULE DeviceLifecycle ----------------------------
(***************************************************************************)
(* DevicesService for devices that exist: connect, disconnect, connection, *)
(* connectExisting with an address, destroy, edit, deviceMessage, show and *)
(* index.  A device lives in three places: an entry on the dApp, the data  *)
(* of its own account, and a record at the supplier (SupplierService).     *)
(* Nothing keeps them together: most calls first ask the dApp whether the  *)
(* device is there and then act on one of the others.                      *)
(***************************************************************************)
CONSTANTS
  Req,         \* HTTP requests
  Device,      \* accounts of devices
  Item,        \* records of the supplier under ids of its own
  EditKeys     \* bound: the sets of keys that an edit may have

Entries == {"lat", "lng", "active", "type"}   \* of the data of a device

ASSUME DeviceAssumption == EditKeys \subseteq SUBSET Entries /\ "init" \notin Req /\ "none" \notin Req

VARIABLES
  ask, step,
  began,       \* whether the dApp listed the device when a request came
  call,        \* the supplier's part of a request
  listed,      \* the chain: the devices with an entry device_<address>
  data,        \* the chain: the data of each device
  record,      \* the supplier: whether it has a record of a device
  item,        \* the supplier: the items not yet renamed
  fate, reply  \* the transactions, see Broadcast

vars == <<ask, step, began, call, listed, data, record, item, fate, reply>>
outside == <<listed, data, record, item>>

Tx == Req
B == INSTANCE Broadcast

-----------------------------------------------------------------------------
(* A value on the chain: who has written it, and as what.                  *)
Types == {"string", "integer", "boolean"}
Value == [by : Req \cup {"init"}, as : Types] \cup {[by |-> "none", as |-> "none"]}
Nothing == [by |-> "none", as |-> "none"]

ConnectRequest    == [op : {"connect"}, device : Device]
DisconnectRequest == [op : {"disconnect"}, device : Device]
ConnectionRequest == [op : {"connection"}, device : Device]
DestroyRequest    == [op : {"destroy"}, device : Device]
ShowRequest       == [op : {"show"}, device : Device]
IndexRequest      == [op : {"index"}, device : Device]   \* about none

(* With parameters of a new device next to the address it is refused.      *)
AttachRequest == [op : {"attach"}, device : Device, item : Item, params : BOOLEAN]

(* Any object: here some keys, with values of one JavaScript type.         *)
EditRequest == [op : {"edit"}, device : Device, keys : EditKeys,
                type : {"string", "number", "boolean", "object"}]

(* A message of a device: its payload may have a latitude and a longitude, *)
(* each may be an empty word.                                              *)
MessageRequest == [op : {"message"}, device : Device,
                   lat : {"undefined", "empty", "string"}, lng : {"undefined", "empty", "string"}]

Requests == ConnectRequest \cup DisconnectRequest \cup ConnectionRequest \cup DestroyRequest
              \cup ShowRequest \cup IndexRequest \cup AttachRequest \cup EditRequest \cup MessageRequest
NoRequest == [op |-> "none"]

Steps == {"idle", "looking", "calling", "sending", "invalid", "notfound", "error", "ok", "lost"}
Busy == {"looking", "calling", "sending"}
Calls == {"none", "sent", "done", "missing", "refused"}

TypeOK ==
  /\ ask \in [Req -> Requests \cup {NoRequest}]
  /\ step \in [Req -> Steps]
  /\ began \in [Req -> BOOLEAN]
  /\ call \in [Req -> Calls]
  /\ listed \subseteq Device
  /\ data \in [Device -> [Entries -> Value]]
  /\ record \in [Device -> BOOLEAN]
  /\ item \subseteq Item
  /\ B!TypeOK

Init ==
  /\ ask = [r \in Req |-> NoRequest]
  /\ step = [r \in Req |-> "idle"]
  /\ began = [r \in Req |-> FALSE]
  /\ call = [r \in Req |-> "none"]
  /\ listed \in SUBSET Device
  /\ data = [d \in Device |-> [e \in Entries |->
       [by |-> "init", as |-> IF e = "active" THEN "boolean" ELSE "string"]]]
  /\ record \in [Device -> BOOLEAN]
  /\ item = Item
  /\ B!Init

-----------------------------------------------------------------------------
GoTo(r, s) == step' = [step EXCEPT ![r] = s]
Ends(r, s) == GoTo(r, s) /\ UNCHANGED <<ask, began, call, fate, reply>> /\ UNCHANGED outside

(* Faulty: disconnect trusts the supplier to know its devices.             *)
AskFirstButOne == {"connect", "destroy", "attach", "show", "index"}

(* The calls that read the dApp first.                                     *)
AskFirst == {"connect", "disconnect", "destroy", "attach", "show", "index"}

(* Location, as parseLocation finds it: JavaScript takes an empty word for *)
(* false, so a message without a place is answered {}.                     *)
Located(q) == q.lat = "string" \/ q.lng = "string"

(* What goes to the supplier, and what goes to the chain.                  *)
CallsSupplier == {"connect", "disconnect", "connection", "attach"}
Sends(q) == q.op \in {"destroy", "edit"} \/ (q.op = "message" /\ Located(q))

(* A malformed address, an invalid body, an invalid source.                *)
Refuse(r) == step[r] = "idle" /\ Ends(r, "invalid")

Act(r, q) ==
  \/ /\ q.op \in CallsSupplier
     /\ call' = [call EXCEPT ![r] = "sent"]
     /\ GoTo(r, "calling") /\ UNCHANGED <<fate, reply>>
  \/ /\ Sends(q) /\ B!Submit({r})
     /\ GoTo(r, "sending") /\ UNCHANGED call

Start(r) ==
  /\ step[r] = "idle"
  /\ \E q \in Requests :
       /\ ask' = [ask EXCEPT ![r] = q]
       /\ began' = [began EXCEPT ![r] = q.device \in listed]
       /\ \/ q.op \in AskFirst /\ GoTo(r, "looking") /\ UNCHANGED <<call, fate, reply>>
          \/ q.op \notin AskFirst /\ Act(r, q)
          \/ q.op = "message" /\ ~Located(q) /\ GoTo(r, "ok") /\ UNCHANGED <<call, fate, reply>>
  /\ UNCHANGED outside

(* deviceExists, then the call itself.                                     *)
Exists(r) ==
  /\ step[r] = "looking"
  /\ \/ ask[r].op \in {"connect", "disconnect", "destroy"}
     \/ ask[r].op = "attach" /\ ~ask[r].params
  /\ ask[r].device \in listed
  /\ Act(r, ask[r])
  /\ UNCHANGED <<ask, began>> /\ UNCHANGED outside

RefuseParams(r) ==
  /\ step[r] = "looking" /\ ask[r].op = "attach" /\ ask[r].params
  /\ ask[r].device \in listed
  /\ Ends(r, "invalid")

Absent(r) ==
  /\ step[r] = "looking" /\ ask[r].op # "index"
  /\ ask[r].device \notin listed
  /\ Ends(r, "notfound")

Shown(r) ==
  /\ step[r] = "looking"
  /\ ask[r].op = "index" \/ (ask[r].op = "show" /\ ask[r].device \in listed)
  /\ Ends(r, "ok")

ReadFails(r) == step[r] = "looking" /\ Ends(r, "error")

-----------------------------------------------------------------------------
(* The supplier carries out a request, whether or not its sender waits.    *)
(* What it has under an id it does not make again.                         *)
Serve(r) ==
  /\ call[r] = "sent"
  /\ LET d == ask[r].device IN
     \/ /\ ask[r].op = "connect" /\ ~record[d]
        /\ record' = [record EXCEPT ![d] = TRUE]
        /\ call' = [call EXCEPT ![r] = "done"] /\ UNCHANGED item
     \/ /\ ask[r].op = "disconnect" /\ record[d]
        /\ record' = [record EXCEPT ![d] = FALSE]
        /\ call' = [call EXCEPT ![r] = "done"] /\ UNCHANGED item
     \/ /\ ask[r].op = "connection" /\ record[d]
        /\ call' = [call EXCEPT ![r] = "done"] /\ UNCHANGED <<record, item>>
     \/ /\ ask[r].op = "attach" /\ ask[r].item \in item /\ ~record[d]
        /\ record' = [record EXCEPT ![d] = TRUE]
        /\ item' = item \ {ask[r].item}
        /\ call' = [call EXCEPT ![r] = "done"]
     \/ /\ ask[r].op = "attach" /\ ask[r].item \notin item
        /\ call' = [call EXCEPT ![r] = "missing"] /\ UNCHANGED <<record, item>>
     \/ call' = [call EXCEPT ![r] = "refused"] /\ UNCHANGED <<record, item>>
  /\ UNCHANGED <<ask, step, began, listed, data, fate, reply>>

(* Faulty: the status of the answer is not looked at.                      *)
AnyAnswer == {"done", "missing", "refused"}

Success == {"done"}

Served(r) == step[r] = "calling" /\ call[r] \in Success /\ Ends(r, "ok")

(* Any other status is 400; so is an answer that does not come.  Only the  *)
(* renaming tells 404 apart.                                               *)
CallFails(r) ==
  /\ step[r] = "calling"
  /\ IF call[r] = "missing" THEN Ends(r, "notfound") ELSE Ends(r, "error")

(* Faulty: only a failed transaction ends the wait.                        *)
ConfirmedLate(r) == reply[r] = "err"

Confirmed(r) == reply[r] = "ok"

SendingEnds(r) == step[r] = "sending" /\ Confirmed(r) /\ Ends(r, "ok")
SendingFails(r) == step[r] = "sending" /\ reply[r] = "err" /\ Ends(r, "error")

Crash ==
  /\ \E r \in Req : step[r] \in Busy
  /\ step' = [r \in Req |-> IF step[r] \in Busy THEN "lost" ELSE step[r]]
  /\ UNCHANGED <<ask, began, call, fate, reply>> /\ UNCHANGED outside

-----------------------------------------------------------------------------
(* What an update writes: objectToBlockchainEntries drops the type,        *)
(* a message always names both coordinates.                                *)

(* Faulty: a coordinate that a message does not have is left alone.        *)
KeysGiven(q) ==
  IF q.op = "edit" THEN q.keys \ {"type"}
  ELSE {e \in {"lat", "lng"} : ~(e = "lat" /\ q.lat = "undefined") /\ ~(e = "lng" /\ q.lng = "undefined")}

Keys(q) == IF q.op = "edit" THEN q.keys \ {"type"} ELSE {"lat", "lng"}

JsType(q, e) == IF q.op = "edit" THEN q.type ELSE IF e = "lat" THEN q.lat ELSE q.lng

(* Faulty: numbers are left to parseEntries.                               *)
ValueButNumbers(t) == IF t = "object" THEN "string" ELSE t

(* blockchainValue: objects and numbers become text.                       *)
BlockchainValue(t) == IF t \in {"number", "object"} THEN "string" ELSE t

(* parseEntries: undefined deletes, a number is set as int, anything else  *)
(* as a string.                                                            *)
Parsed(r, t) ==
  IF t = "undefined" THEN Nothing
  ELSE [by |-> r, as |-> IF t = "number" THEN "integer" ELSE "string"]

Updated(r, old) ==
  [e \in Entries |-> IF e \in Keys(ask[r]) THEN Parsed(r, BlockchainValue(JsType(ask[r], e))) ELSE old[e]]

Update(r) ==
  /\ ask[r].op \in {"edit", "message"} /\ B!Apply(r)
  /\ data' = [data EXCEPT ![ask[r].device] = Updated(r, @)]
  /\ UNCHANGED listed

(* The value undefined takes the entry away.                               *)
Remove(r) ==
  /\ ask[r].op = "destroy" /\ B!Apply(r)
  /\ listed' = listed \ {ask[r].device}
  /\ UNCHANGED data

Include(r) == (Update(r) \/ Remove(r)) /\ UNCHANGED <<ask, step, began, call, record, item>>

Outcome(r) ==
  /\ step[r] = "sending"
  /\ B!Confirm(r) \/ B!Fail(r)
  /\ UNCHANGED <<ask, step, began, call>> /\ UNCHANGED outside

Look(r) == Exists(r) \/ RefuseParams(r) \/ Absent(r) \/ Shown(r) \/ ReadFails(r)
Handle(r) == Look(r) \/ Served(r) \/ CallFails(r) \/ SendingEnds(r) \/ SendingFails(r)

Next ==
  \/ \E r \in Req : Refuse(r) \/ Start(r) \/ Handle(r) \/ Serve(r) \/ Include(r) \/ Outcome(r)
  \/ Crash

(* Every read, every call of the supplier and every broadcast ends, and    *)
(* the event loop runs what is ready.                                      *)
Spec == Init /\ [][Next]_vars /\ \A r \in Req : WF_vars(Handle(r)) /\ WF_vars(Outcome(r))

-----------------------------------------------------------------------------
(* The calls that a device off the dApp is refused.                        *)
Guarded == {"connect", "disconnect", "attach", "destroy", "show"}

(* A device that is off the dApp when a call comes is out of its reach:    *)
(* connect, disconnect, connectExisting and destroy answer 404 and touch   *)
(* nothing, so a record of it that the supplier still has stays there      *)
(* (deviceExists, lines 222-230).  Only calls that were already under way  *)
(* when the device was destroyed may still change it.                      *)
LateCallsAreRefused ==
  \A r \in Req :
    ask[r].op \in Guarded /\ ~began[r] =>
      call[r] = "none" /\ fate[r] = "none" /\ step[r] # "ok"

(* A latitude and a longitude that messages have written come from one and *)
(* the same message, in whatever order messages and edits get into blocks  *)
(* (deviceMessage, lines 171-174; parseEntries deletes what is undefined). *)
NoMixedLocation ==
  \A d \in Device : LET lat == data[d]["lat"].by
                        lng == data[d]["lng"].by IN
    \A r, s \in Req :
      r = lat /\ s = lng /\ ask[r].op = "message" /\ ask[s].op = "message" => r = s

(* Whatever a client sends as a number or a flag, an edit writes text: the *)
(* branch for numbers of parseEntries is never taken (blockchainValue,     *)
(* lines 267-276), and a flag that was a boolean on the chain is not any   *)
(* more.                                                                   *)
WrittenAsText ==
  \A d \in Device, e \in Entries : data[d][e].by \in Req => data[d][e].as = "string"

(* A successful answer stands for what it says: the supplier has made or   *)
(* removed the record, the dApp does not list the device any more, the     *)
(* update is in a block (connect to connectExisting, lines 108-203).       *)
OkMeansDone ==
  \A r \in Req : step[r] = "ok" =>
    /\ ask[r].op \in CallsSupplier => call[r] = "done"
    /\ Sends(ask[r]) => fate[r] = "applied"
    /\ ask[r].op = "destroy" => ask[r].device \notin listed

(* What a request has committed to, once it has sent something.            *)
Text(q) == IF q.op = "edit" THEN q.keys \ {"type"}
           ELSE {e \in {"lat", "lng"} : JsType(q, e) # "undefined"}
Effect(q) ==
  CASE q.op = "attach" -> [kind |-> "attach", device |-> q.device, item |-> q.item]
    [] q.op \in {"edit", "message"} ->
         [kind |-> q.op, device |-> q.device, text |-> Text(q),
          gone |-> IF q.op = "edit" THEN {} ELSE {"lat", "lng"} \ Text(q)]
    [] OTHER -> [kind |-> q.op, device |-> q.device]
Sent(r) == call[r] # "none" \/ fate[r] # "none"
Committed(r) == IF Sent(r) THEN Effect(ask[r]) ELSE [kind |-> "none"]
Happened(r) == call[r] = "done" \/ fate[r] = "applied"
Reported(r) == step[r] = "ok" /\ Sent(r)

(* The calls keep what the module DevicePromise says: what needs a device  *)
(* of the dApp is sent only for one, nothing happens twice, updates are    *)
(* text and move a position as a whole, and success is reported last       *)
(* (connect to connectExisting, lines 108-203).                            *)
P == INSTANCE DevicePromise WITH
       Entry <- Entries,
       want <- [r \in Req |-> Committed(r)],
       done <- [r \in Req |-> Happened(r)],
       told <- [r \in Req |-> Reported(r)]
KeepsPromise == P!Spec

(* Every request is answered unless the process stops.                     *)
EveryRequestIsAnswered ==
  \A r \in Req : step[r] \in Busy ~> step[r] \notin Busy
-----------------------------------------------------------------------------
(* The inductive invariant.  What a request has asked for and sent, and    *)
(* that a device which was off the dApp when it came is off it for good.   *)
Control(r) ==
  /\ ask[r] \in Requests \/ (step[r] \in {"idle", "invalid"} /\ call[r] = "none" /\ fate[r] = "none")
  /\ step[r] \in {"idle", "looking"} => call[r] = "none" /\ fate[r] = "none"
  /\ call[r] # "none" => ask[r].op \in CallsSupplier
  /\ fate[r] # "none" => Sends(ask[r])
  /\ step[r] = "calling" => ask[r].op \in CallsSupplier
  /\ step[r] = "sending" => Sends(ask[r])
  /\ step[r] = "ok" => /\ ask[r].op \in CallsSupplier => call[r] = "done"
                       /\ Sends(ask[r]) => reply[r] = "ok"

Refused(r) ==
  ask[r] \in Requests /\ ~began[r] =>
    /\ ask[r].device \notin listed
    /\ ask[r].op \in Guarded =>
         call[r] = "none" /\ fate[r] = "none" /\ step[r] \notin {"calling", "sending", "ok"}

(* A destroyed device stays off the dApp.                                  *)
Gone(r) == ask[r].op = "destroy" /\ fate[r] = "applied" => ask[r].device \notin listed

(* What is on the chain under a request's name was written by its update.  *)
Written(d, e) ==
  LET v == data[d][e] IN
  v.by \in Req => v.as = "string" /\ fate[v.by] = "applied" /\ ask[v.by].op \in {"edit", "message"}

IInv ==
  /\ TypeOK /\ B!OkMeansApplied /\ NoMixedLocation
  /\ \A r \in Req : Control(r) /\ Refused(r) /\ Gone(r)
  /\ \A d \in Device, e \in Entries : Written(d, e)
=============================================================================

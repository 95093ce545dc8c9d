---------------------------- MODULE DevicePromise ----------------------------
(***************************************************************************)
(* What the calls about existing devices promise, whatever they read, send *)
(* and wait for: a call that changes something commits to it while the     *)
(* dApp lists the device, if it is one of those that ask; what it has      *)
(* committed to happens at most once; an update is text, and that of a     *)
(* position is a whole; and a success is reported when it has happened.    *)
(***************************************************************************)
CONSTANTS Req, Device, Item,
          Entry         \* of the data of a device

VARIABLES
  want,         \* what each call has committed to
  done, told,   \* whether that has happened, whether the client knows
  listed, data, record, item

vars == <<want, done, told, listed, data, record, item>>
devices == <<listed, data, record, item>>

Place == {"lat", "lng"}
Update == [kind : {"edit"}, device : Device, text : SUBSET (Entry \ {"type"}), gone : {{}}]
            \cup {u \in [kind : {"message"}, device : Device, text : SUBSET Place, gone : SUBSET Place] :
                    u.text # {} /\ u.gone = Place \ u.text}
Effect == [kind : {"connect", "disconnect", "connection", "destroy"}, device : Device]
            \cup [kind : {"attach"}, device : Device, item : Item] \cup Update
NoEffect == [kind |-> "none"]

(* What only a device of the dApp can be subject to.                       *)
OfTheDapp == {"connect", "disconnect", "attach", "destroy"}

Init ==
  /\ want = [r \in Req |-> NoEffect]
  /\ done = [r \in Req |-> FALSE]
  /\ told = [r \in Req |-> FALSE]
  /\ listed \in SUBSET Device
  /\ data \in [Device -> [Entry -> [by : {"init"}, as : {"string", "boolean"}]]]
  /\ record \in [Device -> BOOLEAN]
  /\ item = Item

Commit(r) ==
  /\ want[r] = NoEffect
  /\ want'[r] \in Effect
  /\ want'[r].kind \in OfTheDapp => want'[r].device \in listed
  /\ want' = [want EXCEPT ![r] = want'[r]]
  /\ UNCHANGED <<done, told>> /\ UNCHANGED devices

(* The supplier makes no second record, and takes away none it has not.    *)
AtSupplier(e) ==
  \/ /\ e.kind = "connect" /\ ~record[e.device]
     /\ record' = [record EXCEPT ![e.device] = TRUE] /\ UNCHANGED item
  \/ /\ e.kind = "disconnect" /\ record[e.device]
     /\ record' = [record EXCEPT ![e.device] = FALSE] /\ UNCHANGED item
  \/ e.kind = "connection" /\ record[e.device] /\ UNCHANGED <<record, item>>
  \/ /\ e.kind = "attach" /\ e.item \in item /\ ~record[e.device]
     /\ record' = [record EXCEPT ![e.device] = TRUE]
     /\ item' = item \ {e.item}

OnChain(r, e) ==
  \/ /\ e.kind = "destroy"
     /\ listed' = listed \ {e.device} /\ UNCHANGED data
  \/ /\ e.kind \in {"edit", "message"}
     /\ data' = [data EXCEPT ![e.device] = [n \in Entry |->
          IF n \in e.text THEN [by |-> r, as |-> "string"]
          ELSE IF n \in e.gone THEN [by |-> "none", as |-> "none"] ELSE @[n]]]
     /\ UNCHANGED listed

Do(r) ==
  /\ want[r] # NoEffect /\ ~done[r]
  /\ done' = [done EXCEPT ![r] = TRUE]
  /\ \/ AtSupplier(want[r]) /\ UNCHANGED <<listed, data>>
     \/ OnChain(r, want[r]) /\ UNCHANGED <<record, item>>
  /\ UNCHANGED <<want, told>>

Tell(r) ==
  /\ done[r]
  /\ told' = [told EXCEPT ![r] = TRUE]
  /\ UNCHANGED <<want, done>> /\ UNCHANGED devices

Next == \E r \in Req : Commit(r) \/ Do(r) \/ Tell(r)

Spec == Init /\ [][Next]_vars
=============================================================================

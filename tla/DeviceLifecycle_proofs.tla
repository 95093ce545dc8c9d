------------------------ MODULE DeviceLifecycle_proofs ------------------------
(***************************************************************************)
(* DeviceLifecycle, for any requests, devices and items of the supplier.   *)
(***************************************************************************)
EXTENDS DeviceLifecycle, TLAPS

-----------------------------------------------------------------------------
(* What a request is about, and that it ends in the supplier's hands or on *)
(* the chain but never in both.                                            *)
LEMMA RequestFacts ==
  ASSUME NEW q \in Requests
  PROVE  /\ q.device \in Device
         /\ q.op \in AskFirst \cup {"connection", "edit", "message"}
         /\ q.op \in CallsSupplier => ~Sends(q)
         /\ q.op = "message" => q.lat \in {"undefined", "empty", "string"}
                                /\ q.lng \in {"undefined", "empty", "string"}
         /\ q.op = "edit" => q.type \in {"string", "number", "boolean", "object"}
  BY DEF Requests, ConnectRequest, DisconnectRequest, ConnectionRequest, DestroyRequest, ShowRequest,
         IndexRequest, AttachRequest, EditRequest, MessageRequest, AskFirst, CallsSupplier, Sends

(* A handler submits its one transaction.                                  *)
LEMMA SubmitFacts ==
  ASSUME B!TypeOK, B!OkMeansApplied, NEW r \in Req, B!Submit({r})
  PROVE  /\ B!TypeOK' /\ B!OkMeansApplied' /\ reply' = reply
         /\ fate[r] = "none" /\ fate'[r] = "sent"
         /\ \A x \in Req : x # r => fate'[x] = fate[x]
  BY DEF B!TypeOK, B!Submit, B!OkMeansApplied, B!Fates, B!Replies, Tx

(* A block includes one transaction.                                       *)
LEMMA ApplyFacts ==
  ASSUME B!TypeOK, B!OkMeansApplied, NEW r \in Req, B!Apply(r)
  PROVE  /\ B!TypeOK' /\ B!OkMeansApplied' /\ reply' = reply
         /\ fate[r] = "sent" /\ fate'[r] = "applied"
         /\ \A x \in Req : x # r => fate'[x] = fate[x]
  BY DEF B!TypeOK, B!Apply, B!OkMeansApplied, B!Fates, B!Replies, Tx

(* A broadcast call ends, and takes no earlier answer back.                *)
LEMMA OutcomeFacts ==
  ASSUME B!TypeOK, B!OkMeansApplied, NEW r \in Req, B!Confirm(r) \/ B!Fail(r)
  PROVE  /\ B!TypeOK' /\ B!OkMeansApplied' /\ fate' = fate
         /\ \A x \in Req : reply[x] # "none" => reply'[x] = reply[x]
<1> USE DEF B!TypeOK, B!OkMeansApplied, B!Fates, B!Replies, Tx
<1>1. CASE B!Confirm(r)
  BY <1>1 DEF B!Confirm
<1>2. CASE B!Fail(r)
  BY <1>2 DEF B!Fail
<1>3. QED
  BY <1>1, <1>2

(* The broadcasts are left alone.                                          *)
LEMMA BroadcastKept ==
  ASSUME B!TypeOK, B!OkMeansApplied, UNCHANGED <<fate, reply>>
  PROVE  B!TypeOK' /\ B!OkMeansApplied'
  BY DEF B!TypeOK, B!OkMeansApplied

-----------------------------------------------------------------------------
(* Nothing has been asked or sent at the start.                            *)
LEMMA InitIInv == Init => IInv
<1> SUFFICES ASSUME Init PROVE IInv
  OBVIOUS
<1> USE DeviceAssumption
<1>1. B!TypeOK /\ B!OkMeansApplied
  BY DEF Init, B!Init, B!TypeOK, B!OkMeansApplied, B!Fates, B!Replies
<1>2. \A d \in Device, e \in Entries : data[d][e].by = "init"
  BY DEF Init
<1>3. data \in [Device -> [Entries -> Value]]
  BY DEF Init, Value, Types
<1>4. began \in [Req -> BOOLEAN] /\ record \in [Device -> BOOLEAN]
  BY Zenon DEF Init
<1>5. TypeOK
  BY <1>1, <1>3, <1>4 DEF Init, TypeOK, Steps, Calls
<1>6. \A r \in Req : /\ ask[r] = NoRequest /\ step[r] = "idle" /\ call[r] = "none"
                     /\ fate[r] = "none" /\ reply[r] = "none"
  BY DEF Init, B!Init, Tx
<1>7. NoRequest \notin Requests /\ NoRequest.op = "none"
  BY RequestFacts DEF NoRequest, AskFirst
<1>8. \A r \in Req : Control(r) /\ Refused(r) /\ Gone(r)
  BY <1>6, <1>7 DEF Control, Refused, Gone
<1>9. NoMixedLocation /\ \A d \in Device, e \in Entries : Written(d, e)
  BY <1>2 DEF NoMixedLocation, Written, Entries
<1>10. QED
  BY <1>1, <1>5, <1>8, <1>9 DEF IInv

-----------------------------------------------------------------------------
(* A request that does not move keeps what it knows: devices only leave.   *)
LEMMA RequestKept ==
  ASSUME IInv, NEW x \in Req, ask'[x] = ask[x], step'[x] = step[x], began'[x] = began[x],
         call'[x] = call[x], fate'[x] = fate[x], reply[x] = "ok" => reply'[x] = "ok",
         listed' \subseteq listed
  PROVE  Control(x)' /\ Refused(x)' /\ Gone(x)'
<1>1. Control(x) /\ Refused(x) /\ Gone(x)
  BY DEF IInv
<1>2. Control(x)'
  BY <1>1 DEF Control
<1>3. Refused(x)' /\ Gone(x)'
  BY <1>1 DEF Refused, Gone
<1>4. QED
  BY <1>2, <1>3

(* What is on the chain keeps its writers.                                 *)
LEMMA DataKept ==
  ASSUME IInv, data' = data,
         \A x \in Req : fate[x] = "applied" => fate'[x] = "applied" /\ ask'[x] = ask[x]
  PROVE  NoMixedLocation' /\ \A d \in Device, e \in Entries : Written(d, e)'
<1>1. ASSUME NEW d \in Device, NEW e \in Entries PROVE Written(d, e)'
  BY DEF IInv, Written
<1>2. ASSUME NEW d \in Device, NEW r \in Req, NEW s \in Req,
             r = data[d]["lat"].by, s = data[d]["lng"].by,
             ask'[r].op = "message", ask'[s].op = "message"
      PROVE  r = s
  <2>1. Written(d, "lat") /\ Written(d, "lng")
    BY DEF IInv, Entries
  <2>2. ask'[r] = ask[r] /\ ask'[s] = ask[s]
    BY <1>2, <2>1 DEF Written
  <2>3. QED
    BY <1>2, <2>2 DEF IInv, NoMixedLocation
<1>3. QED
  BY <1>1, <1>2 DEF NoMixedLocation

(* Flags are set one by one.                                               *)
LEMMA FlagFacts ==
  ASSUME NEW S, NEW f \in [S -> BOOLEAN], NEW x \in S, NEW v \in BOOLEAN,
         NEW g, g = [f EXCEPT ![x] = v]
  PROVE  /\ g \in [S -> BOOLEAN] /\ (g[x] <=> v)
         /\ \A y \in S : y # x => g[y] = f[y]
  BY Zenon

(* A request that ends keeps its types.                                    *)
LEMMA MoveTypes ==
  ASSUME TypeOK, NEW r \in Req, NEW s \in Steps, GoTo(r, s)
  PROVE  /\ step' \in [Req -> Steps] /\ step'[r] = s
         /\ \A x \in Req : x # r => step'[x] = step[x]
  BY DEF TypeOK, GoTo

(* A step of one request leaves everything else as it was.                 *)
LEMMA OneMoves ==
  ASSUME IInv, NEW r \in Req, TypeOK', B!OkMeansApplied', Control(r)', Refused(r)', Gone(r)',
         data' = data, listed' = listed,
         fate[r] = "applied" => fate'[r] = "applied" /\ ask'[r] = ask[r],
         \A x \in Req : x # r => /\ ask'[x] = ask[x] /\ step'[x] = step[x] /\ began'[x] = began[x]
                                 /\ call'[x] = call[x] /\ fate'[x] = fate[x]
                                 /\ reply[x] = "ok" => reply'[x] = "ok"
  PROVE  IInv'
<1>1. ASSUME NEW x \in Req PROVE Control(x)' /\ Refused(x)' /\ Gone(x)'
  BY <1>1, RequestKept
<1>2. NoMixedLocation' /\ \A d \in Device, e \in Entries : Written(d, e)'
  BY DataKept
<1>3. QED
  BY <1>1, <1>2 DEF IInv

(* A handler ends, or begins to act, without the chain.                    *)
LEMMA EndsIInv ==
  ASSUME IInv, NEW r \in Req, NEW s \in {"invalid", "notfound", "error", "ok"}, Ends(r, s),
         step[r] \in Busy \/ (step[r] = "idle" /\ s = "invalid"),
         s = "ok" => /\ ask[r].op \in CallsSupplier => call[r] = "done"
                     /\ Sends(ask[r]) => reply[r] = "ok"
                     /\ ask[r].op \in Guarded => ask[r].device \in listed \/ step[r] # "looking"
  PROVE  IInv'
<1> USE DEF Ends, outside
<1>1. TypeOK /\ B!OkMeansApplied /\ Control(r) /\ Refused(r) /\ Gone(r)
  BY DEF IInv
<1>2. /\ step' \in [Req -> Steps] /\ step'[r] = s
      /\ \A x \in Req : x # r => step'[x] = step[x]
  BY <1>1, MoveTypes DEF Steps
<1>3. B!TypeOK' /\ B!OkMeansApplied'
  BY <1>1, BroadcastKept DEF TypeOK
<1>4. TypeOK'
  BY <1>1, <1>2, <1>3 DEF TypeOK
<1>5. Control(r)'
  BY <1>1, <1>2 DEF Control, Busy
<1>6. Refused(r)' /\ Gone(r)'
  BY <1>1, <1>2 DEF Refused, Gone, Busy
<1>7. QED
  BY <1>2, <1>3, <1>4, <1>5, <1>6, OneMoves

-----------------------------------------------------------------------------
(* Act sends what the request calls for, once.                             *)
LEMMA ActFacts ==
  ASSUME IInv, NEW r \in Req, NEW q \in Requests, step[r] \in {"idle", "looking"}, Act(r, q)
  PROVE  /\ B!TypeOK' /\ B!OkMeansApplied' /\ reply' = reply
         /\ call' \in [Req -> Calls] /\ step' \in [Req -> Steps]
         /\ \A x \in Req : x # r => step'[x] = step[x] /\ call'[x] = call[x] /\ fate'[x] = fate[x]
         /\ \/ /\ q.op \in CallsSupplier /\ step'[r] = "calling"
               /\ call'[r] = "sent" /\ fate'[r] = "none"
            \/ /\ Sends(q) /\ step'[r] = "sending"
               /\ call'[r] = "none" /\ fate'[r] = "sent"
<1>1. TypeOK /\ B!OkMeansApplied /\ Control(r)
  BY DEF IInv
<1>2. call[r] = "none" /\ fate[r] = "none"
  BY <1>1 DEF Control
<1>3. B!TypeOK /\ call \in [Req -> Calls] /\ "sent" \in Calls /\ {"calling", "sending"} \subseteq Steps
  BY <1>1 DEF TypeOK, Calls, Steps
<1>4. CASE q.op \in CallsSupplier /\ call' = [call EXCEPT ![r] = "sent"]
           /\ GoTo(r, "calling") /\ UNCHANGED <<fate, reply>>
  BY <1>1, <1>2, <1>3, <1>4, MoveTypes, BroadcastKept
<1>5. CASE Sends(q) /\ B!Submit({r}) /\ GoTo(r, "sending") /\ UNCHANGED call
  BY <1>1, <1>2, <1>3, <1>5, MoveTypes, SubmitFacts
<1>6. QED
  BY <1>4, <1>5 DEF Act

(* A request comes in: it is looked up first, or acted on at once.         *)
LEMMA StartIInv == ASSUME IInv, NEW r \in Req, Refuse(r) \/ Start(r) PROVE IInv'
<1>1. TypeOK /\ B!OkMeansApplied /\ Control(r)
  BY DEF IInv
<1>2. CASE Refuse(r)
  BY <1>2, EndsIInv DEF Refuse
<1>3. CASE Start(r)
  <2>1. PICK q \in Requests :
          /\ step[r] = "idle"
          /\ ask' = [ask EXCEPT ![r] = q]
          /\ began' = [began EXCEPT ![r] = q.device \in listed]
          /\ \/ q.op \in AskFirst /\ GoTo(r, "looking") /\ UNCHANGED <<call, fate, reply>>
             \/ q.op \notin AskFirst /\ Act(r, q)
             \/ q.op = "message" /\ ~Located(q) /\ GoTo(r, "ok") /\ UNCHANGED <<call, fate, reply>>
          /\ UNCHANGED outside
    BY <1>3 DEF Start
  <2>2. call[r] = "none" /\ fate[r] = "none"
    BY <1>1, <2>1 DEF Control
  <2>3. ask' \in [Req -> Requests \cup {NoRequest}] /\ ask'[r] = q
        /\ \A x \in Req : x # r => ask'[x] = ask[x]
    BY <1>1, <2>1 DEF TypeOK
  <2>4. began' \in [Req -> BOOLEAN] /\ (began'[r] <=> q.device \in listed)
        /\ \A x \in Req : x # r => began'[x] = began[x]
    <3>1. (q.device \in listed) \in BOOLEAN /\ began \in [Req -> BOOLEAN]
      BY <1>1 DEF TypeOK
    <3>2. QED
      BY <2>1, <3>1, FlagFacts
  <2>5. UNCHANGED <<listed, data, record, item>>
    BY <2>1 DEF outside
  <2>6. CASE q.op \in AskFirst /\ GoTo(r, "looking") /\ UNCHANGED <<call, fate, reply>>
    <3>1. /\ step' \in [Req -> Steps] /\ step'[r] = "looking"
          /\ \A x \in Req : x # r => step'[x] = step[x]
      BY <1>1, <2>6, MoveTypes DEF Steps
    <3>2. TypeOK' /\ B!OkMeansApplied'
      BY <1>1, <2>3, <2>4, <2>5, <2>6, <3>1, BroadcastKept DEF TypeOK
    <3>3. Control(r)' /\ Refused(r)' /\ Gone(r)'
      BY <2>2, <2>3, <2>4, <2>5, <2>6, <3>1 DEF Control, Refused, Gone
    <3>4. QED
      BY <2>2, <2>3, <2>4, <2>5, <2>6, <3>1, <3>2, <3>3, OneMoves
  <2>7. CASE q.op \notin AskFirst /\ Act(r, q)
    <3>1. /\ B!TypeOK' /\ B!OkMeansApplied' /\ reply' = reply
          /\ call' \in [Req -> Calls] /\ step' \in [Req -> Steps]
          /\ \A x \in Req : x # r => step'[x] = step[x] /\ call'[x] = call[x] /\ fate'[x] = fate[x]
          /\ \/ /\ q.op \in CallsSupplier /\ step'[r] = "calling"
                /\ call'[r] = "sent" /\ fate'[r] = "none"
             \/ /\ Sends(q) /\ step'[r] = "sending"
                /\ call'[r] = "none" /\ fate'[r] = "sent"
      BY <2>1, <2>7, ActFacts
    <3>2. TypeOK'
      BY <1>1, <2>3, <2>4, <2>5, <3>1 DEF TypeOK
    <3>3. q.op \notin Guarded /\ q.op # "destroy"
      BY <2>7 DEF AskFirst, Guarded
    <3>4. (q.op \in CallsSupplier => ~Sends(q)) /\ q \in Requests
      BY RequestFacts
    <3>5. Control(r)'
      BY <2>3, <3>1, <3>4 DEF Control
    <3>6. Refused(r)' /\ Gone(r)'
      BY <2>3, <2>4, <2>5, <3>1, <3>3 DEF Refused, Gone
    <3>7. QED
      BY <2>2, <2>3, <2>4, <2>5, <3>1, <3>2, <3>5, <3>6, OneMoves
  <2>8. CASE q.op = "message" /\ ~Located(q) /\ GoTo(r, "ok") /\ UNCHANGED <<call, fate, reply>>
    <3>1. /\ step' \in [Req -> Steps] /\ step'[r] = "ok"
          /\ \A x \in Req : x # r => step'[x] = step[x]
      BY <1>1, <2>8, MoveTypes DEF Steps
    <3>2. TypeOK' /\ B!OkMeansApplied'
      BY <1>1, <2>3, <2>4, <2>5, <2>8, <3>1, BroadcastKept DEF TypeOK
    <3>3. q.op \notin CallsSupplier /\ ~Sends(q) /\ q.op \notin Guarded
      BY <2>8 DEF CallsSupplier, Sends, Guarded
    <3>4. Control(r)' /\ Refused(r)' /\ Gone(r)'
      BY <2>2, <2>3, <2>4, <2>5, <2>8, <3>1, <3>3 DEF Control, Refused, Gone
    <3>5. QED
      BY <2>2, <2>3, <2>4, <2>5, <2>8, <3>1, <3>2, <3>4, OneMoves
  <2>9. QED
    BY <2>1, <2>6, <2>7, <2>8
<1>4. QED
  BY <1>2, <1>3

(* The read of the dApp comes back.                                        *)
LEMMA LookIInv == ASSUME IInv, NEW r \in Req, Look(r) PROVE IInv'
<1>1. TypeOK /\ B!OkMeansApplied /\ Control(r) /\ Refused(r)
  BY DEF IInv
<1>2. ask[r] \in Requests /\ step[r] = "looking" /\ call[r] = "none" /\ fate[r] = "none"
  BY <1>1 DEF Look, Exists, RefuseParams, Absent, Shown, ReadFails, Control
<1>3. CASE Exists(r)
  <2>1. ask[r].device \in listed /\ Act(r, ask[r]) /\ UNCHANGED <<ask, began, listed, data, record, item>>
    BY <1>3 DEF Exists, outside
  <2>2. /\ B!TypeOK' /\ B!OkMeansApplied' /\ reply' = reply
        /\ call' \in [Req -> Calls] /\ step' \in [Req -> Steps]
        /\ \A x \in Req : x # r => step'[x] = step[x] /\ call'[x] = call[x] /\ fate'[x] = fate[x]
        /\ \/ /\ ask[r].op \in CallsSupplier /\ step'[r] = "calling"
              /\ call'[r] = "sent" /\ fate'[r] = "none"
           \/ /\ Sends(ask[r]) /\ step'[r] = "sending"
              /\ call'[r] = "none" /\ fate'[r] = "sent"
    BY <1>2, <2>1, ActFacts
  <2>3. TypeOK'
    BY <1>1, <2>1, <2>2 DEF TypeOK
  <2>4. Control(r)'
    BY <1>2, <2>1, <2>2, RequestFacts DEF Control
  <2>5. Refused(r)' /\ Gone(r)'
    BY <1>1, <1>2, <2>1, <2>2 DEF Refused, Gone
  <2>6. QED
    BY <1>2, <2>1, <2>2, <2>3, <2>4, <2>5, OneMoves
<1>4. CASE RefuseParams(r)
  BY <1>2, <1>4, EndsIInv DEF RefuseParams, Busy
<1>5. CASE Absent(r)
  BY <1>2, <1>5, EndsIInv DEF Absent, Busy
<1>6. CASE Shown(r)
  <2>1. ask[r].op = "index" \/ (ask[r].op = "show" /\ ask[r].device \in listed)
    BY <1>6 DEF Shown
  <2>2. ask[r].op \notin CallsSupplier /\ ~Sends(ask[r])
    BY <2>1 DEF CallsSupplier, Sends
  <2>3. ask[r].op \in Guarded => ask[r].device \in listed
    BY <2>1 DEF Guarded
  <2>4. QED
    BY <1>2, <1>6, <2>2, <2>3, EndsIInv DEF Shown, Busy
<1>7. CASE ReadFails(r)
  BY <1>2, <1>7, EndsIInv DEF ReadFails, Busy
<1>8. QED
  BY <1>3, <1>4, <1>5, <1>6, <1>7 DEF Look

(* The supplier or the broadcast has answered: the request ends.           *)
LEMMA AnswerIInv ==
  ASSUME IInv, NEW r \in Req, Served(r) \/ CallFails(r) \/ SendingEnds(r) \/ SendingFails(r)
  PROVE  IInv'
<1>1. Control(r) /\ step[r] \in {"calling", "sending"}
  BY DEF IInv, Served, CallFails, SendingEnds, SendingFails
<1>2. ask[r] \in Requests
  BY <1>1 DEF Control
<1>3. CASE Served(r)
  <2>1. ask[r].op \in CallsSupplier /\ call[r] = "done" /\ Ends(r, "ok") /\ step[r] = "calling"
    BY <1>1, <1>3 DEF Served, Control, Success
  <2>2. ~Sends(ask[r])
    BY <1>2, <2>1, RequestFacts
  <2>3. QED
    BY <1>1, <2>1, <2>2, EndsIInv DEF Busy
<1>4. CASE CallFails(r)
  BY <1>1, <1>4, EndsIInv DEF CallFails, Busy
<1>5. CASE SendingEnds(r)
  <2>1. Sends(ask[r]) /\ reply[r] = "ok" /\ Ends(r, "ok") /\ step[r] = "sending"
    BY <1>1, <1>5 DEF SendingEnds, Confirmed, Control
  <2>2. ask[r].op \notin CallsSupplier
    BY <1>2, <2>1, RequestFacts
  <2>3. QED
    BY <1>1, <2>1, <2>2, EndsIInv DEF Busy
<1>6. CASE SendingFails(r)
  BY <1>1, <1>6, EndsIInv DEF SendingFails, Busy
<1>7. QED
  BY <1>3, <1>4, <1>5, <1>6

(* The supplier carries a request out.                                     *)
LEMMA ServeIInv == ASSUME IInv, NEW r \in Req, Serve(r) PROVE IInv'
<1>1. TypeOK /\ B!OkMeansApplied /\ Control(r) /\ Refused(r) /\ Gone(r)
  BY DEF IInv
<1>2. UNCHANGED <<ask, step, began, listed, data, fate, reply>> /\ call[r] = "sent"
  BY DEF Serve
<1>3. ask[r] \in Requests /\ ask[r].device \in Device
  BY <1>1, <1>2, RequestFacts DEF Control
<1>4. /\ call' \in [Req -> Calls] /\ call'[r] \in {"done", "missing", "refused"}
      /\ \A x \in Req : x # r => call'[x] = call[x]
      /\ item' \subseteq Item
  BY <1>1 DEF Serve, TypeOK, Calls
<1>5. record' \in [Device -> BOOLEAN]
  <2>1. \/ record' = [record EXCEPT ![ask[r].device] = TRUE]
        \/ record' = [record EXCEPT ![ask[r].device] = FALSE]
        \/ record' = record
    BY DEF Serve
  <2>2. record \in [Device -> BOOLEAN]
    BY <1>1 DEF TypeOK
  <2>3. QED
    BY <1>3, <2>1, <2>2, FlagFacts
<1>6. TypeOK' /\ B!OkMeansApplied'
  BY <1>1, <1>2, <1>4, <1>5, BroadcastKept DEF TypeOK
<1>7. Control(r)' /\ Refused(r)' /\ Gone(r)'
  BY <1>1, <1>2, <1>3, <1>4 DEF Control, Refused, Gone
<1>8. QED
  BY <1>2, <1>4, <1>6, <1>7, OneMoves

(* A broadcast call ends.                                                  *)
LEMMA OutcomeIInv == ASSUME IInv, NEW r \in Req, Outcome(r) PROVE IInv'
<1>1. TypeOK /\ B!OkMeansApplied /\ Control(r) /\ Refused(r) /\ Gone(r)
  BY DEF IInv
<1>2. UNCHANGED <<ask, step, began, call, listed, data, record, item>>
  BY DEF Outcome, outside
<1>3. /\ B!TypeOK' /\ B!OkMeansApplied' /\ fate' = fate
      /\ \A x \in Req : reply[x] # "none" => reply'[x] = reply[x]
  BY <1>1, OutcomeFacts DEF Outcome, TypeOK
<1>4. TypeOK'
  BY <1>1, <1>2, <1>3 DEF TypeOK
<1>5. Control(r)' /\ Refused(r)' /\ Gone(r)'
  BY <1>1, <1>2, <1>3, RequestKept
<1>6. QED
  BY <1>2, <1>3, <1>4, <1>5, OneMoves

(* The process stops: what was under way is lost.                          *)
LEMMA CrashIInv == ASSUME IInv, Crash PROVE IInv'
<1>1. TypeOK /\ B!OkMeansApplied
  BY DEF IInv
<1>2. UNCHANGED <<ask, began, call, fate, reply, listed, data, record, item>>
  BY DEF Crash, outside
<1>3. \A x \in Req : step'[x] = IF step[x] \in Busy THEN "lost" ELSE step[x]
  BY DEF Crash
<1>4. TypeOK' /\ B!OkMeansApplied'
  <2>1. step' \in [Req -> Steps]
    BY <1>1 DEF Crash, TypeOK, Steps
  <2>2. QED
    BY <1>1, <1>2, <2>1, BroadcastKept DEF TypeOK
<1>5. ASSUME NEW x \in Req PROVE Control(x)' /\ Refused(x)' /\ Gone(x)'
  <2>1. Control(x) /\ Refused(x) /\ Gone(x)
    BY DEF IInv
  <2>2. CASE step[x] \in Busy
    BY <1>2, <1>3, <2>1, <2>2 DEF Control, Refused, Gone, Busy
  <2>3. CASE step[x] \notin Busy
    BY <1>2, <1>3, <2>3, RequestKept
  <2>4. QED
    BY <2>2, <2>3
<1>6. NoMixedLocation' /\ \A d \in Device, e \in Entries : Written(d, e)'
  BY <1>2, DataKept
<1>7. QED
  BY <1>4, <1>5, <1>6 DEF IInv

-----------------------------------------------------------------------------
(* What an update writes is text under the name of its request; a message  *)
(* leaves no coordinate of anybody else.                                   *)
LEMMA UpdatedFacts ==
  ASSUME NEW r \in Req, ask[r] \in Requests, ask[r].op \in {"edit", "message"},
         NEW old \in [Entries -> Value]
  PROVE  /\ Updated(r, old) \in [Entries -> Value]
         /\ \A e \in Entries : \/ Updated(r, old)[e] = old[e]
                               \/ Updated(r, old)[e] = Nothing
                               \/ Updated(r, old)[e] = [by |-> r, as |-> "string"]
         /\ ask[r].op = "message" => \A e \in {"lat", "lng"} : Updated(r, old)[e].by \in {r, "none"}
<1>1. ASSUME NEW e \in Keys(ask[r]), e \in Entries
      PROVE  Parsed(r, BlockchainValue(JsType(ask[r], e))) \in {Nothing, [by |-> r, as |-> "string"]}
  <2>1. JsType(ask[r], e) \in {"string", "number", "boolean", "object", "undefined", "empty"}
    BY RequestFacts DEF JsType
  <2>2. BlockchainValue(JsType(ask[r], e)) # "number"
    BY <2>1 DEF BlockchainValue
  <2>3. QED
    BY <2>2 DEF Parsed
<1>2. Nothing \in Value /\ [by |-> r, as |-> "string"] \in Value
  BY DEF Nothing, Value, Types
<1>3. \A e \in Entries :
        Updated(r, old)[e] = IF e \in Keys(ask[r]) THEN Parsed(r, BlockchainValue(JsType(ask[r], e)))
                             ELSE old[e]
  BY DEF Updated
<1>4. \A e \in Entries : /\ Updated(r, old)[e] \in Value
                         /\ \/ e \notin Keys(ask[r]) /\ Updated(r, old)[e] = old[e]
                            \/ Updated(r, old)[e] = Nothing
                            \/ Updated(r, old)[e] = [by |-> r, as |-> "string"]
  BY <1>1, <1>2, <1>3
<1>5. Updated(r, old) \in [Entries -> Value]
  BY <1>4 DEF Updated
<1>6. ask[r].op = "message" => Keys(ask[r]) = {"lat", "lng"}
  BY DEF Keys
<1>7. Nothing.by = "none" /\ [by |-> r, as |-> "string"].by = r
  BY DEF Nothing
<1>8. {"lat", "lng"} \subseteq Entries
  BY DEF Entries
<1>9. QED
  BY <1>4, <1>5, <1>6, <1>7, <1>8

(* An update gets into a block.                                            *)
LEMMA UpdateIInv ==
  ASSUME IInv, NEW r \in Req, Update(r), UNCHANGED <<ask, step, began, call, record, item>>
  PROVE  IInv'
<1> USE DeviceAssumption
<1>1. TypeOK /\ B!OkMeansApplied /\ Control(r) /\ Refused(r) /\ Gone(r)
  BY DEF IInv
<1>2. /\ ask[r].op \in {"edit", "message"} /\ B!Apply(r)
      /\ data' = [data EXCEPT ![ask[r].device] = Updated(r, @)]
      /\ listed' = listed
  BY DEF Update
<1>3. /\ B!TypeOK' /\ B!OkMeansApplied' /\ reply' = reply
      /\ fate[r] = "sent" /\ fate'[r] = "applied"
      /\ \A x \in Req : x # r => fate'[x] = fate[x]
  BY <1>1, <1>2, ApplyFacts DEF TypeOK
<1>4. ask[r] \in Requests /\ ask[r].device \in Device
  BY <1>1, <1>3, RequestFacts DEF Control
<1> DEFINE old == data[ask[r].device]
           new == Updated(r, old)
<1>5. data \in [Device -> [Entries -> Value]] /\ old \in [Entries -> Value]
  BY <1>1, <1>4 DEF TypeOK
<1>6. /\ new \in [Entries -> Value]
      /\ \A e \in Entries : \/ new[e] = old[e] \/ new[e] = Nothing
                            \/ new[e] = [by |-> r, as |-> "string"]
      /\ ask[r].op = "message" => \A e \in {"lat", "lng"} : new[e].by \in {r, "none"}
  BY <1>2, <1>4, <1>5, UpdatedFacts
<1>7. /\ data' \in [Device -> [Entries -> Value]]
      /\ data'[ask[r].device] = new
      /\ \A d \in Device : d # ask[r].device => data'[d] = data[d]
  <2> HIDE DEF new
  <2>1. data' = [data EXCEPT ![ask[r].device] = new]
    BY <1>2 DEF new
  <2>2. QED
    BY <2>1, <1>4, <1>5, <1>6
<1> HIDE DEF new
<1>8. TypeOK'
  BY <1>1, <1>2, <1>3, <1>7 DEF TypeOK
<1>9. Control(r)' /\ Refused(r)' /\ Gone(r)'
  <2>1. Control(r)'
    BY <1>1, <1>2, <1>3 DEF Control
  <2>2. Refused(r)' /\ Gone(r)'
    BY <1>1, <1>2, <1>3 DEF Refused, Gone
  <2>3. QED
    BY <2>1, <2>2
<1>10. ASSUME NEW x \in Req PROVE Control(x)' /\ Refused(x)' /\ Gone(x)'
  BY <1>2, <1>3, <1>9, RequestKept
<1>11. ASSUME NEW d \in Device, NEW e \in Entries PROVE Written(d, e)'
  <2>1. Written(d, e)
    BY DEF IInv
  <2>2. CASE data'[d][e] = data[d][e]
    BY <1>3, <2>1, <2>2 DEF Written
  <2>3. CASE data'[d][e] = Nothing
    BY <2>3 DEF Written, Nothing
  <2>4. CASE data'[d][e] = [by |-> r, as |-> "string"]
    BY <1>2, <1>3, <2>4 DEF Written
  <2>5. QED
    BY <1>6, <1>7, <2>2, <2>3, <2>4
<1>12. NoMixedLocation'
  <2> SUFFICES ASSUME NEW d \in Device, NEW x \in Req, NEW y \in Req,
                      x = data'[d]["lat"].by, y = data'[d]["lng"].by,
                      ask[x].op = "message", ask[y].op = "message"
               PROVE  x = y
    BY DEF NoMixedLocation
  <2>1. CASE d # ask[r].device
    BY <1>7, <2>1 DEF IInv, NoMixedLocation
  <2>2. CASE d = ask[r].device /\ ask[r].op = "message"
    BY <1>6, <1>7, <2>2
  <2>3. CASE d = ask[r].device /\ ask[r].op = "edit"
    <3>1. \A e \in {"lat", "lng"} :
            new[e].by \in Req /\ new[e].by # r => new[e] = old[e]
      BY <1>6 DEF Nothing, Entries
    <3>2. x # r /\ y # r
      BY <2>3
    <3>3. x = old["lat"].by /\ y = old["lng"].by
      BY <1>7, <2>3, <3>1, <3>2
    <3>4. QED
      BY <2>3, <3>3, <1>4 DEF IInv, NoMixedLocation
  <2>4. QED
    BY <1>2, <2>1, <2>2, <2>3
<1>13. QED
  BY <1>3, <1>8, <1>10, <1>11, <1>12 DEF IInv

(* A destroyed device leaves the dApp.                                     *)
LEMMA RemoveIInv ==
  ASSUME IInv, NEW r \in Req, Remove(r), UNCHANGED <<ask, step, began, call, record, item>>
  PROVE  IInv'
<1>1. TypeOK /\ B!OkMeansApplied /\ Control(r) /\ Refused(r) /\ Gone(r)
  BY DEF IInv
<1>2. /\ ask[r].op = "destroy" /\ B!Apply(r) /\ data' = data
      /\ listed' = listed \ {ask[r].device}
  BY DEF Remove
<1>3. /\ B!TypeOK' /\ B!OkMeansApplied' /\ reply' = reply
      /\ fate[r] = "sent" /\ fate'[r] = "applied"
      /\ \A x \in Req : x # r => fate'[x] = fate[x]
  BY <1>1, <1>2, ApplyFacts DEF TypeOK
<1>4. TypeOK'
  BY <1>1, <1>2, <1>3 DEF TypeOK
<1>5. Control(r)'
  BY <1>1, <1>2, <1>3 DEF Control
<1>6. Refused(r)' /\ Gone(r)'
  BY <1>1, <1>2, <1>3 DEF Refused, Gone
<1>7. ASSUME NEW x \in Req PROVE Control(x)' /\ Refused(x)' /\ Gone(x)'
  BY <1>2, <1>3, <1>5, <1>6, RequestKept
<1>8. NoMixedLocation' /\ \A d \in Device, e \in Entries : Written(d, e)'
  BY <1>2, <1>3, DataKept
<1>9. QED
  BY <1>3, <1>4, <1>7, <1>8 DEF IInv

(* Every step keeps the invariant.                                         *)
LEMMA StepIInv == IInv /\ [Next]_vars => IInv'
<1> SUFFICES ASSUME IInv, [Next]_vars PROVE IInv'
  OBVIOUS
<1>1. ASSUME NEW r \in Req, Handle(r) PROVE IInv'
  BY <1>1, LookIInv, AnswerIInv DEF Handle
<1>2. ASSUME NEW r \in Req, Include(r) PROVE IInv'
  BY <1>2, UpdateIInv, RemoveIInv DEF Include
<1>3. CASE UNCHANGED vars
  <2>1. UNCHANGED <<ask, step, began, call, listed, data, record, item, fate, reply>>
    BY <1>3 DEF vars
  <2>2. TypeOK /\ B!OkMeansApplied
    BY DEF IInv
  <2>3. TypeOK' /\ B!OkMeansApplied'
    BY <2>1, <2>2, BroadcastKept DEF TypeOK
  <2>4. \A x \in Req : Control(x)' /\ Refused(x)' /\ Gone(x)'
    BY <2>1, RequestKept
  <2>5. NoMixedLocation' /\ \A d \in Device, e \in Entries : Written(d, e)'
    BY <2>1, DataKept
  <2>6. QED
    BY <2>3, <2>4, <2>5 DEF IInv
<1>4. QED
  BY <1>1, <1>2, <1>3, StartIInv, ServeIInv, OutcomeIInv, CrashIInv DEF Next

(* The inductive invariant of the calls on existing devices: what each     *)
(* request has sent is what it asked for, and devices that are off the     *)
(* dApp stay off it (connect to connectExisting, lines 108-203).           *)
THEOREM Invariance == Spec => []IInv
  BY InitIInv, StepIInv, PTL DEF Spec

(* Requests, chain and supplier stay within their values.                  *)
THEOREM TypeCorrect == Spec => []TypeOK
<1>1. IInv => TypeOK
  BY DEF IInv
<1>2. QED
  BY <1>1, Invariance, PTL

(* A device that is off the dApp when connect, disconnect, connectExisting *)
(* or destroy is called is out of its reach: the call sends nothing, now   *)
(* or later, and is not answered with success (deviceExists, lines         *)
(* 222-230).                                                               *)
THEOREM LateCallsAreRefusedAlways == Spec => []LateCallsAreRefused
<1>1. IInv => LateCallsAreRefused
  <2> SUFFICES ASSUME IInv, NEW r \in Req, ask[r].op \in Guarded, ~began[r]
               PROVE  call[r] = "none" /\ fate[r] = "none" /\ step[r] # "ok"
    BY DEF LateCallsAreRefused
  <2>1. Control(r) /\ Refused(r)
    BY DEF IInv
  <2>2. QED
    BY <2>1 DEF Control, Refused
<1>2. QED
  BY <1>1, Invariance, PTL

(* Coordinates that messages wrote come from one message, however messages *)
(* and edits follow each other into blocks (deviceMessage, lines 171-174). *)
THEOREM NoMixedLocationAlways == Spec => []NoMixedLocation
<1>1. IInv => NoMixedLocation
  BY DEF IInv
<1>2. QED
  BY <1>1, Invariance, PTL

(* No edit and no message ever writes anything but text (blockchainValue,  *)
(* lines 267-276, before parseEntries).                                    *)
THEOREM WrittenAsTextAlways == Spec => []WrittenAsText
<1>1. IInv => WrittenAsText
  BY DEF IInv, Written, WrittenAsText
<1>2. QED
  BY <1>1, Invariance, PTL

(* A successful answer of a call on a device stands for what it says at    *)
(* the supplier, in the device's data and on the dApp (lines 108-203).     *)
THEOREM OkMeansDoneAlways == Spec => []OkMeansDone
<1>1. IInv => OkMeansDone
  <2> SUFFICES ASSUME IInv, NEW r \in Req, step[r] = "ok"
               PROVE  /\ ask[r].op \in CallsSupplier => call[r] = "done"
                      /\ Sends(ask[r]) => fate[r] = "applied"
                      /\ ask[r].op = "destroy" => ask[r].device \notin listed
    BY DEF OkMeansDone
  <2>1. Control(r) /\ Gone(r)
    BY DEF IInv
  <2>2. reply[r] = "ok" => fate[r] = "applied"
    BY DEF IInv, B!OkMeansApplied, Tx
  <2>3. ask[r].op = "destroy" => Sends(ask[r])
    BY DEF Sends
  <2>4. QED
    BY <2>1, <2>2, <2>3 DEF Control, Gone
<1>2. QED
  BY <1>1, Invariance, PTL

-----------------------------------------------------------------------------
(* The refinement: what DevicePromise sees of the calls (connect to        *)
(* connectExisting, lines 108-203).                                        *)
Want == [r \in Req |-> Committed(r)]
Done == [r \in Req |-> Happened(r)]
Told == [r \in Req |-> Reported(r)]

(* What a request that sends something commits to.                         *)
LEMMA EffectFacts ==
  ASSUME NEW q \in Requests, q.op \in CallsSupplier \/ Sends(q)
  PROVE  /\ Effect(q) \in P!Effect /\ Effect(q) # [kind |-> "none"]
         /\ Effect(q).kind = q.op /\ Effect(q).device = q.device
         /\ q.op = "attach" => Effect(q).item = q.item
         /\ q.op \in {"edit", "message"} =>
              /\ Effect(q).text = Text(q)
              /\ Effect(q).gone = IF q.op = "edit" THEN {} ELSE {"lat", "lng"} \ Text(q)
<1>1. q.device \in Device /\ q.op \in AskFirst \cup {"connection", "edit", "message"}
  BY RequestFacts
<1>2. q.op \in {"connect", "disconnect", "connection", "attach", "destroy", "edit", "message"}
  BY <1>1 DEF CallsSupplier, Sends
<1>3. CASE q.op = "attach"
  <2>1. q.item \in Item
    BY <1>3 DEF Requests, ConnectRequest, DisconnectRequest, ConnectionRequest, DestroyRequest,
                ShowRequest, IndexRequest, AttachRequest, EditRequest, MessageRequest
  <2>2. Effect(q) = [kind |-> "attach", device |-> q.device, item |-> q.item]
    BY <1>3 DEF Effect
  <2>3. QED
    BY <1>1, <1>3, <2>1, <2>2 DEF P!Effect
<1>4. CASE q.op \in {"edit", "message"}
  <2> DEFINE gone == IF q.op = "edit" THEN {} ELSE {"lat", "lng"} \ Text(q)
  <2>1. Effect(q) = [kind |-> q.op, device |-> q.device, text |-> Text(q), gone |-> gone]
    BY <1>4 DEF Effect
  <2>2. CASE q.op = "edit"
    <3>1. q.keys \subseteq Entries
      BY <2>2, DeviceAssumption
         DEF Requests, ConnectRequest, DisconnectRequest, ConnectionRequest, DestroyRequest,
             ShowRequest, IndexRequest, AttachRequest, EditRequest, MessageRequest
    <3>2. Text(q) \in SUBSET (Entries \ {"type"}) /\ gone \in {{}}
      BY <2>2, <3>1 DEF Text
    <3>3. QED
      BY <1>1, <2>1, <2>2, <3>2 DEF P!Effect, P!Update
  <2>3. CASE q.op = "message"
    <3>1. Text(q) # {}
      BY <2>3, RequestFacts DEF Text, JsType, Sends, Located, CallsSupplier
    <3>2. Text(q) \subseteq P!Place /\ gone = P!Place \ Text(q)
      BY <2>3 DEF Text, P!Place
    <3>3. QED
      BY <1>1, <2>1, <2>3, <3>1, <3>2 DEF P!Effect, P!Update
  <2>4. QED
    BY <1>4, <2>2, <2>3
<1>5. CASE q.op \in {"connect", "disconnect", "connection", "destroy"}
  <2>1. Effect(q) = [kind |-> q.op, device |-> q.device]
    BY <1>5 DEF Effect
  <2>2. QED
    BY <1>1, <1>5, <2>1 DEF P!Effect
<1>6. QED
  BY <1>2, <1>3, <1>4, <1>5

(* An update is what the request has committed to: text, or nothing.       *)
LEMMA UpdateIsEffect ==
  ASSUME NEW r \in Req, ask[r] \in Requests, ask[r].op \in {"edit", "message"}, Sends(ask[r]),
         NEW old
  PROVE  Updated(r, old) = [n \in Entries |->
           IF n \in Effect(ask[r]).text THEN [by |-> r, as |-> "string"]
           ELSE IF n \in Effect(ask[r]).gone THEN [by |-> "none", as |-> "none"] ELSE old[n]]
<1> DEFINE q == ask[r]
<1>1. /\ Effect(q).text = Text(q)
      /\ Effect(q).gone = IF q.op = "edit" THEN {} ELSE {"lat", "lng"} \ Text(q)
  BY EffectFacts
<1>2. ASSUME NEW n \in Keys(q)
      PROVE  Parsed(r, BlockchainValue(JsType(q, n))) =
               IF n \in Text(q) THEN [by |-> r, as |-> "string"] ELSE [by |-> "none", as |-> "none"]
  <2>1. JsType(q, n) \in {"string", "number", "boolean", "object", "undefined", "empty"}
    BY RequestFacts DEF JsType
  <2>2. n \in Text(q) <=> JsType(q, n) # "undefined"
    BY <1>2, RequestFacts DEF Text, Keys, JsType
  <2>3. QED
    BY <2>1, <2>2 DEF Parsed, BlockchainValue, Nothing
<1>3. \A n : n \in Keys(q) <=> n \in Effect(q).text \/ n \in Effect(q).gone
  BY <1>1 DEF Keys, Text
<1>4. \A n \in Entries :
        (IF n \in Keys(q) THEN Parsed(r, BlockchainValue(JsType(q, n))) ELSE old[n]) =
        (IF n \in Effect(q).text THEN [by |-> r, as |-> "string"]
         ELSE IF n \in Effect(q).gone THEN [by |-> "none", as |-> "none"] ELSE old[n])
  BY <1>1, <1>2, <1>3
<1>5. QED
  BY <1>4, Zenon DEF Updated

(* Nothing is committed to, done or told at the start.                     *)
LEMMA InitPromise == Init => P!Init
<1> SUFFICES ASSUME Init PROVE P!Init
  OBVIOUS
<1>1. \A r \in Req : step[r] = "idle" /\ call[r] = "none" /\ fate[r] = "none"
  BY DEF Init, B!Init, Tx
<1>2. \A r \in Req : /\ Committed(r) = [kind |-> "none"]
                     /\ Happened(r) = FALSE /\ Reported(r) = FALSE
  BY <1>1 DEF Committed, Happened, Reported, Sent
<1>3. /\ Want = [r \in Req |-> P!NoEffect]
      /\ Done = [r \in Req |-> FALSE] /\ Told = [r \in Req |-> FALSE]
  BY <1>2, Zenon DEF Want, Done, Told, P!NoEffect
<1>4. data \in [Device -> [Entries -> [by : {"init"}, as : {"string", "boolean"}]]]
  BY DEF Init
<1>5. listed \in SUBSET Device /\ record \in [Device -> BOOLEAN] /\ item = Item
  BY Zenon DEF Init
<1>6. QED
  BY <1>3, <1>4, <1>5, Zenon DEF P!Init, Want, Done, Told

(* A request that sends nothing new, gets nothing done and is not answered *)
(* with success looks the same to the promise.                             *)
LEMMA SameView ==
  ASSUME NEW x \in Req, Sent(x)' <=> Sent(x), Sent(x) => ask'[x] = ask[x],
         Happened(x)' <=> Happened(x), Sent(x) => (step'[x] = "ok" <=> step[x] = "ok")
  PROVE  /\ Committed(x)' = Committed(x)
         /\ (Happened(x)') = Happened(x) /\ (Reported(x)') = Reported(x)
<1>1. Committed(x)' = Committed(x)
  BY DEF Committed, Effect, Text, JsType
<1>2. QED
  BY <1>1 DEF Reported, Happened

(* When all requests look the same, so does the promise's part of them.    *)
LEMMA ViewKept ==
  ASSUME \A x \in Req : /\ Committed(x)' = Committed(x)
                        /\ (Happened(x)') = Happened(x) /\ (Reported(x)') = Reported(x)
  PROVE  Want' = Want /\ Done' = Done /\ Told' = Told
  BY Zenon DEF Want, Done, Told

(* A request that sends what it calls for is the promise's Commit.         *)
LEMMA ActCommits ==
  ASSUME IInv, NEW r \in Req, NEW q \in Requests, step[r] \in {"idle", "looking"}, Act(r, q),
         ask'[r] = q, \A x \in Req : x # r => ask'[x] = ask[x],
         UNCHANGED outside, q.op \in Guarded => q.device \in listed
  PROVE  P!Commit(r)
<1>1. /\ \A x \in Req : x # r => step'[x] = step[x] /\ call'[x] = call[x] /\ fate'[x] = fate[x]
      /\ \/ /\ q.op \in CallsSupplier /\ step'[r] = "calling"
            /\ call'[r] = "sent" /\ fate'[r] = "none"
         \/ /\ Sends(q) /\ step'[r] = "sending"
            /\ call'[r] = "none" /\ fate'[r] = "sent"
  BY ActFacts
<1>2. Control(r) /\ call[r] = "none" /\ fate[r] = "none"
  BY DEF IInv, Control
<1>3. \A x \in Req : x # r => /\ Committed(x)' = Committed(x)
                              /\ (Happened(x)') = Happened(x) /\ (Reported(x)') = Reported(x)
  BY <1>1, SameView DEF Sent, Happened
<1>4. /\ Committed(r) = P!NoEffect /\ Committed(r)' = Effect(q)
      /\ Happened(r) = FALSE /\ (Happened(r)') = FALSE
      /\ Reported(r) = FALSE /\ (Reported(r)') = FALSE
  <2>1. ~Sent(r) /\ Sent(r)' /\ ~Happened(r) /\ ~(Happened(r)') /\ ~(Reported(r)')
    BY <1>1, <1>2 DEF Sent, Happened, Reported
  <2>2. Committed(r)' = Effect(q)
    BY <2>1 DEF Committed, Effect, Text, JsType
  <2>3. QED
    BY <2>1, <2>2 DEF Committed, Reported, P!NoEffect
<1>5. Done' = Done /\ Told' = Told
  BY <1>3, <1>4, Zenon DEF Done, Told
<1>6. Want' = [Want EXCEPT ![r] = Effect(q)] /\ Want'[r] = Effect(q) /\ Want[r] = P!NoEffect
  BY <1>3, <1>4 DEF Want
<1>7. /\ Effect(q) \in P!Effect
      /\ Effect(q).kind \in P!OfTheDapp => Effect(q).device \in listed
  BY <1>1, EffectFacts DEF P!OfTheDapp, Guarded
<1>8. UNCHANGED P!devices
  BY DEF outside, P!devices
<1>9. /\ Want[r] = P!NoEffect /\ Want'[r] \in P!Effect
      /\ Want'[r].kind \in P!OfTheDapp => Want'[r].device \in listed
      /\ Want' = [Want EXCEPT ![r] = Want'[r]] /\ UNCHANGED <<Done, Told>>
  BY <1>5, <1>6, <1>7
<1>10. QED
  BY <1>8, <1>9, Zenon DEF P!Commit, Want, Done, Told

(* What is done is done for the one request, and is what it wanted.        *)
LEMMA DoneOnce ==
  ASSUME IInv, NEW r \in Req, UNCHANGED <<ask, step>>, ask[r] \in Requests, Sent(r), Sent(r)',
         ~Happened(r), Happened(r)',
         \A x \in Req : x # r => call'[x] = call[x] /\ fate'[x] = fate[x]
  PROVE  /\ Want' = Want /\ Told' = Told /\ Done' = [Done EXCEPT ![r] = TRUE]
         /\ Want[r] = Effect(ask[r]) /\ Want[r] # P!NoEffect /\ ~Done[r]
<1>1. \A x \in Req : /\ Committed(x)' = Committed(x) /\ (Reported(x)') = Reported(x)
                     /\ (Happened(x)') = (IF x = r THEN TRUE ELSE Happened(x))
  <2>1. ASSUME NEW x \in Req, x # r
        PROVE  /\ Committed(x)' = Committed(x)
               /\ (Happened(x)') = Happened(x) /\ (Reported(x)') = Reported(x)
    BY <2>1, SameView DEF Sent, Happened
  <2>2. Committed(r)' = Committed(r) /\ (Reported(r)') = Reported(r)
    BY DEF Committed, Effect, Text, JsType, Reported
  <2>3. QED
    BY <2>1, <2>2
<1>2. Want' = Want /\ Told' = Told
  BY <1>1, Zenon DEF Want, Told
<1>3. Done' = [x \in Req |-> IF x = r THEN TRUE ELSE Happened(x)]
  BY <1>1, Zenon DEF Done
<1>4. [Done EXCEPT ![r] = TRUE] = [x \in Req |-> IF x = r THEN TRUE ELSE Happened(x)]
  BY DEF Done
<1>5. Control(r) /\ (ask[r].op \in CallsSupplier \/ Sends(ask[r]))
  BY DEF IInv, Control, Sent
<1>6. Want[r] = Effect(ask[r]) /\ Want[r] # P!NoEffect
  BY <1>5, EffectFacts DEF Want, Committed, P!NoEffect
<1>7. ~Done[r]
  BY DEF Done
<1>8. QED
  BY <1>2, <1>3, <1>4, <1>6, <1>7

(* The supplier carrying out a request is the promise's Do; that it        *)
(* refuses one is not seen.                                                *)
LEMMA ServeDoes == ASSUME IInv, NEW r \in Req, Serve(r) PROVE P!Do(r) \/ UNCHANGED P!vars
<1>1. /\ TypeOK /\ Control(r) /\ call[r] = "sent"
      /\ UNCHANGED <<ask, step, began, listed, data, fate, reply>>
  BY DEF IInv, Serve
<1>2. ask[r] \in Requests /\ ask[r].op \in CallsSupplier /\ ~Sends(ask[r]) /\ fate[r] = "none"
  <2>1. ask[r] \in Requests /\ ask[r].op \in CallsSupplier
    BY <1>1 DEF Control
  <2>2. ~Sends(ask[r])
    BY <2>1, RequestFacts
  <2>3. QED
    BY <1>1, <2>1, <2>2 DEF Control, TypeOK, B!TypeOK, B!Fates
<1>3. /\ call'[r] \in {"done", "missing", "refused"}
      /\ \A x \in Req : x # r => call'[x] = call[x]
  BY <1>1 DEF Serve, TypeOK
<1>4. Sent(r) /\ Sent(r)' /\ ~Happened(r) /\ (Happened(r)' <=> call'[r] = "done")
  BY <1>1, <1>2, <1>3 DEF Sent, Happened
<1>5. CASE call'[r] = "done"
  <2>1. /\ Want' = Want /\ Told' = Told /\ Done' = [Done EXCEPT ![r] = TRUE]
        /\ Want[r] = Effect(ask[r]) /\ Want[r] # P!NoEffect /\ ~Done[r]
    BY <1>1, <1>2, <1>3, <1>4, <1>5, DoneOnce
  <2>2. PICK e : e = Effect(ask[r])
    OBVIOUS
  <2>3. /\ e.kind = ask[r].op /\ e.device = ask[r].device
        /\ ask[r].op = "attach" => e.item = ask[r].item
    BY <1>2, <2>2, EffectFacts
  <2>4. P!AtSupplier(e)
    BY <1>1, <1>5, <2>3 DEF P!AtSupplier, Serve, TypeOK
  <2>5. P!AtSupplier(Want[r])
    BY <2>1, <2>2, <2>4
  <2>6. P!Do(r)
    BY <1>1, <2>1, <2>5, Zenon DEF P!Do, Want, Done, Told
  <2>7. QED
    BY <2>6
<1>6. CASE call'[r] # "done"
  <2>1. UNCHANGED <<record, item>>
    BY <1>1, <1>6 DEF Serve, TypeOK
  <2>2. Want' = Want /\ Done' = Done /\ Told' = Told
    <3>1. \A x \in Req : Sent(x)' <=> Sent(x)
      BY <1>1, <1>3, <1>4 DEF Sent
    <3>2. \A x \in Req : Happened(x)' <=> Happened(x)
      BY <1>1, <1>3, <1>4, <1>6 DEF Happened
    <3>3. QED
      BY <1>1, <3>1, <3>2, SameView, ViewKept
  <2>3. QED
    BY <1>1, <2>1, <2>2, Zenon DEF P!vars, Want, Done, Told
<1>7. QED
  BY <1>5, <1>6

(* A transaction that gets into a block is the promise's Do.               *)
LEMMA IncludeDoes == ASSUME IInv, NEW r \in Req, Include(r) PROVE P!Do(r)
<1>1. /\ TypeOK /\ B!TypeOK /\ B!OkMeansApplied /\ Control(r)
      /\ UNCHANGED <<ask, step, began, call, record, item>> /\ B!Apply(r)
  BY DEF IInv, TypeOK, Include, Update, Remove
<1>2. /\ fate[r] = "sent" /\ fate'[r] = "applied"
      /\ \A x \in Req : x # r => fate'[x] = fate[x]
  BY <1>1, ApplyFacts
<1>3. ask[r] \in Requests /\ Sends(ask[r]) /\ call[r] = "none"
  <2>1. ask[r] \in Requests /\ Sends(ask[r])
    BY <1>1, <1>2 DEF Control
  <2>2. ask[r].op \notin CallsSupplier
    BY <2>1, RequestFacts
  <2>3. QED
    BY <1>1, <2>1, <2>2 DEF Control
<1>4. Sent(r) /\ Sent(r)' /\ ~Happened(r) /\ Happened(r)'
  BY <1>1, <1>2, <1>3 DEF Sent, Happened
<1>5. /\ Want' = Want /\ Told' = Told /\ Done' = [Done EXCEPT ![r] = TRUE]
      /\ Want[r] = Effect(ask[r]) /\ Want[r] # P!NoEffect /\ ~Done[r]
  BY <1>1, <1>2, <1>3, <1>4, DoneOnce
<1>6. Effect(ask[r]).kind = ask[r].op /\ Effect(ask[r]).device = ask[r].device
  BY <1>3, EffectFacts
<1>7. P!OnChain(r, Effect(ask[r]))
  <2>1. CASE Remove(r)
    BY <1>6, <2>1 DEF Remove, P!OnChain
  <2>2. CASE Update(r)
    <3>1. PICK e : e = Effect(ask[r])
      OBVIOUS
    <3>2. /\ ask[r].op \in {"edit", "message"} /\ listed' = listed
          /\ data' = [data EXCEPT ![ask[r].device] = Updated(r, data[ask[r].device])]
      BY <2>2 DEF Update
    <3>3. Updated(r, data[ask[r].device]) = [n \in Entries |->
            IF n \in e.text THEN [by |-> r, as |-> "string"]
            ELSE IF n \in e.gone THEN [by |-> "none", as |-> "none"] ELSE data[ask[r].device][n]]
      BY <1>3, <3>1, <3>2, UpdateIsEffect
    <3>4. e.kind \in {"edit", "message"} /\ e.device = ask[r].device
      BY <1>6, <3>1, <3>2
    <3>5. data' = [data EXCEPT ![e.device] = [n \in Entries |->
            IF n \in e.text THEN [by |-> r, as |-> "string"]
            ELSE IF n \in e.gone THEN [by |-> "none", as |-> "none"] ELSE data[e.device][n]]]
      BY <3>2, <3>3, <3>4
    <3>6. P!OnChain(r, e)
      BY <3>2, <3>4, <3>5, Zenon DEF P!OnChain
    <3>7. QED
      BY <3>1, <3>6
  <2>3. QED
    BY <2>1, <2>2 DEF Include
<1>8. P!OnChain(r, Want[r])
  BY <1>5, <1>7
<1>9. QED
  BY <1>1, <1>5, <1>8, Zenon DEF P!Do, Want, Done, Told

(* An answer of success to a request that sent something is the promise's  *)
(* Tell.                                                                   *)
LEMMA AnswerTells == ASSUME IInv, NEW r \in Req, Served(r) \/ SendingEnds(r) PROVE P!Tell(r)
<1>1. /\ TypeOK /\ Control(r) /\ B!OkMeansApplied /\ step[r] \in {"calling", "sending"}
      /\ step' = [step EXCEPT ![r] = "ok"] /\ UNCHANGED <<ask, call, fate>> /\ UNCHANGED outside
  BY DEF IInv, Served, SendingEnds, Ends, GoTo
<1>2. Happened(r) /\ Sent(r)
  <2>1. CASE Served(r)
    BY <2>1 DEF Served, Success, Happened, Sent
  <2>2. CASE SendingEnds(r)
    <3>1. fate[r] = "applied"
      BY <1>1, <2>2 DEF SendingEnds, Confirmed, B!OkMeansApplied, Tx
    <3>2. QED
      BY <3>1 DEF Happened, Sent
  <2>3. QED
    BY <2>1, <2>2
<1>3. \A x \in Req : x # r => step'[x] = step[x]
  BY <1>1 DEF TypeOK
<1>4. \A x \in Req : /\ Committed(x)' = Committed(x) /\ (Happened(x)') = Happened(x)
                     /\ (Reported(x)') = (IF x = r THEN TRUE ELSE Reported(x))
  <2>1. ASSUME NEW x \in Req
        PROVE  Committed(x)' = Committed(x) /\ (Happened(x)') = Happened(x)
    BY <1>1 DEF Committed, Sent, Effect, Text, JsType, Happened
  <2>2. \A x \in Req : (Reported(x)') = (IF x = r THEN TRUE ELSE Reported(x))
    BY <1>1, <1>2, <1>3 DEF Reported, Sent, TypeOK
  <2>3. QED
    BY <2>1, <2>2
<1>5. Want' = Want /\ Done' = Done /\ Told' = [x \in Req |-> IF x = r THEN TRUE ELSE Reported(x)]
  BY <1>4, Zenon DEF Want, Done, Told
<1>6. [Told EXCEPT ![r] = TRUE] = [x \in Req |-> IF x = r THEN TRUE ELSE Reported(x)]
  BY DEF Told
<1>7. Done[r] /\ Told' = [Told EXCEPT ![r] = TRUE]
  BY <1>2, <1>5, <1>6 DEF Done
<1>8. UNCHANGED P!devices
  BY <1>1 DEF outside, P!devices
<1>9. QED
  BY <1>5, <1>7, <1>8, Zenon DEF P!Tell, Want, Done, Told

(* Reads, refusals, errors, calls that only read or say nothing, the ends  *)
(* of broadcast calls and a crash change nothing of the promise.           *)
LEMMA OthersAreUnseen ==
  ASSUME IInv,
         \/ \E r \in Req : \/ Refuse(r) \/ RefuseParams(r) \/ Absent(r) \/ Shown(r) \/ ReadFails(r)
                           \/ CallFails(r) \/ SendingFails(r) \/ Outcome(r)
         \/ Crash
         \/ UNCHANGED vars
  PROVE  UNCHANGED P!vars
<1>1. TypeOK /\ B!TypeOK /\ B!OkMeansApplied /\ \A x \in Req : Control(x)
  BY DEF IInv, TypeOK
<1>2. UNCHANGED <<ask, call>> /\ UNCHANGED outside
  BY DEF Refuse, RefuseParams, Absent, Shown, ReadFails, CallFails, SendingFails, Outcome, Ends,
         Crash, vars, outside
<1>3. fate' = fate
  <2>1. ASSUME NEW r \in Req, Outcome(r) PROVE fate' = fate
    BY <1>1, <2>1, OutcomeFacts DEF Outcome
  <2>2. QED
    BY <2>1 DEF Refuse, RefuseParams, Absent, Shown, ReadFails, CallFails, SendingFails, Ends, Crash, vars
<1>4. \A x \in Req : Sent(x) => (step'[x] = "ok" <=> step[x] = "ok")
  <2>1. ASSUME NEW r \in Req, Shown(r) PROVE ~Sent(r)
    BY <1>1, <2>1 DEF Shown, Control, Sent
  <2>2. ASSUME NEW r \in Req,
               Refuse(r) \/ RefuseParams(r) \/ Absent(r) \/ Shown(r) \/ ReadFails(r) \/ CallFails(r)
                 \/ SendingFails(r)
        PROVE  /\ step[r] # "ok"
               /\ \E s \in {"invalid", "notfound", "error", "ok"} :
                    (s = "ok" => Shown(r)) /\ step' = [step EXCEPT ![r] = s]
    BY <2>2 DEF Refuse, RefuseParams, Absent, Shown, ReadFails, CallFails, SendingFails, Ends, GoTo
  <2>3. ASSUME NEW r \in Req,
               Refuse(r) \/ RefuseParams(r) \/ Absent(r) \/ Shown(r) \/ ReadFails(r) \/ CallFails(r)
                 \/ SendingFails(r)
        PROVE  \A x \in Req : Sent(x) => (step'[x] = "ok" <=> step[x] = "ok")
    BY <1>1, <2>1, <2>2, <2>3 DEF TypeOK
  <2>4. QED
    BY <2>3 DEF Outcome, Crash, Busy, vars
<1>5. Want' = Want /\ Done' = Done /\ Told' = Told
  <2>1. \A x \in Req : (Sent(x)' <=> Sent(x)) /\ (Happened(x)' <=> Happened(x))
    BY <1>2, <1>3 DEF Sent, Happened
  <2>2. QED
    BY <1>2, <1>4, <2>1, SameView, ViewKept
<1>6. QED
  BY <1>2, <1>5, Zenon DEF P!vars, P!devices, outside, Want, Done, Told

(* A request that is looked up first, or ends at once, is not seen; one    *)
(* that acts at once commits.                                              *)
LEMMA StartCommits ==
  ASSUME IInv, NEW r \in Req, Start(r) PROVE P!Commit(r) \/ UNCHANGED P!vars
<1>1. TypeOK /\ Control(r) /\ step[r] = "idle" /\ call[r] = "none" /\ fate[r] = "none"
  BY DEF IInv, Start, Control
<1>2. PICK q \in Requests :
        /\ ask' = [ask EXCEPT ![r] = q]
        /\ \/ q.op \in AskFirst /\ GoTo(r, "looking") /\ UNCHANGED <<call, fate, reply>>
           \/ q.op \notin AskFirst /\ Act(r, q)
           \/ q.op = "message" /\ ~Located(q) /\ GoTo(r, "ok") /\ UNCHANGED <<call, fate, reply>>
        /\ UNCHANGED outside
  BY DEF Start
<1>3. ask'[r] = q /\ \A x \in Req : x # r => ask'[x] = ask[x]
  BY <1>1, <1>2 DEF TypeOK
<1>4. CASE q.op \notin AskFirst /\ Act(r, q)
  <2>1. q.op \notin Guarded
    BY <1>4 DEF AskFirst, Guarded
  <2>2. QED
    BY <1>1, <1>2, <1>3, <1>4, <2>1, ActCommits
<1>5. CASE UNCHANGED <<call, fate, reply>> /\ (GoTo(r, "looking") \/ GoTo(r, "ok"))
  <2>1. ~Sent(r)
    BY <1>1 DEF Sent
  <2>2. \A x \in Req : Sent(x) => ask'[x] = ask[x] /\ step'[x] = step[x]
    BY <1>1, <1>3, <1>5, <2>1 DEF GoTo, TypeOK
  <2>3. \A x \in Req : (Sent(x)' <=> Sent(x)) /\ (Happened(x)' <=> Happened(x))
    BY <1>5 DEF Sent, Happened
  <2>4. Want' = Want /\ Done' = Done /\ Told' = Told
    BY <2>2, <2>3, SameView, ViewKept
  <2>5. QED
    BY <1>2, <2>4, Zenon DEF P!vars, P!devices, outside, Want, Done, Told
<1>6. QED
  BY <1>2, <1>4, <1>5

(* The calls about existing devices implement DevicePromise: what only a   *)
(* device of the dApp can be subject to is sent for no other, nothing      *)
(* happens twice, updates are text and move a position as a whole, and     *)
(* success is reported last (connect to connectExisting, lines 108-203).   *)
THEOREM Refinement == Spec => KeepsPromise
<1>1. ASSUME IInv, [Next]_vars PROVE [P!Next]_(P!vars)
  <2>1. ASSUME NEW r \in Req, Start(r) PROVE [P!Next]_(P!vars)
    BY <1>1, <2>1, StartCommits DEF P!Next
  <2>2. ASSUME NEW r \in Req, Exists(r) PROVE P!Next
    <3>1. Control(r) /\ step[r] = "looking" /\ ask[r].device \in listed /\ Act(r, ask[r])
          /\ UNCHANGED <<ask, began>> /\ UNCHANGED outside
      BY <1>1, <2>2 DEF IInv, Exists
    <3>2. ask[r] \in Requests
      BY <3>1 DEF Control
    <3>3. QED
      BY <1>1, <3>1, <3>2, ActCommits DEF P!Next
  <2>3. ASSUME NEW r \in Req, Serve(r) PROVE [P!Next]_(P!vars)
    BY <1>1, <2>3, ServeDoes DEF P!Next
  <2>4. ASSUME NEW r \in Req, Include(r) PROVE P!Next
    BY <1>1, <2>4, IncludeDoes DEF P!Next
  <2>5. ASSUME NEW r \in Req, Served(r) \/ SendingEnds(r) PROVE P!Next
    BY <1>1, <2>5, AnswerTells DEF P!Next
  <2>6. QED
    BY <1>1, <2>1, <2>2, <2>3, <2>4, <2>5, OthersAreUnseen DEF Next, Handle, Look
<1>2. QED
  BY <1>1, InitPromise, Invariance, PTL DEF Spec, KeepsPromise, P!Spec

-----------------------------------------------------------------------------
(* Submitting some transactions, or none, is a step of Broadcast.          *)
LEMMA SubmitIsNext ==
  ASSUME B!TypeOK, NEW T, T \subseteq Tx, B!Submit(T)
  PROVE  [B!Next]_(B!vars)
<1>1. CASE T = {}
  BY <1>1 DEF B!Submit, B!TypeOK, B!vars
<1>2. CASE T # {}
  BY <1>2 DEF B!Next
<1>3. QED
  BY <1>1, <1>2

(* Every transaction goes through broadcast: what Broadcast_proofs says of *)
(* it - an id is that of a transaction in a block, an answer and a fate    *)
(* are final - is so for all transactions of this module.                  *)
THEOREM SendsByBroadcast == Spec => B!Spec
<1>1. ASSUME IInv, [Next]_vars PROVE [B!Next]_(B!vars)
  <2>1. TypeOK /\ B!TypeOK
    BY <1>1 DEF IInv, TypeOK
  <2>2. ASSUME NEW r \in Req, NEW q, Act(r, q) PROVE [B!Next]_(B!vars)
    BY <2>1, <2>2, SubmitIsNext DEF Act, Tx, B!vars
  <2>3. ASSUME NEW r \in Req, Start(r) \/ Exists(r) PROVE [B!Next]_(B!vars)
    BY <2>2, <2>3 DEF Start, Exists, B!vars
  <2>4. ASSUME NEW r \in Req, Include(r) \/ Outcome(r) PROVE B!Next
    BY <2>4 DEF Include, Update, Remove, Outcome, Tx, B!Next, B!Progress
  <2>5. QED
    BY <1>1, <2>3, <2>4
       DEF Next, Handle, Look, Refuse, RefuseParams, Absent, Shown, ReadFails, Served, CallFails,
           SendingEnds, SendingFails, Serve, Crash, Ends, vars, B!vars
<1>2. Init => B!Init
  BY DEF Init
<1>3. QED
  BY <1>1, <1>2, Invariance, PTL DEF Spec, B!Spec
=============================================================================

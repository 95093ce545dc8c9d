------------------------ MODULE DeviceCommands_proofs -------------------------
(***************************************************************************)
(* DeviceCommands, for any requests, any number of blocks and any history. *)
(***************************************************************************)
EXTENDS DeviceCommands, TLAPS

-----------------------------------------------------------------------------
(* Nothing has been asked at the start.                                    *)
LEMMA InitIInv == Init => IInv
<1> SUFFICES ASSUME Init PROVE IInv
  OBVIOUS
<1>1. B!TypeOK /\ B!OkMeansApplied
  BY DEF Init, B!Init, B!TypeOK, B!OkMeansApplied, B!Fates, B!Replies
<1>2. TypeOK
  BY <1>1, CommandsAssumption DEF Init, TypeOK, Steps
<1>3. \A r \in Req : step[r] = "idle" /\ tip[r] = 0 /\ began[r] = 2 /\ height = 2
  BY DEF Init
<1>4. ASSUME NEW r \in Req PROVE RequestInv(r)
  <2>1. began[r] <= height /\ tip[r] <= height
    BY <1>3
  <2>2. QED
    BY <1>3, <2>1, Zenon DEF RequestInv
<1>5. QED
  BY <1>1, <1>2, <1>4 DEF IInv

(* What a read may have looked at, a later state still counts.             *)
LEMMA WindowGrows ==
  ASSUME NEW r \in Req, NEW f, TypeOK, height' \in 2 .. MaxHeight, height <= height',
         began'[r] = began[r], NEW h \in Window(r, f)
  PROVE  h \in Window(r, f)'
<1>1. MaxHeight \in Nat /\ height \in Nat /\ height' \in Nat /\ began[r] \in Nat
  BY CommandsAssumption DEF TypeOK
<1>2. CASE f = "owner"
  BY <1>1, <1>2 DEF Window
<1>3. CASE f # "owner"
  BY <1>1, <1>3 DEF Window
<1>4. QED
  BY <1>2, <1>3

(* A request that does not move keeps what its reads saw.                  *)
LEMMA RequestKept ==
  ASSUME NEW r \in Req, TypeOK, RequestInv(r), height' \in 2 .. MaxHeight, height <= height',
         history' = history, ask'[r] = ask[r], step'[r] = step[r], todo'[r] = todo[r],
         tip'[r] = tip[r], why'[r] = why[r], began'[r] = began[r],
         fate[r] = "applied" => fate'[r] = "applied"
  PROVE  RequestInv(r)'
<1>1. MaxHeight \in Nat /\ height \in Nat /\ height' \in Nat /\ began[r] \in Nat /\ tip[r] \in Nat
  BY CommandsAssumption DEF TypeOK
<1>2. \A f : \A h \in Window(r, f) : h \in Window(r, f)'
  BY WindowGrows
<1>3. began'[r] <= height' /\ tip'[r] <= height'
  BY <1>1 DEF RequestInv
<1>4. step'[r] \in {"checking", "verified"} =>
        \A f \in Needed(ask'[r]) \ todo'[r] : \E h \in Window(r, f)' : f \in history'[h]
  BY <1>2 DEF RequestInv
<1>5. step'[r] = "denied" =>
        why'[r] \in Needed(ask'[r]) /\ \E h \in Window(r, why[r])' : why'[r] \notin history'[h]
  BY <1>2 DEF RequestInv
<1>6. QED
  BY <1>3, <1>4, <1>5 DEF RequestInv

(* A step of one request, given what it does to that request.              *)
LEMMA OneMoves ==
  ASSUME IInv, NEW r \in Req, TypeOK', B!OkMeansApplied', RequestInv(r)', UNCHANGED <<history, height>>,
         \A x \in Req : x # r =>
           /\ ask'[x] = ask[x] /\ step'[x] = step[x] /\ todo'[x] = todo[x]
           /\ tip'[x] = tip[x] /\ why'[x] = why[x] /\ began'[x] = began[x]
           /\ fate'[x] = fate[x]
  PROVE  IInv'
<1>1. TypeOK /\ height' \in 2 .. MaxHeight /\ height <= height'
  BY CommandsAssumption DEF IInv, TypeOK
<1>2. ASSUME NEW x \in Req, x # r PROVE RequestInv(x)'
  BY <1>1, <1>2, RequestKept DEF IInv
<1>3. QED
  BY <1>2 DEF IInv

-----------------------------------------------------------------------------
(* What the steps of one request share.                                    *)
LEMMA StepFacts ==
  ASSUME IInv, NEW r \in Req, Start(r) \/ Handle(r)
  PROVE  /\ UNCHANGED <<history, height>>
         /\ \A x \in Req : x # r =>
              /\ ask'[x] = ask[x] /\ step'[x] = step[x] /\ todo'[x] = todo[x]
              /\ tip'[x] = tip[x] /\ why'[x] = why[x] /\ began'[x] = began[x]
              /\ fate'[x] = fate[x]
         /\ B!TypeOK' /\ B!OkMeansApplied'
<1>1. TypeOK /\ B!TypeOK /\ B!OkMeansApplied
  BY DEF IInv, TypeOK
<1> USE DEF TypeOK, GoTo, B!TypeOK, B!OkMeansApplied, B!Fates, B!Replies
<1>2. CASE Start(r)
  BY <1>1, <1>2 DEF Start
<1>3. CASE DeviceMissing(r) \/ DeviceFound(r) \/ Verified(r) \/ KeyMissing(r)
  BY <1>1, <1>3 DEF DeviceMissing, DeviceFound, Verified, KeyMissing
<1>4. CASE Check(r)
  BY <1>1, <1>4 DEF Check, SeeHeight, FactHolds, FactFails, ReadFails
<1>5. CASE KeyFetched(r)
  BY <1>1, <1>5 DEF KeyFetched, B!Submit
<1>6. CASE CommandEnds(r)
  BY <1>1, <1>6 DEF CommandEnds, B!Confirm
<1>7. CASE CommandFails(r)
  BY <1>1, <1>7 DEF CommandFails, B!Fail
<1>8. QED
  BY <1>2, <1>3, <1>4, <1>5, <1>6, <1>7 DEF Handle

(* The steps before any fact is read.                                      *)
LEMMA FirstSteps ==
  ASSUME IInv, NEW r \in Req, Start(r) \/ DeviceMissing(r) \/ DeviceFound(r)
  PROVE  IInv'
<1>1. /\ TypeOK /\ RequestInv(r) /\ B!TypeOK' /\ B!OkMeansApplied' /\ UNCHANGED <<history, height>>
      /\ \A x \in Req : x # r =>
           /\ ask'[x] = ask[x] /\ step'[x] = step[x] /\ todo'[x] = todo[x]
           /\ tip'[x] = tip[x] /\ why'[x] = why[x] /\ began'[x] = began[x]
           /\ fate'[x] = fate[x]
  BY StepFacts DEF IInv, Handle
<1>2. MaxHeight \in Nat /\ height \in Nat /\ tip[r] \in Nat
  BY <1>1, CommandsAssumption DEF TypeOK
<1>3. CASE Start(r)
  <2>1. PICK q \in Judgements \cup Commands :
          /\ ask' = [ask EXCEPT ![r] = q]
          /\ step' = [step EXCEPT ![r] = IF q.op = "command" THEN "fetching" ELSE "finding"]
    BY <1>3 DEF Start, GoTo
  <2>2. q # NoRequest
    <3>1. q.op \in {"validate", "command"}
      BY DEF Judgements, Commands
    <3>2. NoRequest.op = "none"
      BY DEF NoRequest
    <3>3. QED
      BY <3>1, <3>2
  <2>3. TypeOK'
    BY <1>1, <1>3, <2>1 DEF Start, TypeOK, Steps
  <2>4. ask'[r] # NoRequest /\ step'[r] \in {"fetching", "finding"} /\ tip'[r] = 0 /\ began'[r] = height
    BY <1>1, <1>3, <2>1, <2>2 DEF Start, TypeOK, RequestInv
  <2>5. began'[r] <= height' /\ tip'[r] <= height'
    BY <1>1, <1>2, <2>4
  <2>6. RequestInv(r)'
    BY <2>4, <2>5, Zenon DEF RequestInv
  <2>7. QED
    BY <1>1, <2>3, <2>6, OneMoves
<1>4. CASE DeviceMissing(r)
  <2>1. TypeOK'
    BY <1>1, <1>4 DEF DeviceMissing, GoTo, TypeOK, Steps
  <2>2. /\ step'[r] = "notfound" /\ step[r] = "finding" /\ ask' = ask /\ tip' = tip /\ began' = began
        /\ height' = height
    BY <1>1, <1>4 DEF DeviceMissing, GoTo, TypeOK
  <2>3. RequestInv(r)'
    BY <1>1, <2>2 DEF RequestInv
  <2>4. QED
    BY <1>1, <2>1, <2>3, OneMoves
<1>5. CASE DeviceFound(r)
  <2>1. /\ step[r] = "finding" /\ ask' = ask /\ tip' = tip /\ began' = began /\ height' = height
        /\ \/ WellFormed(ask[r]) /\ step'[r] = "checking" /\ todo'[r] = Needed(ask[r])
           \/ step'[r] \in {"invalid", "error"}
    BY <1>1, <1>5 DEF DeviceFound, GoTo, TypeOK
  <2>2. Needed(ask[r]) \subseteq Facts
    BY DEF Needed, Facts
  <2>3. TypeOK'
    BY <1>1, <1>5, <2>2 DEF DeviceFound, GoTo, TypeOK, Steps
  <2>4. RequestInv(r)'
    BY <1>1, <2>1 DEF RequestInv
  <2>5. QED
    BY <1>1, <2>3, <2>4, OneMoves
<1>6. QED
  BY <1>3, <1>4, <1>5

(* The read of the height, and a read that confirms a fact.                *)
LEMMA ReadSteps ==
  ASSUME IInv, NEW r \in Req, SeeHeight(r) \/ \E f \in Facts : FactHolds(r, f)
  PROVE  IInv'
<1>1. /\ TypeOK /\ RequestInv(r) /\ B!TypeOK' /\ B!OkMeansApplied' /\ UNCHANGED <<history, height>>
      /\ \A x \in Req : x # r =>
           /\ ask'[x] = ask[x] /\ step'[x] = step[x] /\ todo'[x] = todo[x]
           /\ tip'[x] = tip[x] /\ why'[x] = why[x] /\ began'[x] = began[x]
           /\ fate'[x] = fate[x]
  BY StepFacts DEF IInv, Handle, Check
<1>2. /\ MaxHeight \in Nat /\ height \in 2 .. MaxHeight /\ tip[r] \in 0 .. MaxHeight
      /\ began[r] \in 2 .. MaxHeight /\ began[r] <= height
  BY <1>1, CommandsAssumption DEF TypeOK, RequestInv
<1>3. CASE SeeHeight(r)
  <2>1. /\ step[r] = "checking" /\ tip'[r] = height
        /\ UNCHANGED <<ask, step, todo, why, began, fate>>
    BY <1>1, <1>3 DEF SeeHeight, TypeOK
  <2>2. TypeOK'
    BY <1>1, <1>2, <1>3 DEF SeeHeight, TypeOK
  <2>3. \A f : Window(r, f)' = Window(r, f)
    BY <1>1, <2>1 DEF Window
  <2>4. began'[r] <= height' /\ tip'[r] <= height' /\ began'[r] <= tip'[r]
    BY <1>1, <1>2, <2>1
  <2>5. RequestInv(r)'
    BY <1>1, <2>1, <2>3, <2>4 DEF RequestInv
  <2>6. QED
    BY <1>1, <2>2, <2>5, OneMoves
<1>4. ASSUME NEW f \in Facts, FactHolds(r, f) PROVE IInv'
  <2>1. /\ step[r] = "checking" /\ f \in todo[r] /\ (f = "owner" => tip[r] # 0) /\ Holds(r, f)
        /\ todo'[r] = todo[r] \ {f}
        /\ UNCHANGED <<ask, step, tip, why, began, fate>>
    BY <1>1, <1>4 DEF FactHolds, TypeOK
  <2>2. TypeOK'
    BY <1>1, <1>4 DEF FactHolds, TypeOK
  <2>3. \A g : Window(r, g)' = Window(r, g)
    BY <1>1, <2>1 DEF Window
  <2>4. \E h \in Window(r, f) : f \in history[h]
    <3>1. CASE f = "owner"
      <4>1. began[r] <= tip[r] /\ tip[r] <= height /\ tip[r] # 0
        BY <1>1, <2>1, <3>1 DEF RequestInv
      <4>2. tip[r] - 1 \in Window(r, f)
        BY <1>2, <3>1, <4>1 DEF Window
      <4>3. f \in history[tip[r] - 1]
        BY <2>1, <3>1 DEF Holds
      <4>4. QED
        BY <4>2, <4>3
    <3>2. CASE f # "owner"
      <4>1. height \in Window(r, f)
        BY <1>2, <3>2 DEF Window
      <4>2. QED
        BY <2>1, <3>2, <4>1 DEF Holds
    <3>3. QED
      BY <3>1, <3>2
  <2>5. \A g \in Needed(ask[r]) \ todo'[r] : g = f \/ g \in Needed(ask[r]) \ todo[r]
    BY <2>1
  <2>6. RequestInv(r)'
    BY <1>1, <2>1, <2>3, <2>4, <2>5 DEF RequestInv
  <2>7. QED
    BY <1>1, <2>2, <2>6, OneMoves
<1>5. QED
  BY <1>3, <1>4

(* The ends of a validation.                                               *)
LEMMA VerdictSteps ==
  ASSUME IInv, NEW r \in Req,
         Verified(r) \/ \E f \in Facts : FactFails(r, f) \/ ReadFails(r, f)
  PROVE  IInv'
<1>1. /\ TypeOK /\ RequestInv(r) /\ B!TypeOK' /\ B!OkMeansApplied' /\ UNCHANGED <<history, height>>
      /\ \A x \in Req : x # r =>
           /\ ask'[x] = ask[x] /\ step'[x] = step[x] /\ todo'[x] = todo[x]
           /\ tip'[x] = tip[x] /\ why'[x] = why[x] /\ began'[x] = began[x]
           /\ fate'[x] = fate[x]
  BY StepFacts DEF IInv, Handle, Check
<1>2. /\ MaxHeight \in Nat /\ height \in 2 .. MaxHeight /\ tip[r] \in 0 .. MaxHeight
      /\ began[r] \in 2 .. MaxHeight /\ began[r] <= height
  BY <1>1, CommandsAssumption DEF TypeOK, RequestInv
<1>3. CASE Verified(r)
  <2>1. /\ step[r] = "checking" /\ step'[r] = "verified" /\ todo[r] = {}
        /\ UNCHANGED <<ask, todo, tip, why, began, fate>>
    BY <1>1, <1>3 DEF Verified, AllHold, GoTo, TypeOK
  <2>2. TypeOK'
    BY <1>1, <1>3 DEF Verified, GoTo, TypeOK, Steps
  <2>3. \A g : Window(r, g)' = Window(r, g)
    BY <1>1, <2>1 DEF Window
  <2>4. RequestInv(r)'
    BY <1>1, <2>1, <2>3 DEF RequestInv
  <2>5. QED
    BY <1>1, <2>2, <2>4, OneMoves
<1>4. ASSUME NEW f \in Facts, FactFails(r, f) PROVE IInv'
  <2>1. /\ step[r] = "checking" /\ f \in todo[r] /\ (f = "owner" => tip[r] # 0) /\ ~Holds(r, f)
        /\ step'[r] = "denied" /\ why'[r] = f
        /\ UNCHANGED <<ask, todo, tip, began, fate>>
    BY <1>1, <1>4 DEF FactFails, GoTo, TypeOK
  <2>2. TypeOK'
    BY <1>1, <1>4 DEF FactFails, GoTo, TypeOK, Steps
  <2>3. \A g : Window(r, g)' = Window(r, g)
    BY <1>1, <2>1 DEF Window
  <2>4. \E h \in Window(r, f) : f \notin history[h]
    <3>1. CASE f = "owner"
      <4>1. began[r] <= tip[r] /\ tip[r] <= height /\ tip[r] # 0
        BY <1>1, <2>1, <3>1 DEF RequestInv
      <4>2. tip[r] - 1 \in Window(r, f)
        BY <1>2, <3>1, <4>1 DEF Window
      <4>3. f \notin history[tip[r] - 1]
        BY <2>1, <3>1 DEF Holds
      <4>4. QED
        BY <4>2, <4>3
    <3>2. CASE f # "owner"
      <4>1. height \in Window(r, f)
        BY <1>2, <3>2 DEF Window
      <4>2. QED
        BY <2>1, <3>2, <4>1 DEF Holds
    <3>3. QED
      BY <3>1, <3>2
  <2>5. f \in Needed(ask[r]) /\ WellFormed(ask[r])
    BY <1>1, <2>1 DEF RequestInv
  <2>6. RequestInv(r)'
    BY <1>1, <2>1, <2>3, <2>4, <2>5 DEF RequestInv
  <2>7. QED
    BY <1>1, <2>2, <2>6, OneMoves
<1>5. ASSUME NEW f \in Facts, ReadFails(r, f) PROVE IInv'
  <2>1. /\ step[r] = "checking" /\ step'[r] \in {"notfound", "error"}
        /\ UNCHANGED <<ask, todo, tip, began, fate>>
    BY <1>1, <1>5 DEF ReadFails, OtherError, GoTo, TypeOK
  <2>2. TypeOK'
    BY <1>1, <1>5 DEF ReadFails, OtherError, GoTo, TypeOK, Steps
  <2>3. RequestInv(r)'
    BY <1>1, <2>1 DEF RequestInv
  <2>4. QED
    BY <1>1, <2>2, <2>3, OneMoves
<1>6. QED
  BY <1>3, <1>4, <1>5

(* The steps of a command.                                                 *)
LEMMA CommandSteps ==
  ASSUME IInv, NEW r \in Req,
         KeyMissing(r) \/ KeyFetched(r) \/ CommandEnds(r) \/ CommandFails(r)
  PROVE  IInv'
<1>1. /\ TypeOK /\ RequestInv(r) /\ B!TypeOK' /\ B!OkMeansApplied' /\ UNCHANGED <<history, height>>
      /\ \A x \in Req : x # r =>
           /\ ask'[x] = ask[x] /\ step'[x] = step[x] /\ todo'[x] = todo[x]
           /\ tip'[x] = tip[x] /\ why'[x] = why[x] /\ began'[x] = began[x]
           /\ fate'[x] = fate[x]
  BY StepFacts DEF IInv, Handle
<1>2. /\ UNCHANGED <<ask, todo, tip, why, began>>
      /\ step[r] \in {"fetching", "sending"} /\ step'[r] \in {"sending", "error", "ok"}
      /\ step'[r] = "ok" /\ Waits(ask[r]) => fate'[r] = "applied"
  BY <1>1 DEF KeyMissing, KeyFetched, CommandEnds, CommandFails, GoTo, TypeOK, B!Confirm, Steps
<1>3. step' \in [Req -> Steps]
  BY <1>1 DEF KeyMissing, KeyFetched, CommandEnds, CommandFails, GoTo, TypeOK, Steps
<1>4. TypeOK'
  BY <1>1, <1>2, <1>3 DEF TypeOK
<1>5. RequestInv(r)'
  BY <1>1, <1>2 DEF RequestInv, Waits
<1>6. QED
  BY <1>1, <1>4, <1>5, OneMoves

(* The chain, the end of the process, and nothing at all.                  *)
LEMMA OutsideSteps ==
  ASSUME IInv, (\E r \in Req : Include(r)) \/ Block \/ Crash \/ UNCHANGED vars
  PROVE  IInv'
<1>1. TypeOK /\ B!TypeOK /\ B!OkMeansApplied /\ MaxHeight \in Nat /\ height \in 2 .. MaxHeight
  BY CommandsAssumption DEF IInv, TypeOK
<1>2. CASE Block
  <2>1. /\ height' = height + 1 /\ height' \in 2 .. MaxHeight /\ height <= height'
        /\ UNCHANGED <<history, ask, step, todo, tip, why, began, fate, reply>>
    BY <1>1, <1>2 DEF Block
  <2>2. TypeOK' /\ B!OkMeansApplied'
    BY <1>1, <2>1 DEF TypeOK, B!TypeOK, B!OkMeansApplied
  <2>3. \A r \in Req : RequestInv(r)'
    BY <1>1, <2>1, RequestKept DEF IInv
  <2>4. QED
    BY <2>2, <2>3 DEF IInv
<1>3. CASE \E r \in Req : Include(r)
  <2>1. PICK r \in Req : Include(r)
    BY <1>3
  <2>2. /\ UNCHANGED <<history, height, ask, step, todo, tip, why, began, reply>>
        /\ B!Apply(r)
    BY <2>1 DEF Include, B!Apply
  <2>3. /\ B!TypeOK' /\ B!OkMeansApplied' /\ \A x \in Req : fate[x] = "applied" => fate'[x] = "applied"
    BY <1>1, <2>2 DEF B!Apply, B!TypeOK, B!OkMeansApplied, B!Fates, B!Replies
  <2>4. TypeOK' /\ height <= height'
    BY <1>1, <2>2, <2>3 DEF TypeOK
  <2>5. \A x \in Req : RequestInv(x)'
    BY <1>1, <2>2, <2>3, <2>4, RequestKept DEF IInv
  <2>6. QED
    BY <2>3, <2>4, <2>5 DEF IInv
<1>4. CASE Crash
  <2>1. /\ UNCHANGED <<history, height, ask, todo, tip, why, began, fate, reply>>
        /\ step' \in [Req -> Steps]
        /\ \A x \in Req : step'[x] = step[x] \/ (step'[x] = "lost" /\ step[x] # "idle")
    BY <1>1, <1>4 DEF Crash, TypeOK, Steps, Busy
  <2>2. TypeOK' /\ B!OkMeansApplied' /\ height <= height'
    BY <1>1, <2>1 DEF TypeOK, B!TypeOK, B!OkMeansApplied
  <2>3. ASSUME NEW x \in Req PROVE RequestInv(x)'
    <3>1. CASE step'[x] = step[x]
      BY <1>1, <2>1, <2>2, <3>1, RequestKept DEF IInv
    <3>2. CASE step'[x] = "lost" /\ step[x] # "idle"
      BY <2>1, <3>2 DEF IInv, RequestInv
    <3>3. QED
      BY <2>1, <3>1, <3>2
  <2>4. QED
    BY <2>2, <2>3 DEF IInv
<1>5. CASE UNCHANGED vars
  <2>1. UNCHANGED <<history, height, ask, step, todo, tip, why, began, fate, reply>>
    BY <1>5 DEF vars
  <2>2. TypeOK' /\ B!OkMeansApplied' /\ height <= height'
    BY <1>1, <2>1 DEF TypeOK, B!TypeOK, B!OkMeansApplied
  <2>3. \A x \in Req : RequestInv(x)'
    BY <1>1, <2>1, <2>2, RequestKept DEF IInv
  <2>4. QED
    BY <2>2, <2>3 DEF IInv
<1>6. QED
  BY <1>2, <1>3, <1>4, <1>5

-----------------------------------------------------------------------------
(* What the reads of a request have seen stays true of its time.           *)
THEOREM Invariance == Spec => []IInv
<1>1. IInv /\ [Next]_vars => IInv'
  <2> SUFFICES ASSUME IInv, [Next]_vars PROVE IInv'
    OBVIOUS
  <2>1. ASSUME NEW r \in Req, Start(r) PROVE IInv'
    BY <2>1, FirstSteps
  <2>2. ASSUME NEW r \in Req, Handle(r) PROVE IInv'
    BY <2>2, FirstSteps, ReadSteps, VerdictSteps, CommandSteps DEF Handle, Check
  <2>3. CASE (\E r \in Req : Include(r)) \/ Block \/ Crash \/ UNCHANGED vars
    BY <2>3, OutsideSteps
  <2>4. QED
    BY <2>1, <2>2, <2>3 DEF Next
<1>2. QED
  BY <1>1, InitIInv, PTL DEF Spec

(* The types of commands and validations.                                  *)
THEOREM TypeCorrect == Spec => []TypeOK
<1>1. IInv => TypeOK
  BY DEF IInv
<1>2. QED
  BY <1>1, Invariance, PTL

(* A transaction is verified only on facts that held while it was judged:  *)
(* facts about the key of the path, whatever key it names itself.          *)
THEOREM VerifiedMeansHeldAlways == Spec => []VerifiedMeansHeld
<1>1. IInv => VerifiedMeansHeld
  BY DEF IInv, RequestInv, VerifiedMeansHeld
<1>2. QED
  BY <1>1, Invariance, PTL

(* A transaction is denied only for a fact that failed while it was judged.*)
THEOREM DeniedMeansFailedAlways == Spec => []DeniedMeansFailed
<1>1. IInv => DeniedMeansFailed
  BY DEF IInv, RequestInv, DeniedMeansFailed
<1>2. QED
  BY <1>1, Invariance, PTL

(* An answered command is in a block unless the caller asked not to wait.  *)
THEOREM WaitedMeansAppliedAlways == Spec => []WaitedMeansApplied
<1>1. IInv => WaitedMeansApplied
  BY DEF IInv, RequestInv, Waits, WaitedMeansApplied
<1>2. QED
  BY <1>1, Invariance, PTL

-----------------------------------------------------------------------------
(* Submitting some transactions, or none, is a step of Broadcast.          *)
LEMMA SubmitIsNext ==
  ASSUME B!TypeOK, NEW T, T \subseteq Req, B!Submit(T)
  PROVE  [B!Next]_(B!vars)
<1>1. CASE T = {}
  BY <1>1 DEF B!Submit, B!TypeOK, B!vars
<1>2. CASE T # {}
  BY <1>2 DEF B!Next
<1>3. QED
  BY <1>1, <1>2

(* Every transaction goes through broadcast: what Broadcast_proofs says of *)
(* it - an id is that of a transaction in a block, an answer and a fate    *)
(* are final - is so for all transactions of this module.                  *)
THEOREM SendsByBroadcast == Spec => B!Spec
<1>1. ASSUME IInv, [Next]_vars PROVE [B!Next]_(B!vars)
  <2>1. TypeOK /\ B!TypeOK
    BY <1>1 DEF IInv, TypeOK
  <2>2. ASSUME NEW r \in Req, KeyFetched(r) PROVE [B!Next]_(B!vars)
    BY <2>1, <2>2, SubmitIsNext DEF KeyFetched
  <2>3. ASSUME NEW r \in Req, CommandEnds(r) \/ CommandFails(r) \/ Include(r)
        PROVE  [B!Next]_(B!vars)
    BY <2>3 DEF CommandEnds, CommandFails, Include, B!Next, B!Progress, B!vars
  <2>4. QED
    BY <1>1, <2>2, <2>3
       DEF Next, Handle, Check, Start, DeviceMissing, DeviceFound, SeeHeight, FactHolds, FactFails,
           ReadFails, Verified, KeyMissing, Block, Crash, vars, B!vars
<1>2. Init => B!Init
  BY DEF Init
<1>3. QED
  BY <1>1, <1>2, Invariance, PTL DEF Spec, B!Spec
=============================================================================

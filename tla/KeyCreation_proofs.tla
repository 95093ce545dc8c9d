------------------------- MODULE KeyCreation_proofs --------------------------
(***************************************************************************)
(* KeyCreation, for any calls, jobs, keys and limit.                       *)
(***************************************************************************)
EXTENDS KeyCreation, FiniteSetTheorems, TLAPS

-----------------------------------------------------------------------------
(* Transactions of different kinds, keys or jobs are different.            *)
LEMMA TxFacts ==
  /\ \A k \in Key : Issue(k) \in Tx /\ Transfer(k) \in Tx
  /\ \A j \in Job : Listing(j) \in Tx
  /\ \A k, l : Issue(k) # Transfer(l) /\ Issue(k) # Listing(l) /\ Transfer(k) # Listing(l)
  /\ \A k, l : /\ Issue(k) = Issue(l) => k = l
               /\ Transfer(k) = Transfer(l) => k = l
               /\ Listing(k) = Listing(l) => k = l
  BY DEF Tx, Issue, Transfer, Listing

(* Submitting changes no reply, and fates of the submitted ones only.      *)
LEMMA SubmitFacts ==
  ASSUME B!TypeOK, NEW T \in SUBSET Tx, B!Submit(T)
  PROVE  /\ B!TypeOK' /\ reply' = reply
         /\ \A t \in Tx : /\ t \notin T => fate'[t] = fate[t]
                          /\ fate[t] = "applied" => fate'[t] = "applied"
  BY DEF B!TypeOK, B!Submit, B!Fates, B!Replies

(* The world outside settles one transaction, and takes nothing back.      *)
LEMMA ProgressFacts ==
  ASSUME B!TypeOK, NEW u \in Tx, B!Progress(u)
  PROVE  /\ B!TypeOK'
         /\ \A t \in Tx : /\ fate[t] = "none" => fate'[t] = "none"
                          /\ fate[t] = "applied" => fate'[t] = "applied"
                          /\ reply[t] # "none" => reply'[t] = reply[t]
                          /\ reply'[t] = "ok" => reply[t] = "ok" \/ fate[t] = "applied"
<1> USE DEF B!TypeOK, B!Fates, B!Replies
<1>1. CASE B!Apply(u)
  BY <1>1 DEF B!Apply
<1>2. CASE B!Drop(u)
  BY <1>2 DEF B!Drop
<1>3. CASE B!Confirm(u)
  BY <1>3 DEF B!Confirm
<1>4. CASE B!Fail(u)
  BY <1>4 DEF B!Fail
<1>5. QED
  BY <1>1, <1>2, <1>3, <1>4 DEF B!Progress

-----------------------------------------------------------------------------
(* What a request records is of the right type and leaves the jobs of      *)
(* other calls alone.                                                      *)
LEMMA RecordFacts ==
  ASSUME TypeOK, NEW c \in Call, NEW d \in Requests(c), RecordDto(d)
  PROVE  /\ dto' \in [Job -> Dto]
         /\ \A j \in Job : dto'[j].keys \subseteq KeysOf(j)
         /\ \A j \in Job : CallOf[j] # c => dto'[j] = dto[j]
         /\ \A j \in JobsOf(c) : dto'[j] = d[j] /\ d[j] \in Dto
         /\ DOMAIN d = JobsOf(c)
  BY DEF TypeOK, Requests, RecordDto, JobsOf

(* The inputs an accepted request was given, and what it starts.           *)
LEMMA AcceptFacts ==
  ASSUME TypeOK, NEW c \in Call, Accept(c)
  PROVE  \E d \in Requests(c), late \in SUBSET JobsOf(c), started \in SUBSET Key :
           /\ started = UNION {d[j].keys : j \in JobsOf(c) \ late}
           /\ \A j \in late : c \in Multi /\ d[j].validTo = "edge"
           /\ RecordDto(d)
           /\ job' = [j \in Job |-> IF j \in late THEN "rejected"
                                    ELSE IF CallOf[j] = c THEN "creating" ELSE job[j]]
           /\ key' = [k \in Key |-> IF k \in started THEN "issuing" ELSE key[k]]
           /\ {Issue(k) : k \in started} \in SUBSET Tx
           /\ B!Submit({Issue(k) : k \in started})
<1>1. PICK d \in Requests(c) :
        \E late \in SUBSET MayBeLate(c, d) :
           LET started == UNION {d[j].keys : j \in JobsOf(c) \ late} IN
           /\ Valid(d)
           /\ RecordDto(d)
           /\ job' = [j \in Job |-> IF j \in late THEN "rejected"
                                    ELSE IF CallOf[j] = c THEN "creating" ELSE job[j]]
           /\ key' = [k \in Key |-> IF k \in started THEN "issuing" ELSE key[k]]
           /\ B!Submit({Issue(k) : k \in started})
  BY DEF Accept
<1>2. PICK late \in SUBSET MayBeLate(c, d) :
           LET started == UNION {d[j].keys : j \in JobsOf(c) \ late} IN
           /\ RecordDto(d)
           /\ job' = [j \in Job |-> IF j \in late THEN "rejected"
                                    ELSE IF CallOf[j] = c THEN "creating" ELSE job[j]]
           /\ key' = [k \in Key |-> IF k \in started THEN "issuing" ELSE key[k]]
           /\ B!Submit({Issue(k) : k \in started})
  BY <1>1
<1> DEFINE started == UNION {d[j].keys : j \in JobsOf(c) \ late}
<1>3. started \in SUBSET Key
  BY DEF Requests, KeysOf
<1>4. {Issue(k) : k \in started} \in SUBSET Tx
  BY <1>3, TxFacts
<1>5. late \subseteq JobsOf(c) /\ \A j \in late : c \in Multi /\ d[j].validTo = "edge"
  BY <1>1 DEF MayBeLate, Valid, Requests, Dto, Validity
<1>6. QED
  BY <1>2, <1>3, <1>4, <1>5

(* Every variable starts within its type.                                  *)
LEMMA InitTypeOK == Init => TypeOK
  BY DEF Init, TypeOK, NoDto, Dto, Recipients, Validity, Answers, Returned,
         B!Init, B!TypeOK, B!Fates, B!Replies

(* Every step keeps every variable within its type.                        *)
LEMMA StepTypeOK == TypeOK /\ [Next]_vars => TypeOK'
<1> SUFFICES ASSUME TypeOK, [Next]_vars PROVE TypeOK'
  OBVIOUS
<1> USE DEF TypeOK, Answers, Returned
<1>1. ASSUME NEW c \in Call, Refuse(c) PROVE TypeOK'
  BY <1>1, RecordFacts DEF Refuse, B!TypeOK
<1>2. ASSUME NEW c \in Call, RefuseEmpty(c) PROVE TypeOK'
  BY <1>2 DEF RefuseEmpty, B!TypeOK
<1>3. ASSUME NEW c \in Call, Accept(c) PROVE TypeOK'
  <2>1. dto' \in [Job -> Dto] /\ \A j \in Job : dto'[j].keys \subseteq KeysOf(j)
    BY <1>3, AcceptFacts, RecordFacts
  <2>2. B!TypeOK'
    <3>1. PICK T \in SUBSET Tx : B!Submit(T)
      BY <1>3, AcceptFacts
    <3>2. QED
      BY <3>1, SubmitFacts
  <2>3. /\ job' \in [Job -> {"idle", "creating", "listing", "done", "rejected", "lost"}]
        /\ key' \in [Key -> {"idle", "issuing", "moving"} \cup Returned]
    <3>1. PICK d \in Requests(c), late \in SUBSET JobsOf(c), started \in SUBSET Key :
           /\ started = UNION {d[j].keys : j \in JobsOf(c) \ late}
           /\ \A j \in late : c \in Multi /\ d[j].validTo = "edge"
           /\ RecordDto(d)
           /\ job' = [j \in Job |-> IF j \in late THEN "rejected"
                                    ELSE IF CallOf[j] = c THEN "creating" ELSE job[j]]
           /\ key' = [k \in Key |-> IF k \in started THEN "issuing" ELSE key[k]]
           /\ {Issue(k) : k \in started} \in SUBSET Tx
           /\ B!Submit({Issue(k) : k \in started})
      BY <1>3, AcceptFacts
    <3>2. QED
      BY <3>1
  <2>4. QED
    BY <1>3, <2>1, <2>2, <2>3 DEF Accept
<1>4. ASSUME NEW k \in Key, KeyStep(k) PROVE TypeOK'
  <2>1. CASE IssueFails(k)
    BY <2>1 DEF IssueFails, Return, KeyOnly, B!TypeOK
  <2>2. CASE KeyStays(k)
    BY <2>2 DEF KeyStays, Return, KeyOnly, B!TypeOK
  <2>3. CASE KeyMoves(k)
    BY <2>3, TxFacts, SubmitFacts DEF KeyMoves, KeyOnly
  <2>4. CASE MoveEnds(k)
    BY <2>4 DEF MoveEnds, AfterMove, Return, KeyOnly, B!TypeOK
  <2>5. CASE Notify(k)
    BY <2>5 DEF Notify, B!TypeOK
  <2>6. QED
    BY <1>4, <2>1, <2>2, <2>3, <2>4, <2>5 DEF KeyStep
<1>5. ASSUME NEW j \in Job, JobStep(j) PROVE TypeOK'
  <2>1. CASE StartListing(j)
    BY <2>1, TxFacts, SubmitFacts DEF StartListing, WithAssetId, KeysOf
  <2>2. CASE Finish(j)
    BY <2>2 DEF Finish, ResultOf, B!TypeOK
  <2>3. QED
    BY <1>5, <2>1, <2>2 DEF JobStep
<1>6. ASSUME NEW c \in Call, CallStep(c) PROVE TypeOK'
  BY <1>6 DEF CallStep, Respond, RespondLate, B!TypeOK
<1>7. CASE Crash
  BY <1>7 DEF Crash, B!TypeOK
<1>8. CASE Chain
  BY <1>8, ProgressFacts DEF Chain, server
<1>9. CASE UNCHANGED vars
  BY <1>9 DEF vars, B!TypeOK
<1>10. QED
  BY <1>1, <1>2, <1>3, <1>4, <1>5, <1>6, <1>7, <1>8, <1>9 DEF Next

(* Every variable keeps its type.                                          *)
THEOREM TypeCorrect == Spec => []TypeOK
  BY InitTypeOK, StepTypeOK, PTL DEF Spec

-----------------------------------------------------------------------------
(* The inductive invariant.                                                *)

(* Nothing is asked, submitted or answered at the start.                   *)
LEMMA InitIInv == Init => IInv
<1> SUFFICES ASSUME Init PROVE IInv
  OBVIOUS
<1>1. TypeOK
  BY InitTypeOK
<1>2. B!OkMeansApplied
  BY DEF Init, B!Init, B!OkMeansApplied
<1>3. KeyInv
  BY TxFacts DEF Init, B!Init, KeyInv
<1>4. JobInv /\ DoneInv
  BY DEF Init, JobInv, JobInvOf, DoneInv
<1>5. ReportInv
  BY DEF Init, ReportInv
<1>6. AnswerInv
  BY DEF Init, AnswerInv, AnswerInvOf
<1>7. QED
  BY <1>1, <1>2, <1>3, <1>4, <1>5, <1>6 DEF IInv

(* A request refused as invalid changes no transaction.                    *)
LEMMA RefuseIInv == ASSUME IInv, NEW c \in Call, Refuse(c) PROVE IInv'
<1>1. PICK d \in Requests(c) : RecordDto(d)
  BY DEF Refuse
<1>2. TypeOK' /\ TypeOK
  BY StepTypeOK DEF IInv, Next
<1>3. /\ \A j \in Job : CallOf[j] # c => dto'[j] = dto[j]
      /\ \A x \in Call : answer'[x] = IF x = c THEN "invalid" ELSE answer[x]
      /\ answer[c] = "idle"
      /\ job' = job /\ key' = key /\ listed' = listed /\ result' = result
      /\ notice' = notice /\ fate' = fate /\ reply' = reply
  BY <1>1, <1>2, RecordFacts DEF Refuse, TypeOK
<1> USE ShapeAssumption
<1>4. B!OkMeansApplied'
  BY <1>3 DEF IInv, B!OkMeansApplied
<1>5. KeyInv'
  BY <1>2, <1>3 DEF IInv, KeyInv, CallOfKey, Asked
<1>6. JobInv'
  BY <1>2, <1>3 DEF IInv, JobInv, JobInvOf
<1>7. DoneInv'
  BY <1>2, <1>3 DEF IInv, DoneInv, JobInv, JobInvOf
<1>8. ReportInv'
  BY <1>2, <1>3 DEF IInv, ReportInv
<1>9. AnswerInv'
  BY <1>2, <1>3 DEF IInv, AnswerInv, AnswerInvOf, KeyInv, CallOfKey, JobsOf, AnyCreatedKeys
<1>10. QED
  BY <1>2, <1>4, <1>5, <1>6, <1>7, <1>8, <1>9 DEF IInv

(* Nor does a request without jobs.                                        *)
LEMMA RefuseEmptyIInv == ASSUME IInv, NEW c \in Call, RefuseEmpty(c) PROVE IInv'
<1>1. TypeOK' /\ TypeOK
  BY StepTypeOK DEF IInv, Next
<1>2. /\ \A x \in Call : answer'[x] = IF x = c THEN "error" ELSE answer[x]
      /\ answer[c] = "idle"
      /\ dto' = dto /\ job' = job /\ key' = key /\ listed' = listed /\ result' = result
      /\ notice' = notice /\ fate' = fate /\ reply' = reply
  BY <1>1 DEF RefuseEmpty, TypeOK
<1> USE ShapeAssumption
<1>3. B!OkMeansApplied'
  BY <1>2 DEF IInv, B!OkMeansApplied
<1>4. KeyInv'
  BY <1>1, <1>2 DEF IInv, KeyInv, CallOfKey, Asked
<1>5. JobInv' /\ DoneInv'
  BY <1>1, <1>2 DEF IInv, JobInv, JobInvOf, DoneInv
<1>6. ReportInv'
  BY <1>1, <1>2 DEF IInv, ReportInv
<1>7. AnswerInv'
  BY <1>1, <1>2 DEF IInv, AnswerInv, AnswerInvOf, KeyInv, CallOfKey, JobsOf, AnyCreatedKeys
<1>8. QED
  BY <1>1, <1>3, <1>4, <1>5, <1>6, <1>7 DEF IInv

(* An accepted request starts keys that nobody has worked on.              *)
LEMMA AcceptIInv == ASSUME IInv, NEW c \in Call, Accept(c) PROVE IInv'
<1>1. TypeOK' /\ TypeOK
  BY StepTypeOK DEF IInv, Next
<1>2. PICK d \in Requests(c), late \in SUBSET JobsOf(c), started \in SUBSET Key :
           /\ started = UNION {d[j].keys : j \in JobsOf(c) \ late}
           /\ \A j \in late : c \in Multi /\ d[j].validTo = "edge"
           /\ RecordDto(d)
           /\ job' = [j \in Job |-> IF j \in late THEN "rejected"
                                    ELSE IF CallOf[j] = c THEN "creating" ELSE job[j]]
           /\ key' = [k \in Key |-> IF k \in started THEN "issuing" ELSE key[k]]
           /\ {Issue(k) : k \in started} \in SUBSET Tx
           /\ B!Submit({Issue(k) : k \in started})
  BY <1>1, AcceptFacts
<1>3. /\ \A j \in Job : CallOf[j] # c => dto'[j] = dto[j]
      /\ \A j \in JobsOf(c) : dto'[j] = d[j]
  BY <1>1, <1>2, RecordFacts
<1>4. \A k \in started : CallOfKey(k) = c /\ k \in dto'[JobOf[k]].keys
  BY <1>2, <1>3 DEF Requests, KeysOf, JobsOf, CallOfKey
<1>5. /\ \A x \in Call : answer'[x] = IF x = c THEN "pending" ELSE answer[x]
      /\ answer[c] = "idle"
      /\ listed' = listed /\ result' = result /\ notice' = notice
  BY <1>1 DEF Accept, TypeOK
<1>6. /\ reply' = reply
      /\ \A t \in Tx : /\ t \notin {Issue(k) : k \in started} => fate'[t] = fate[t]
                       /\ fate[t] = "applied" => fate'[t] = "applied"
  BY <1>1, <1>2, SubmitFacts DEF TypeOK
<1>7. \A k \in Key : k \notin started => fate'[Issue(k)] = fate[Issue(k)]
  BY <1>6, TxFacts
<1> USE ShapeAssumption
<1>8. B!OkMeansApplied'
  BY <1>6 DEF IInv, B!OkMeansApplied
<1>9. KeyInv'
  BY <1>1, <1>2, <1>3, <1>4, <1>5, <1>6, <1>7 DEF IInv, KeyInv, CallOfKey, Asked
<1>10. JobInv' /\ DoneInv'
  <2>1. \A j \in Job : CallOf[j] = c => job[j] = "idle"
    BY <1>5 DEF IInv, JobInv, JobInvOf
  <2>2. \A j \in Job : \A k \in listed[j] : key[k] \in {"created", "stranded"} /\ k \notin started
    BY <1>4, <1>5 DEF IInv, JobInv, JobInvOf, KeyInv, TypeOK
  <2>3. JobInv'
    BY <1>1, <1>2, <1>3, <1>4, <1>5, <1>6, <2>1, <2>2
       DEF IInv, JobInv, JobInvOf, TypeOK, JobsOf, CallOfKey, KeysOf
  <2>4. DoneInv'
    BY <1>2, <1>3, <1>5, <2>1 DEF IInv, DoneInv, JobsOf
  <2>5. QED
    BY <2>3, <2>4
<1>11. ReportInv'
  <2>1. \A k \in started : key[k] = "idle"
    BY <1>4, <1>5 DEF IInv, KeyInv
  <2>2. QED
    BY <1>2, <1>5, <1>6, <2>1 DEF IInv, ReportInv, TypeOK, Returned
<1>12. AnswerInv'
  BY <1>1, <1>2, <1>3, <1>4, <1>5, <1>6, <1>7
     DEF IInv, AnswerInv, AnswerInvOf, CallOfKey, JobsOf, AnyCreatedKeys
<1>13. QED
  BY <1>1, <1>8, <1>9, <1>10, <1>11, <1>12 DEF IInv

(* A createKey that moves on, whatever its next step, keeps the invariant  *)
(* when the step is backed by the replies it has.                          *)
LEMMA KeyMovesOn ==
  ASSUME IInv, TypeOK', B!OkMeansApplied', NEW k \in Key,
         key[k] \in {"issuing", "moving"}, job[JobOf[k]] = "creating", KeyOnly,
         key' = [key EXCEPT ![k] = key'[k]], key'[k] # "idle",
         key'[k] \in {"moving", "created", "stranded"} => reply[Issue(k)] = "ok",
         key'[k] = "missing" => reply[Issue(k)] = "err",
         key'[k] = "created" /\ dto[JobOf[k]].recipient = "user" => reply[Transfer(k)] = "ok",
         reply' = reply,
         \A l \in Key : fate'[Issue(l)] = fate[Issue(l)]
  PROVE  IInv'
<1> USE ShapeAssumption
<1>1. TypeOK
  BY DEF IInv
<1>2. \A l \in Key : l # k => key'[l] = key[l]
  BY <1>1 DEF TypeOK
<1>3. KeyInv'
  BY <1>1, <1>2 DEF IInv, KeyInv, KeyOnly, CallOfKey, Asked
<1>4. JobInv' /\ DoneInv'
  <2>1. \A j \in Job : k \in dto[j].keys => job[j] = "creating"
    BY <1>1 DEF TypeOK, KeysOf
  <2>2. \A j \in Job : k \notin listed[j]
    BY DEF IInv, JobInv, JobInvOf
  <2>3. JobInv'
    <3> SUFFICES ASSUME NEW i \in Job PROVE JobInvOf(i)'
      BY DEF JobInv
    <3>1. CASE job[i] \in {"listing", "done"}
      BY <1>1, <1>2, <2>1, <2>2, <3>1 DEF IInv, JobInv, JobInvOf, KeyOnly, TypeOK, KeysOf
    <3>2. CASE job[i] \notin {"listing", "done"}
      BY <1>1, <1>2, <2>2, <3>2 DEF IInv, JobInv, JobInvOf, KeyOnly, TypeOK
    <3>3. QED
      BY <3>1, <3>2
  <2>4. DoneInv'
    BY DEF IInv, DoneInv, KeyOnly
  <2>5. QED
    BY <2>3, <2>4
<1>5. ReportInv'
  BY <1>1, <1>2 DEF IInv, ReportInv, JobInv, JobInvOf, KeyOnly, Returned
<1>6. AnswerInv'
  <2>1. ASSUME NEW c \in Call, CallOfKey(k) = c PROVE key[k] # "idle"
    OBVIOUS
  <2>2. QED
    BY <1>1, <1>2 DEF IInv, AnswerInv, AnswerInvOf, KeyOnly, CallOfKey, JobsOf, AnyCreatedKeys
<1>7. QED
  BY <1>3, <1>4, <1>5, <1>6 DEF IInv

(* Every step of createKey is backed by the reply it has waited for.       *)
LEMMA KeyStepIInv == ASSUME IInv, NEW k \in Key, KeyStep(k) PROVE IInv'
<1>1. TypeOK' /\ TypeOK
  BY StepTypeOK DEF IInv, Next
<1>2. CASE IssueFails(k)
  <2>1. B!OkMeansApplied'
    BY <1>2 DEF IssueFails, IInv, B!OkMeansApplied
  <2>2. QED
    BY <1>1, <1>2, <2>1, KeyMovesOn DEF IssueFails, At, Return, TypeOK
<1>3. CASE KeyStays(k)
  <2>1. B!OkMeansApplied'
    BY <1>3 DEF KeyStays, IInv, B!OkMeansApplied
  <2>2. QED
    BY <1>1, <1>3, <2>1, KeyMovesOn DEF KeyStays, At, Return, TypeOK
<1>4. CASE KeyMoves(k)
  <2>1. {Transfer(k)} \in SUBSET Tx /\ B!Submit({Transfer(k)})
    BY <1>4, TxFacts DEF KeyMoves
  <2>2. /\ reply' = reply
        /\ \A t \in Tx : /\ t # Transfer(k) => fate'[t] = fate[t]
                         /\ fate[t] = "applied" => fate'[t] = "applied"
    BY <1>1, <2>1, SubmitFacts DEF TypeOK
  <2>3. B!OkMeansApplied'
    BY <2>2 DEF IInv, B!OkMeansApplied
  <2>4. \A l \in Key : fate'[Issue(l)] = fate[Issue(l)]
    BY <2>2, TxFacts
  <2>5. QED
    BY <1>1, <1>4, <2>2, <2>3, <2>4, KeyMovesOn DEF KeyMoves, At, TypeOK
<1>5. CASE MoveEnds(k)
  <2>1. B!OkMeansApplied'
    BY <1>5 DEF MoveEnds, IInv, B!OkMeansApplied
  <2>2. reply[Issue(k)] = "ok"
    BY <1>5 DEF MoveEnds, At, IInv, KeyInv
  <2>3. QED
    BY <1>1, <1>5, <2>1, <2>2, KeyMovesOn DEF MoveEnds, AfterMove, At, Return, TypeOK
<1>6. CASE Notify(k)
  <2>1. B!OkMeansApplied'
    BY <1>6 DEF Notify, IInv, B!OkMeansApplied
  <2>2. KeyInv' /\ JobInv' /\ DoneInv'
    BY <1>6 DEF Notify, IInv, KeyInv, JobInv, JobInvOf, DoneInv, CallOfKey, Asked
  <2>3. ReportInv'
    BY <1>1, <1>6 DEF Notify, IInv, ReportInv, TypeOK
  <2>4. AnswerInv'
    BY <1>6 DEF Notify, IInv, AnswerInv, AnswerInvOf, CallOfKey, JobsOf, AnyCreatedKeys
  <2>5. QED
    BY <1>1, <2>1, <2>2, <2>3, <2>4 DEF IInv
<1>7. QED
  BY <1>2, <1>3, <1>4, <1>5, <1>6 DEF KeyStep

(* create() lists keys that have all returned.                             *)
LEMMA StartListingIInv == ASSUME IInv, NEW j \in Job, StartListing(j) PROVE IInv'
<1> USE ShapeAssumption
<1>1. TypeOK' /\ TypeOK
  BY StepTypeOK DEF IInv, Next, JobStep
<1>2. {Listing(j)} \in SUBSET Tx /\ B!Submit({Listing(j)})
  BY TxFacts DEF StartListing
<1>3. /\ reply' = reply
      /\ \A t \in Tx : /\ t # Listing(j) => fate'[t] = fate[t]
                       /\ fate[t] = "applied" => fate'[t] = "applied"
  BY <1>1, <1>2, SubmitFacts DEF TypeOK
<1>4. \A l \in Key : fate'[Issue(l)] = fate[Issue(l)]
  BY <1>3, TxFacts
<1>5. /\ \A i \in Job : job'[i] = IF i = j THEN "listing" ELSE job[i]
      /\ \A i \in Job : i # j => listed'[i] = listed[i]
      /\ \A k : k \in listed'[j] <=> k \in dto[j].keys /\ key[k] # "missing"
      /\ dto' = dto /\ answer' = answer /\ key' = key /\ result' = result /\ notice' = notice
  BY <1>1 DEF StartListing, WithAssetId, TypeOK
<1>6. B!OkMeansApplied'
  BY <1>3 DEF IInv, B!OkMeansApplied
<1>7. KeyInv'
  BY <1>3, <1>4, <1>5 DEF IInv, KeyInv, CallOfKey, Asked
<1>8. JobInv' /\ DoneInv'
  <2>1. \A k \in dto[j].keys : JobOf[k] = j /\ key[k] \in Returned
    BY <1>1 DEF StartListing, AllReturned, TypeOK, KeysOf
  <2>2. JobInv'
    <3> SUFFICES ASSUME NEW i \in Job PROVE JobInv!(i)'
      BY DEF JobInv, JobInvOf
    <3>1. CASE i # j
      BY <1>3, <1>5, <3>1 DEF IInv, JobInv, JobInvOf
    <3>2. CASE i = j
      BY <1>3, <1>5, <2>1, <3>2 DEF StartListing, IInv, JobInv, JobInvOf, Returned
    <3>3. QED
      BY <3>1, <3>2
  <2>3. DoneInv'
    BY <1>5 DEF IInv, DoneInv
  <2>4. QED
    BY <2>2, <2>3
<1>9. ReportInv'
  <2>1. \A k \in Key : JobOf[k] = j /\ k \in listed[j] /\ key[k] \in Returned => k \in listed'[j]
    BY <1>1, <1>5 DEF IInv, JobInv, JobInvOf, KeyInv, Asked, TypeOK, Returned
  <2>2. QED
    BY <1>1, <1>3, <1>5, <2>1 DEF IInv, ReportInv, JobInv, JobInvOf, TypeOK, Returned
<1>10. AnswerInv'
  BY <1>3, <1>4, <1>5 DEF StartListing, IInv, AnswerInv, AnswerInvOf, CallOfKey, JobsOf, AnyCreatedKeys
<1>11. QED
  BY <1>1, <1>6, <1>7, <1>8, <1>9, <1>10 DEF IInv

(* create() reports on keys that have all returned, after the listing.     *)
LEMMA FinishIInv == ASSUME IInv, NEW j \in Job, Finish(j) PROVE IInv'
<1> USE ShapeAssumption
<1>1. TypeOK' /\ TypeOK
  BY StepTypeOK DEF IInv, Next, JobStep
<1>2. /\ \A i \in Job : job'[i] = IF i = j THEN "done" ELSE job[i]
      /\ \A k \in Key : notice'[k] = IF k \in listed[j] THEN "posted" ELSE notice[k]
      /\ \A k \in Key : result'[k] = IF k \in dto[j].keys THEN ResultOf(k, j) ELSE result[k]
      /\ dto' = dto /\ answer' = answer /\ key' = key /\ listed' = listed
      /\ fate' = fate /\ reply' = reply
      /\ job[j] = "listing" /\ reply[Listing(j)] # "none"
  BY <1>1 DEF Finish, TypeOK
<1>3. /\ \A k \in dto[j].keys : JobOf[k] = j /\ key[k] \in Returned
      /\ listed[j] = {k \in dto[j].keys : key[k] # "missing"}
  BY <1>1, <1>2 DEF IInv, JobInv, JobInvOf, TypeOK, KeysOf
<1>4. B!OkMeansApplied'
  BY <1>2 DEF IInv, B!OkMeansApplied
<1>5. KeyInv'
  BY <1>2 DEF IInv, KeyInv, CallOfKey, Asked
<1>6. JobInv'
  BY <1>2 DEF IInv, JobInv, JobInvOf
<1>7. DoneInv'
  BY <1>1, <1>2 DEF IInv, DoneInv, ResultOf, TypeOK, KeysOf
<1>8. ReportInv'
  BY <1>1, <1>2, <1>3 DEF IInv, ReportInv, ResultOf, Returned
<1>9. AnswerInv'
  <2>1. \A c \in Call : answer[c] \in {"created", "nothing"} => j \notin JobsOf(c)
    BY <1>2 DEF IInv, AnswerInv, AnswerInvOf
  <2>2. \A c \in Call : answer[c] \in {"created", "nothing"} =>
          \A i \in JobsOf(c) : \A k \in dto[i].keys : result'[k] = result[k]
    BY <1>1, <1>2, <1>3, <2>1 DEF TypeOK, KeysOf, JobsOf
  <2>3. QED
    BY <1>2, <2>1, <2>2 DEF IInv, AnswerInv, AnswerInvOf, CallOfKey, JobsOf, AnyCreatedKeys
<1>10. QED
  BY <1>1, <1>4, <1>5, <1>6, <1>7, <1>8, <1>9 DEF IInv

(* An answer is given once the jobs are done, or one has rejected.         *)
LEMMA CallStepIInv == ASSUME IInv, NEW c \in Call, CallStep(c) PROVE IInv'
<1> USE ShapeAssumption
<1>1. TypeOK' /\ TypeOK
  BY StepTypeOK DEF IInv, Next
<1>2. /\ \A x \in Call : x # c => answer'[x] = answer[x]
      /\ answer[c] = "pending" /\ answer'[c] # "idle"
      /\ dto' = dto /\ job' = job /\ key' = key /\ listed' = listed /\ result' = result
      /\ notice' = notice /\ fate' = fate /\ reply' = reply
  BY <1>1 DEF CallStep, Respond, RespondLate, TypeOK
<1>3. B!OkMeansApplied'
  BY <1>2 DEF IInv, B!OkMeansApplied
<1>4. KeyInv'
  BY <1>2 DEF IInv, KeyInv, CallOfKey, Asked
<1>5. JobInv' /\ DoneInv'
  BY <1>2 DEF IInv, JobInv, JobInvOf, DoneInv
<1>6. ReportInv'
  BY <1>2 DEF IInv, ReportInv
<1>7. AnswerInv'
  <2> SUFFICES ASSUME NEW x \in Call PROVE AnswerInvOf(x)'
    BY DEF AnswerInv
  <2>1. CASE x # c
    BY <1>2, <2>1 DEF IInv, AnswerInv, AnswerInvOf, CallOfKey, JobsOf, AnyCreatedKeys
  <2>2. CASE x = c /\ Respond(c)
    BY <1>1, <1>2, <2>2
       DEF IInv, AnswerInvOf, DoneInv, Respond, JobsOf, AnyCreatedKeys, TypeOK
  <2>3. CASE x = c /\ RespondLate(c)
    BY <1>1, <1>2, <2>3 DEF AnswerInvOf, RespondLate, JobsOf, TypeOK
  <2>4. QED
    BY <2>1, <2>2, <2>3 DEF CallStep
<1>8. QED
  BY <1>1, <1>3, <1>4, <1>5, <1>6, <1>7 DEF IInv

(* A crash takes nothing back that was submitted, reported or answered.    *)
LEMMA CrashIInv == ASSUME IInv, Crash PROVE IInv'
<1> USE ShapeAssumption
<1>1. TypeOK' /\ TypeOK
  BY StepTypeOK DEF IInv, Next
<1>2. /\ \A x \in Call : answer'[x] = IF answer[x] = "pending" THEN "lost" ELSE answer[x]
      /\ \A j \in Job : job'[j] = IF job[j] \in {"creating", "listing"} THEN "lost" ELSE job[j]
      /\ dto' = dto /\ key' = key /\ listed' = listed /\ result' = result
      /\ notice' = notice /\ fate' = fate /\ reply' = reply
  BY <1>1 DEF Crash, TypeOK
<1>3. B!OkMeansApplied'
  BY <1>2 DEF IInv, B!OkMeansApplied
<1>4. KeyInv'
  BY <1>2 DEF IInv, KeyInv, CallOfKey, Asked
<1>5. JobInv' /\ DoneInv'
  BY <1>2 DEF IInv, JobInv, JobInvOf, DoneInv
<1>6. ReportInv'
  BY <1>2 DEF IInv, ReportInv
<1>7. AnswerInv'
  <2> SUFFICES ASSUME NEW x \in Call PROVE AnswerInvOf(x)'
    BY DEF AnswerInv
  <2>1. AnswerInvOf(x)
    BY DEF IInv, AnswerInv, AnswerInvOf
  <2>2. QED
    BY <1>2, <2>1 DEF AnswerInvOf, CallOfKey, JobsOf, AnyCreatedKeys
<1>8. QED
  BY <1>1, <1>3, <1>4, <1>5, <1>6, <1>7 DEF IInv

(* Nor does the chain.                                                     *)
LEMMA ChainIInv == ASSUME IInv, Chain PROVE IInv'
<1>1. TypeOK' /\ TypeOK
  BY StepTypeOK DEF IInv, Next
<1>2. PICK u \in Tx : B!Progress(u)
  BY DEF Chain
<1>3. /\ dto' = dto /\ answer' = answer /\ job' = job /\ key' = key
      /\ listed' = listed /\ result' = result /\ notice' = notice
  BY DEF Chain, server
<1>4. \A t \in Tx : /\ fate[t] = "none" => fate'[t] = "none"
                    /\ fate[t] = "applied" => fate'[t] = "applied"
                    /\ reply[t] # "none" => reply'[t] = reply[t]
                    /\ reply'[t] = "ok" => reply[t] = "ok" \/ fate[t] = "applied"
  BY <1>1, <1>2, ProgressFacts DEF TypeOK
<1> USE ShapeAssumption, TxFacts
<1>5. B!OkMeansApplied'
  BY <1>4 DEF IInv, B!OkMeansApplied
<1>6. KeyInv'
  BY <1>3, <1>4 DEF IInv, KeyInv, CallOfKey, Asked
<1>7. JobInv' /\ DoneInv'
  BY <1>3, <1>4 DEF IInv, JobInv, JobInvOf, DoneInv
<1>8. ReportInv'
  BY <1>3, <1>4 DEF IInv, ReportInv
<1>9. AnswerInv'
  BY <1>3, <1>4 DEF IInv, AnswerInv, AnswerInvOf, CallOfKey, JobsOf, AnyCreatedKeys
<1>10. QED
  BY <1>1, <1>5, <1>6, <1>7, <1>8, <1>9 DEF IInv

(* Every step keeps the inductive invariant.                               *)
LEMMA StepIInv == IInv /\ [Next]_vars => IInv'
<1> SUFFICES ASSUME IInv, [Next]_vars PROVE IInv'
  OBVIOUS
<1>1. CASE UNCHANGED vars
  BY <1>1 DEF vars, IInv, TypeOK, B!TypeOK, B!OkMeansApplied, KeyInv, JobInv, JobInvOf, DoneInv,
     ReportInv, AnswerInv, AnswerInvOf, CallOfKey, JobsOf, AnyCreatedKeys, Asked
<1>2. ASSUME NEW c \in Call, Refuse(c) \/ RefuseEmpty(c) \/ Accept(c) \/ CallStep(c)
      PROVE IInv'
  BY <1>2, RefuseIInv, RefuseEmptyIInv, AcceptIInv, CallStepIInv
<1>3. ASSUME NEW j \in Job, JobStep(j) PROVE IInv'
  BY <1>3, StartListingIInv, FinishIInv DEF JobStep
<1>4. QED
  BY <1>1, <1>2, <1>3, KeyStepIInv, CrashIInv, ChainIInv DEF Next

(* The state of keys, jobs and calls stays backed by the replies of their  *)
(* transactions, in every behaviour and for any requests.                  *)
THEOREM Invariance == Spec => []IInv
  BY InitIInv, StepIInv, PTL DEF Spec
-----------------------------------------------------------------------------
(* What follows from it.                                                   *)

(* What is listed has been issued, as confirmed by the node.               *)
LEMMA OpenIsIssued ==
  ASSUME IInv, NEW k \in Key, k \in listed[JobOf[k]]
  PROVE  Issued(k) /\ reply[Issue(k)] = "ok"
  BY ShapeAssumption, TxFacts
     DEF IInv, JobInv, JobInvOf, KeyInv, B!OkMeansApplied, Issued

(* A key reported with success: true is issued, with the recipient the     *)
(* client named, and in the whitelist of its device.                       *)
THEOREM SuccessIsRealAlways == Spec => []SuccessIsReal
<1>1. IInv => SuccessIsReal
  <2> SUFFICES ASSUME IInv, NEW k \in Key, result[k] = "success"
               PROVE  Issued(k) /\ Open(k) /\ (dto[JobOf[k]].recipient = "user" => Moved(k))
    BY DEF SuccessIsReal
  <2>1. /\ key[k] = "created" /\ reply[Listing(JobOf[k])] = "ok" /\ k \in listed[JobOf[k]]
        /\ dto[JobOf[k]].recipient = "user" => reply[Transfer(k)] = "ok"
    BY DEF IInv, ReportInv, KeyInv
  <2>2. QED
    BY <2>1, OpenIsIssued, ShapeAssumption, TxFacts DEF IInv, B!OkMeansApplied, Open, Moved
<1>2. QED
  BY <1>1, Invariance, PTL

(* The list sent to the device is every key whose issue was confirmed.     *)
THEOREM ListingIsCompleteAlways == Spec => []ListingIsComplete
<1>1. IInv => ListingIsComplete
  <2> SUFFICES ASSUME IInv, NEW j \in Job, job[j] \in {"listing", "done"}
               PROVE  listed[j] = {k \in dto[j].keys : reply[Issue(k)] = "ok"}
    BY DEF ListingIsComplete
  <2>1. \A k \in dto[j].keys : k \in Key /\ key[k] \in Returned
    BY DEF IInv, JobInv, JobInvOf, TypeOK, KeysOf
  <2>2. \A k \in dto[j].keys : key[k] # "missing" <=> reply[Issue(k)] = "ok"
    BY <2>1 DEF IInv, KeyInv, Returned
  <2>3. \A k \in Key : k \in listed[j] <=> k \in dto[j].keys /\ key[k] # "missing"
    BY DEF IInv, JobInv, JobInvOf
  <2>4. listed[j] \subseteq Key
    BY DEF IInv, TypeOK
  <2>5. QED
    BY <2>1, <2>2, <2>3, <2>4
<1>2. QED
  BY <1>1, Invariance, PTL

(* Only a key whose issue was never confirmed is left out of the report.   *)
THEOREM OnlyTimeoutsLoseKeysAlways == Spec => []OnlyTimeoutsLoseKeys
<1>1. IInv => OnlyTimeoutsLoseKeys
  BY DEF IInv, ReportInv, KeyInv, OnlyTimeoutsLoseKeys
<1>2. QED
  BY <1>1, Invariance, PTL

(* Whitelisted and announced keys exist.                                   *)
THEOREM NothingPhantomAlways == Spec => []NothingPhantom
<1>1. IInv => NothingPhantom
  BY OpenIsIssued DEF IInv, ReportInv, NothingPhantom, Open
<1>2. QED
  BY <1>1, Invariance, PTL

(* A refused call leaves no transaction behind, but for the second check   *)
(* of validTo.                                                             *)
THEOREM RefusalIsCleanAlways == Spec => []RefusalIsClean
<1>1. IInv => RefusalIsClean
  <2> SUFFICES ASSUME IInv, NEW c \in Call, answer[c] \in {"invalid", "error"}
               PROVE  \/ \A j \in JobsOf(c) : \A k \in KeysOf(j) : fate[Issue(k)] = "none"
                      \/ \E i \in JobsOf(c) : c \in Multi /\ job[i] = "rejected"
                                               /\ dto[i].validTo = "edge"
    BY DEF RefusalIsClean
  <2>1. CASE \A k \in Key : CallOfKey(k) = c => fate[Issue(k)] = "none" /\ key[k] = "idle"
    BY <2>1 DEF JobsOf, KeysOf, CallOfKey
  <2>2. CASE \E j \in JobsOf(c) : job[j] = "rejected"
    BY <2>2 DEF IInv, JobInv, JobInvOf, JobsOf
  <2>3. QED
    BY <2>1, <2>2 DEF IInv, AnswerInv, AnswerInvOf
<1>2. QED
  BY <1>1, Invariance, PTL

(* POST /keys/multi answers 201 only with a working key among the results. *)
THEOREM CreatedMeansAKeyWorksAlways == Spec => []CreatedMeansAKeyWorks
<1>1. IInv => CreatedMeansAKeyWorks
  <2> SUFFICES ASSUME IInv, NEW c \in Multi, answer[c] = "created"
               PROVE  /\ \A j \in JobsOf(c) : \A k \in dto[j].keys : result[k] # "none"
                      /\ \E k \in Key : CallOf[JobOf[k]] = c /\ result[k] = "success" /\ Open(k)
    BY DEF CreatedMeansAKeyWorks
  <2>1. c \in Call
    BY ShapeAssumption
  <2>2. AnswerInvOf(c)
    BY <2>1 DEF IInv, AnswerInv, AnswerInvOf
  <2>3. PICK j \in JobsOf(c) : \E k \in dto[j].keys : result[k] = "success"
    BY <2>2 DEF AnswerInvOf, AnyCreatedKeys
  <2>4. PICK k \in dto[j].keys : result[k] = "success"
    BY <2>3
  <2>5. k \in Key /\ JobOf[k] = j /\ CallOf[j] = c
    BY <2>4 DEF IInv, TypeOK, KeysOf, JobsOf
  <2>6. Open(k)
    BY <2>4, <2>5, TxFacts, ShapeAssumption DEF IInv, ReportInv, B!OkMeansApplied, Open
  <2>7. QED
    BY <2>2, <2>4, <2>5, <2>6 DEF AnswerInvOf
<1>2. QED
  BY <1>1, Invariance, PTL

-----------------------------------------------------------------------------
(* The keys that a call has submitted are among those it may ask for.      *)
LEMMA SubmittedIsFinite ==
  ASSUME NEW c \in Call
  PROVE  IsFiniteSet(Submitted(c)) /\ Cardinality(Submitted(c)) \in Nat
<1>1. Submitted(c) \in SUBSET {k \in Key : CallOf[JobOf[k]] = c}
  BY DEF Submitted
<1>2. IsFiniteSet(Submitted(c))
  BY <1>1, BodyAssumption, FS_Subset
<1>3. QED
  BY <1>2, FS_CardinalityType

(* Accepting a request submits no more keys than all its jobs together     *)
(* name, since none of the call was submitted before.                      *)
LEMMA AcceptLimit ==
  ASSUME IInv, NEW c \in Call, Accept(c)
  PROVE  Cardinality(Submitted(c)') <= KeyLimit
<1>1. PICK d \in Requests(c) :
        \E late \in SUBSET MayBeLate(c, d) :
           /\ Valid(d)
           /\ B!Submit({Issue(k) : k \in UNION {d[j].keys : j \in JobsOf(c) \ late}})
  BY DEF Accept
<1>2. PICK late \in SUBSET MayBeLate(c, d) :
           /\ Valid(d)
           /\ B!Submit({Issue(k) : k \in UNION {d[j].keys : j \in JobsOf(c) \ late}})
  BY <1>1
<1> DEFINE started == UNION {d[j].keys : j \in JobsOf(c) \ late}
           named == UNION {d[j].keys : j \in DOMAIN d}
           ofCall == {k \in Key : CallOf[JobOf[k]] = c}
<1>3. DOMAIN d = JobsOf(c) /\ \A j \in JobsOf(c) : d[j].keys \subseteq KeysOf(j)
  BY DEF Requests
<1>4. started \subseteq named /\ named \in SUBSET ofCall
  BY <1>3 DEF KeysOf, JobsOf
<1>5. IsFiniteSet(named) /\ Cardinality(named) <= KeyLimit
  <2>1. IsFiniteSet(named)
    BY <1>4, BodyAssumption, FS_Subset
  <2>2. QED
    BY <1>2, <2>1 DEF Valid, Amount
<1>6. \A k \in Key : CallOf[JobOf[k]] = c => fate[Issue(k)] = "none"
  BY DEF Accept, IInv, KeyInv, CallOfKey
<1>7. \A k \in Key : k \notin started => fate'[Issue(k)] = fate[Issue(k)]
  <2>1. {Issue(k) : k \in started} \in SUBSET Tx
    BY <1>4, TxFacts
  <2>2. \A t \in Tx : t \notin {Issue(k) : k \in started} => fate'[t] = fate[t]
    BY <1>2, <2>1, SubmitFacts DEF IInv, TypeOK
  <2>3. QED
    BY <2>2, TxFacts
<1>8. Submitted(c)' \in SUBSET named
  BY <1>4, <1>6, <1>7 DEF Submitted
<1>9. Cardinality(Submitted(c)') <= Cardinality(named)
  BY <1>5, <1>8, FS_Subset
<1>10. Cardinality(named) \in Nat /\ Cardinality(Submitted(c)') \in Nat
  <2>1. IsFiniteSet(Submitted(c)')
    BY <1>5, <1>8, FS_Subset
  <2>2. QED
    BY <1>5, <2>1, FS_CardinalityType
<1>11. QED
  BY <1>5, <1>9, <1>10, ShapeAssumption

(* No other step submits an issue.                                         *)
LEMMA OnlyAcceptSubmits ==
  ASSUME IInv, [Next]_vars, NEW c \in Call, ~Accept(c)
  PROVE  Submitted(c)' \subseteq Submitted(c)
<1>1. TypeOK /\ B!TypeOK
  BY DEF IInv, TypeOK
<1> SUFFICES ASSUME NEW k \in Key, CallOf[JobOf[k]] = c, fate[Issue(k)] = "none"
             PROVE  fate'[Issue(k)] = "none"
  BY DEF Submitted
<1>2. ASSUME NEW x \in Call, Accept(x) PROVE fate'[Issue(k)] = "none"
  <2>1. PICK started \in SUBSET Key :
          /\ \A l \in started : CallOf[JobOf[l]] = x
          /\ {Issue(l) : l \in started} \in SUBSET Tx
          /\ B!Submit({Issue(l) : l \in started})
    <3>1. PICK d \in Requests(x), late \in SUBSET JobsOf(x), started \in SUBSET Key :
            /\ started = UNION {d[j].keys : j \in JobsOf(x) \ late}
            /\ \A j \in late : x \in Multi /\ d[j].validTo = "edge"
            /\ RecordDto(d)
            /\ job' = [j \in Job |-> IF j \in late THEN "rejected"
                                     ELSE IF CallOf[j] = x THEN "creating" ELSE job[j]]
            /\ key' = [l \in Key |-> IF l \in started THEN "issuing" ELSE key[l]]
            /\ {Issue(l) : l \in started} \in SUBSET Tx
            /\ B!Submit({Issue(l) : l \in started})
      BY <1>1, <1>2, AcceptFacts
    <3>2. \A l \in started : CallOf[JobOf[l]] = x
      BY <3>1 DEF Requests, JobsOf, KeysOf
    <3>3. QED
      BY <3>1, <3>2
  <2>2. x # c
    BY <1>2
  <2>3. Issue(k) \in Tx /\ Issue(k) \notin {Issue(l) : l \in started}
    BY <2>1, <2>2, TxFacts
  <2>4. QED
    BY <1>1, <2>1, <2>3, SubmitFacts
<1>3. ASSUME NEW l \in Key, KeyMoves(l) PROVE fate'[Issue(k)] = "none"
  BY <1>1, <1>3, TxFacts, SubmitFacts DEF KeyMoves
<1>4. ASSUME NEW j \in Job, StartListing(j) PROVE fate'[Issue(k)] = "none"
  <2>1. {Listing(j)} \in SUBSET Tx /\ Issue(k) \in Tx /\ Issue(k) \notin {Listing(j)}
    BY TxFacts
  <2>2. QED
    BY <1>1, <1>4, <2>1, SubmitFacts DEF StartListing
<1>5. CASE Chain
  BY <1>1, <1>5, TxFacts, ProgressFacts DEF Chain
<1>6. CASE UNCHANGED fate
  BY <1>6
<1>7. ASSUME NEW l \in Key, KeyStep(l) PROVE fate'[Issue(k)] = "none"
  BY <1>3, <1>6, <1>7 DEF KeyStep, IssueFails, KeyStays, MoveEnds, Notify
<1>8. ASSUME NEW j \in Job, JobStep(j) PROVE fate'[Issue(k)] = "none"
  BY <1>4, <1>6, <1>8 DEF JobStep, Finish
<1>9. ASSUME NEW x \in Call, Refuse(x) \/ RefuseEmpty(x) \/ CallStep(x)
      PROVE  fate'[Issue(k)] = "none"
  BY <1>6, <1>9 DEF Refuse, RefuseEmpty, CallStep, Respond, RespondLate
<1>10. Crash => UNCHANGED fate
  BY DEF Crash
<1>11. UNCHANGED vars => UNCHANGED fate
  BY DEF vars
<1>12. QED
  BY <1>2, <1>5, <1>6, <1>7, <1>8, <1>9, <1>10, <1>11 DEF Next

(* One call never issues more keys than the limit, over all its requests   *)
(* and whatever becomes of them (validateKeyLimit on the sum, lines        *)
(* 139-145).                                                               *)
THEOREM WithinLimitAlways == Spec => []WithinLimit
<1>1. Init => WithinLimit
  <2> SUFFICES ASSUME Init, NEW c \in Call PROVE Cardinality(Submitted(c)) <= KeyLimit
    BY DEF WithinLimit
  <2>1. Submitted(c) = {}
    BY TxFacts DEF Submitted, Init, B!Init
  <2>2. QED
    BY <2>1, FS_EmptySet, ShapeAssumption
<1>2. IInv /\ WithinLimit /\ [Next]_vars => WithinLimit'
  <2> SUFFICES ASSUME IInv, WithinLimit, [Next]_vars, NEW c \in Call
               PROVE  Cardinality(Submitted(c)') <= KeyLimit
    BY DEF WithinLimit
  <2>1. CASE Accept(c)
    BY <2>1, AcceptLimit
  <2>2. CASE ~Accept(c)
    <3>1. Submitted(c)' \in SUBSET Submitted(c)
      BY <2>2, OnlyAcceptSubmits
    <3>2. /\ IsFiniteSet(Submitted(c)') /\ Cardinality(Submitted(c)') <= Cardinality(Submitted(c))
      BY <3>1, SubmittedIsFinite, FS_Subset
    <3>3. Cardinality(Submitted(c)') \in Nat /\ Cardinality(Submitted(c)) \in Nat
      BY <3>2, SubmittedIsFinite, FS_CardinalityType
    <3>4. QED
      BY <3>2, <3>3, ShapeAssumption DEF WithinLimit
  <2>3. QED
    BY <2>1, <2>2
<1>3. QED
  BY <1>1, <1>2, Invariance, PTL DEF Spec

-----------------------------------------------------------------------------
(* KeyCreation implements KeyPromise: every step of the service, the node  *)
(* or the supplier is a step of KeyPromise or leaves its state alone.      *)
(* The order of transactions and reports is kept.                          *)

(* The order holds at the start.                                           *)
LEMMA InitLinkInv == Init => LinkInv
  BY TxFacts, ShapeAssumption DEF Init, LinkInv, NoDto, B!Init

(* A request asks for keys that have no transaction and no report yet.     *)
LEMMA RequestLinkInv ==
  ASSUME IInv, LinkInv, NEW c \in Call, Refuse(c) \/ RefuseEmpty(c) \/ Accept(c)
  PROVE  LinkInv'
<1> USE ShapeAssumption
<1>1. TypeOK
  BY DEF IInv
<1>2. CASE Refuse(c)
  <2>1. PICK d \in Requests(c) : RecordDto(d)
    BY <1>2 DEF Refuse
  <2>2. \A j \in Job : CallOf[j] # c => dto'[j] = dto[j]
    BY <1>1, <2>1, RecordFacts
  <2>3. \A j \in Job : CallOf[j] = c => dto[j].keys = {}
    BY <1>2 DEF Refuse, LinkInv
  <2>4. /\ answer'[c] # "idle" /\ \A x \in Call : x # c => answer'[x] = answer[x]
        /\ job' = job /\ result' = result /\ notice' = notice /\ fate' = fate /\ reply' = reply
    BY <1>1, <1>2 DEF Refuse, TypeOK
  <2>5. QED
    BY <2>2, <2>3, <2>4 DEF LinkInv, Asked
<1>3. CASE RefuseEmpty(c)
  BY <1>1, <1>3 DEF RefuseEmpty, LinkInv, Asked, TypeOK
<1>4. CASE Accept(c)
  <2>1. PICK d \in Requests(c), late \in SUBSET JobsOf(c), started \in SUBSET Key :
           /\ started = UNION {d[j].keys : j \in JobsOf(c) \ late}
           /\ \A j \in late : c \in Multi /\ d[j].validTo = "edge"
           /\ RecordDto(d)
           /\ job' = [j \in Job |-> IF j \in late THEN "rejected"
                                    ELSE IF CallOf[j] = c THEN "creating" ELSE job[j]]
           /\ key' = [k \in Key |-> IF k \in started THEN "issuing" ELSE key[k]]
           /\ {Issue(k) : k \in started} \in SUBSET Tx
           /\ B!Submit({Issue(k) : k \in started})
    BY <1>1, <1>4, AcceptFacts
  <2>2. /\ \A j \in Job : CallOf[j] # c => dto'[j] = dto[j]
        /\ \A j \in JobsOf(c) : dto'[j] = d[j]
    BY <1>1, <2>1, RecordFacts
  <2>3. \A k \in started : k \in dto'[JobOf[k]].keys
    BY <2>1, <2>2 DEF Requests, KeysOf, JobsOf
  <2>4. \A j \in Job : CallOf[j] = c => dto[j].keys = {} /\ job[j] = "idle"
    BY <1>4 DEF Accept, LinkInv, IInv, JobInv, JobInvOf
  <2>5. /\ answer'[c] # "idle" /\ \A x \in Call : x # c => answer'[x] = answer[x]
        /\ result' = result /\ notice' = notice
    BY <1>1, <1>4 DEF Accept, TypeOK
  <2>6. /\ reply' = reply
        /\ \A t \in Tx : t \notin {Issue(k) : k \in started} => fate'[t] = fate[t]
    BY <1>1, <2>1, SubmitFacts DEF TypeOK
  <2>7. \A k \in Key : /\ k \notin started => fate'[Issue(k)] = fate[Issue(k)]
                       /\ fate'[Transfer(k)] = fate[Transfer(k)]
    BY <2>6, TxFacts
  <2>8. \A j \in Job : CallOf[j] # c => job'[j] = job[j]
    BY <2>1 DEF JobsOf
  <2>9. QED
    BY <2>2, <2>3, <2>4, <2>5, <2>6, <2>7, <2>8 DEF LinkInv, Asked
<1>5. QED
  BY <1>2, <1>3, <1>4

(* Every step submits and reports in that order.                           *)
LEMMA StepLinkInv ==
  ASSUME IInv, LinkInv, [Next]_vars PROVE LinkInv'
<1> USE ShapeAssumption
<1>1. TypeOK
  BY DEF IInv
<1>2. ASSUME NEW c \in Call, Refuse(c) \/ RefuseEmpty(c) \/ Accept(c) PROVE LinkInv'
  BY <1>2, RequestLinkInv
<1>3. ASSUME NEW c \in Call, CallStep(c) PROVE LinkInv'
  BY <1>1, <1>3 DEF CallStep, Respond, RespondLate, LinkInv, Asked, TypeOK
<1>4. ASSUME NEW k \in Key, KeyStep(k) PROVE LinkInv'
  <2>1. CASE IssueFails(k) \/ KeyStays(k) \/ MoveEnds(k)
    BY <2>1 DEF IssueFails, KeyStays, MoveEnds, KeyOnly, LinkInv, Asked
  <2>2. CASE KeyMoves(k)
    <3>1. {Transfer(k)} \in SUBSET Tx /\ B!Submit({Transfer(k)})
      BY <2>2, TxFacts DEF KeyMoves
    <3>2. reply' = reply /\ \A t \in Tx : t # Transfer(k) => fate'[t] = fate[t]
      BY <1>1, <3>1, SubmitFacts DEF TypeOK
    <3>3. \A l \in Key : /\ fate'[Issue(l)] = fate[Issue(l)]
                         /\ l # k => fate'[Transfer(l)] = fate[Transfer(l)]
      BY <3>2, TxFacts
    <3>4. /\ reply[Issue(k)] = "ok" /\ Asked(k)
          /\ dto[JobOf[k]].recipient = "user"
      BY <1>1, <2>2 DEF KeyMoves, At, IInv, KeyInv, TypeOK, Dto, Recipients
    <3>5. QED
      BY <2>2, <3>2, <3>3, <3>4 DEF KeyMoves, KeyOnly, LinkInv, Asked
  <2>3. CASE Notify(k)
    BY <1>1, <2>3 DEF Notify, LinkInv, Asked, TypeOK
  <2>4. QED
    BY <1>4, <2>1, <2>2, <2>3 DEF KeyStep
<1>5. ASSUME NEW j \in Job, StartListing(j) PROVE LinkInv'
  <2>1. {Listing(j)} \in SUBSET Tx /\ B!Submit({Listing(j)})
    BY <1>5, TxFacts DEF StartListing
  <2>2. reply' = reply /\ \A t \in Tx : t # Listing(j) => fate'[t] = fate[t]
    BY <1>1, <2>1, SubmitFacts DEF TypeOK
  <2>3. \A l \in Key : fate'[Issue(l)] = fate[Issue(l)] /\ fate'[Transfer(l)] = fate[Transfer(l)]
    BY <2>2, TxFacts
  <2>4. QED
    BY <1>1, <1>5, <2>2, <2>3 DEF StartListing, LinkInv, Asked, TypeOK
<1>6. ASSUME NEW j \in Job, Finish(j) PROVE LinkInv'
  <2>1. \A k \in dto[j].keys : JobOf[k] = j
    BY <1>1 DEF TypeOK, KeysOf
  <2>2. \A k \in listed[j] : JobOf[k] = j
    BY DEF IInv, JobInv, JobInvOf
  <2>3. QED
    BY <1>1, <1>6, <2>1, <2>2 DEF Finish, LinkInv, Asked, TypeOK
<1>7. CASE Crash
  BY <1>1, <1>7 DEF Crash, LinkInv, Asked, TypeOK
<1>8. CASE Chain
  <2>1. PICK u \in Tx : B!Progress(u)
    BY <1>8 DEF Chain
  <2>2. \A t \in Tx : /\ fate[t] = "none" => fate'[t] = "none"
                      /\ reply[t] # "none" => reply'[t] = reply[t]
    BY <1>1, <2>1, ProgressFacts DEF TypeOK
  <2>3. QED
    BY <1>8, <2>2, TxFacts DEF Chain, server, LinkInv, Asked
<1>9. CASE UNCHANGED vars
  BY <1>9 DEF vars, LinkInv, Asked
<1>10. QED
  BY <1>2, <1>3, <1>4, <1>5, <1>6, <1>7, <1>8, <1>9 DEF Next, JobStep

-----------------------------------------------------------------------------
(* KeyPromise's state is read off the requests, the listings, the notices, *)
(* the results and the applied transactions.                               *)

(* The promise sees nothing of a step that changes none of these.          *)
LEMMA SameMaps ==
  ASSUME \A t \in Tx : fate'[t] = "applied" <=> fate[t] = "applied",
         \A k \in Key : fate[Listing(JobOf[k])] = "applied" =>
                          (k \in listed'[JobOf[k]] <=> k \in listed[JobOf[k]])
  PROVE  Place' = Place /\ Opened' = Opened
<1>1. \A k \in Key : /\ Issued(k)' <=> Issued(k)
                     /\ Moved(k)' <=> Moved(k)
                     /\ Open(k)' <=> Open(k)
  BY TxFacts, ShapeAssumption DEF Issued, Moved, Open
<1>2. Place' = Place
  BY <1>1 DEF Place
<1>3. \A k \in Key : Open(k)' = Open(k)
  BY <1>1 DEF Open
<1>4. Opened' = Opened
  BY <1>3, Zenon DEF Opened
<1>5. QED
  BY <1>2, <1>4

(* A submitted transaction is not in a block yet.                          *)
LEMMA SubmitMaps ==
  ASSUME B!TypeOK, NEW T \in SUBSET Tx, B!Submit(T)
  PROVE  /\ \A t \in Tx : fate'[t] = "applied" <=> fate[t] = "applied"
         /\ \A t \in T : fate[t] = "none"
  BY DEF B!TypeOK, B!Submit

(* The initial states promise nothing.                                     *)
LEMMA InitPromise == Init => Promise!Init
<1> SUFFICES ASSUME Init PROVE Promise!Init
  OBVIOUS
<1>1. \A k \in Key : ~ Asked(k) /\ ~ Issued(k) /\ ~ Moved(k) /\ ~ Open(k)
  BY TxFacts, ShapeAssumption DEF Init, NoDto, B!Init, Asked, Issued, Moved, Open
<1>2. \A k \in Key : Open(k) = FALSE /\ (notice[k] # "none") = FALSE
  BY <1>1 DEF Init, Open
<1>3. Opened = [k \in Key |-> FALSE] /\ Told = [k \in Key |-> FALSE]
  BY <1>2, Zenon DEF Opened, Told
<1>4. Wanted = [k \in Key |-> "none"] /\ Place = [k \in Key |-> "nowhere"]
  BY <1>1 DEF Wanted, Place
<1>5. QED
  BY <1>3, <1>4 DEF Init, Promise!Init

(* A request, accepted or refused, asks for its keys.                      *)
LEMMA RequestAsks ==
  ASSUME IInv, LinkInv, NEW c \in Call, Refuse(c) \/ Accept(c)
  PROVE  Promise!Ask
<1> USE ShapeAssumption
<1>1. TypeOK
  BY DEF IInv
<1>2. PICK d \in Requests(c) : RecordDto(d)
  BY DEF Refuse, Accept
<1>3. /\ dto' \in [Job -> Dto]
      /\ \A j \in Job : CallOf[j] # c => dto'[j] = dto[j]
  BY <1>1, <1>2, RecordFacts
<1>4. \A j \in Job : CallOf[j] = c => dto[j].keys = {}
  BY DEF Refuse, Accept, LinkInv
<1>5. UNCHANGED <<listed, result, notice>>
  BY DEF Refuse, Accept
<1>6. \A t \in Tx : fate'[t] = "applied" <=> fate[t] = "applied"
  <2>1. CASE Refuse(c)
    BY <2>1 DEF Refuse
  <2>2. CASE Accept(c)
    <3>1. PICK T \in SUBSET Tx : B!Submit(T)
      BY <1>1, <2>2, AcceptFacts
    <3>2. QED
      BY <1>1, <3>1, SubmitMaps DEF TypeOK
  <2>3. QED
    BY <2>1, <2>2
<1>7. UNCHANGED <<Place, Opened, Told, result>>
  BY <1>5, <1>6, SameMaps DEF Told
<1> DEFINE K == {k \in Key : CallOfKey(k) = c /\ k \in dto'[JobOf[k]].keys}
           w == [k \in K |-> dto'[JobOf[k]].recipient]
<1>8. \A k \in K : Wanted[k] = "none"
  BY <1>4 DEF Wanted, Asked, CallOfKey
<1>9. w \in [K -> {"dapp", "user"}]
  BY <1>3 DEF Dto, Recipients
<1>10. Wanted' = [k \in Key |-> IF k \in K THEN w[k] ELSE Wanted[k]]
  <2>1. \A k \in Key : Wanted'[k] = IF k \in K THEN w[k] ELSE Wanted[k]
    BY <1>3, <1>4 DEF Wanted, Asked, CallOfKey
  <2>2. QED
    BY <2>1 DEF Wanted
<1>11. K \in SUBSET Key
  OBVIOUS
<1> HIDE DEF K, w
<1>12. QED
  BY <1>7, <1>8, <1>9, <1>10, <1>11 DEF Promise!Ask

(* The node puts a transaction in a block: a key is issued or moved, or a  *)
(* list of keys is whitelisted.  Everything else it does is invisible.     *)
LEMMA ChainKeepsPromise ==
  ASSUME IInv, LinkInv, Chain
  PROVE  [Promise!Next]_(Promise!vars)
<1> USE ShapeAssumption
<1>1. TypeOK /\ B!OkMeansApplied /\ B!TypeOK
  BY DEF IInv, TypeOK
<1>2. PICK u \in Tx : B!Progress(u)
  BY DEF Chain
<1>3. UNCHANGED <<dto, listed, result, notice>>
  BY DEF Chain, server
<1>4. UNCHANGED <<Wanted, Told, result>>
  BY <1>3 DEF Wanted, Told, Asked
<1>5. CASE ~ B!Apply(u)
  <2>1. \A t \in Tx : fate'[t] = "applied" <=> fate[t] = "applied"
    BY <1>1, <1>2, <1>5 DEF B!Progress, B!Drop, B!Confirm, B!Fail, B!TypeOK
  <2>2. QED
    BY <1>3, <1>4, <2>1, SameMaps DEF Promise!vars
<1>6. CASE B!Apply(u)
  <2>1. /\ fate[u] = "sent" /\ fate'[u] = "applied" /\ reply' = reply
        /\ \A t \in Tx : t # u => fate'[t] = fate[t]
    BY <1>1, <1>6 DEF B!Apply, B!TypeOK
  <2>2. \A k \in Key : /\ Issue(k) # u => (Issued(k)' <=> Issued(k))
                       /\ Transfer(k) # u => (Moved(k)' <=> Moved(k))
                       /\ Listing(JobOf[k]) # u => Open(k)' = Open(k)
    BY <1>3, <2>1, TxFacts DEF Issued, Moved, Open
  <2>3. ASSUME NEW k \in Key, u = Issue(k) PROVE Promise!Issue(k)
    <3>1. Wanted[k] # "none"
      BY <1>1, <2>1, <2>3 DEF LinkInv, Wanted, TypeOK, Dto, Recipients
    <3>2. ~ Issued(k) /\ ~ Moved(k)
      BY <1>1, <2>1, <2>3, TxFacts DEF LinkInv, Issued, Moved, B!OkMeansApplied
    <3>3. \A l \in Key : /\ l # k => (Issued(l)' <=> Issued(l))
                         /\ Moved(l)' <=> Moved(l)
                         /\ Open(l)' = Open(l)
      BY <2>2, <2>3, TxFacts
    <3>4. Issued(k)'
      BY <2>1, <2>3 DEF Issued
    <3>5. Place' = [Place EXCEPT ![k] = "dapp"] /\ Place[k] = "nowhere"
      BY <3>2, <3>3, <3>4 DEF Place
    <3>6. Opened' = Opened
      BY <3>3, Zenon DEF Opened
    <3>7. QED
      BY <1>4, <3>1, <3>5, <3>6 DEF Promise!Issue
  <2>4. ASSUME NEW k \in Key, u = Transfer(k) PROVE Promise!Move(k)
    <3>1. Wanted[k] = "user" /\ Issued(k) /\ ~ Moved(k)
      BY <1>1, <2>1, <2>4, TxFacts DEF LinkInv, Wanted, Issued, Moved, B!OkMeansApplied
    <3>2. \A l \in Key : /\ Issued(l)' <=> Issued(l)
                         /\ l # k => (Moved(l)' <=> Moved(l))
                         /\ Open(l)' = Open(l)
      BY <2>2, <2>4, TxFacts
    <3>3. Moved(k)'
      BY <2>1, <2>4 DEF Moved
    <3>4. Place' = [Place EXCEPT ![k] = "user"] /\ Place[k] = "dapp"
      BY <3>1, <3>2, <3>3 DEF Place
    <3>5. Opened' = Opened
      BY <3>2, Zenon DEF Opened
    <3>6. QED
      BY <1>4, <3>1, <3>4, <3>5 DEF Promise!Move
  <2>5. ASSUME NEW j \in Job, u = Listing(j) PROVE Promise!Enlist(listed[j])
    <3>1. \A k \in listed[j] : k \in Key /\ JobOf[k] = j
      BY <1>1 DEF IInv, JobInv, JobInvOf, TypeOK
    <3>2. \A k \in listed[j] : Issued(k)
      BY <3>1, OpenIsIssued
    <3>3. \A l \in Key : (Issued(l)' <=> Issued(l)) /\ (Moved(l)' <=> Moved(l))
      BY <2>2, <2>5, TxFacts
    <3>4. Place' = Place
      BY <3>3 DEF Place
    <3>5. \A l \in Key : Open(l)' = (Open(l) \/ l \in listed[j])
      <4>1. ASSUME NEW l \in Key, l \in listed[j] PROVE Open(l)'
        BY <1>3, <2>1, <2>5, <3>1, <4>1 DEF Open
      <4>2. ASSUME NEW l \in Key, l \notin listed[j] PROVE Open(l)' = Open(l)
        BY <1>3, <2>2, <2>5, <4>2, TxFacts DEF Open
      <4>3. QED
        BY <4>1, <4>2 DEF Open
    <3>6. Opened' = [l \in Key |-> Opened[l] \/ l \in listed[j]]
      <4>1. \A l \in Key : Opened[l] = Open(l)
        BY Zenon DEF Opened
      <4>2. Opened' = [l \in Key |-> Open(l)']
        BY DEF Opened
      <4>3. QED
        BY <3>5, <4>1, <4>2, Zenon
    <3>7. \A k \in listed[j] : Place[k] # "nowhere"
      BY <3>1, <3>2 DEF Place
    <3>8. QED
      BY <1>4, <3>4, <3>6, <3>7 DEF Promise!Enlist
  <2>6. \/ \E k \in Key : u = Issue(k) \/ u = Transfer(k)
        \/ \E j \in Job : u = Listing(j)
    BY DEF Tx, Issue, Transfer, Listing
  <2>7. \A j \in Job : listed[j] \in SUBSET Key
    BY <1>1 DEF TypeOK
  <2>8. QED
    BY <2>3, <2>4, <2>5, <2>6, <2>7 DEF Promise!Next
<1>7. QED
  BY <1>5, <1>6

(* create() ends: it reports on its keys and announces the listed ones.    *)
LEMMA FinishReports ==
  ASSUME IInv, LinkInv, NEW j \in Job, Finish(j)
  PROVE  \E K, T, S \in SUBSET Key : Promise!Report(K, T, S)
<1> USE ShapeAssumption
<1>1. TypeOK /\ B!OkMeansApplied /\ KeyInv /\ JobInvOf(j)
  BY DEF IInv, JobInv
<1> DEFINE K == dto[j].keys
           T == listed[j]
           S == {k \in K : ResultOf(k, j) = "success"}
<1>2. \A k \in K : k \in Key /\ JobOf[k] = j /\ key[k] \in Returned
  BY <1>1 DEF Finish, TypeOK, KeysOf, JobInvOf
<1>3. \A k \in Key : k \in T <=> k \in K /\ key[k] # "missing"
  BY <1>1 DEF Finish, JobInvOf
<1>4. S \subseteq T /\ T \subseteq K /\ K \subseteq Key
  BY <1>1, <1>2, <1>3 DEF ResultOf, TypeOK
<1>5. \A k \in K : result[k] = "none" /\ notice[k] = "none"
  BY <1>2 DEF Finish, LinkInv
<1>6. \A k \in T : Issued(k)
  BY <1>2, <1>4, OpenIsIssued
<1>7. \A k \in S : Place[k] = Wanted[k] /\ Opened[k]
  <2> SUFFICES ASSUME NEW k \in S PROVE Place[k] = Wanted[k] /\ Open(k)
    BY <1>4 DEF Opened
  <2>1. /\ k \in K /\ k \in Key /\ JobOf[k] = j /\ k \in listed[j]
        /\ key[k] = "created" /\ reply[Listing(j)] = "ok"
    BY <1>2, <1>4 DEF ResultOf
  <2>2. Open(k) /\ Issued(k)
    BY <1>1, <1>6, <2>1, TxFacts DEF Open, B!OkMeansApplied
  <2>3. Moved(k) <=> dto[j].recipient = "user"
    BY <1>1, <2>1, TxFacts
       DEF KeyInv, LinkInv, Moved, B!OkMeansApplied
  <2>4. dto[j].recipient \in {"dapp", "user"}
    BY <1>1 DEF TypeOK, Dto, Recipients
  <2>5. QED
    BY <2>1, <2>2, <2>3, <2>4 DEF Place, Wanted, Asked
<1>8. UNCHANGED <<Wanted, Place, Opened>>
  BY DEF Finish, Wanted, Place, Opened, Asked, Issued, Moved, Open
<1>9. Told' = [k \in Key |-> Told[k] \/ k \in T]
  <2>1. \A k \in Key : (notice[k] # "none")' = (notice[k] # "none" \/ k \in T)
    BY DEF Finish
  <2>2. \A k \in Key : Told[k] = (notice[k] # "none")
    BY Zenon DEF Told
  <2>3. Told' = [k \in Key |-> (notice[k] # "none")']
    BY DEF Told
  <2>4. QED
    BY <2>1, <2>2, <2>3, Zenon
<1>10. result' = [k \in Key |-> IF k \in S THEN "success"
                                ELSE IF k \in T THEN "failed"
                                ELSE IF k \in K THEN "missing" ELSE result[k]]
  <2>1. \A k \in Key : k \in K /\ k \notin T => ResultOf(k, j) = "missing"
    BY <1>3 DEF ResultOf
  <2>2. \A k \in Key : k \in T /\ k \notin S => ResultOf(k, j) = "failed"
    BY <1>3, <1>4 DEF ResultOf
  <2>3. \A k \in Key : k \in S => ResultOf(k, j) = "success"
    OBVIOUS
  <2>4. result' = [k \in Key |-> IF k \in K THEN ResultOf(k, j) ELSE result[k]]
    BY DEF Finish
  <2> HIDE DEF K, S, T
  <2>5. QED
    BY <1>4, <2>1, <2>2, <2>3, <2>4
<1>11. \A k \in K : ~ Told[k]
  BY <1>4, <1>5 DEF Told
<1>12. \A k \in T : Place[k] # "nowhere"
  BY <1>4, <1>6 DEF Place
<1>13. K \in SUBSET Key /\ T \in SUBSET Key /\ S \in SUBSET Key
  BY <1>4
<1> HIDE DEF K, T, S
<1>14. Promise!Report(K, T, S)
  BY <1>4, <1>5, <1>7, <1>8, <1>9, <1>10, <1>11, <1>12 DEF Promise!Report, Promise!Delivered
<1>15. QED
  BY <1>13, <1>14

(* The steps KeyPromise does not see.                                      *)
LEMMA OtherStepsAreInvisible ==
  ASSUME IInv,
         \/ \E c \in Call : RefuseEmpty(c) \/ CallStep(c)
         \/ \E k \in Key : KeyStep(k)
         \/ \E j \in Job : StartListing(j)
         \/ Crash
         \/ UNCHANGED vars
  PROVE  UNCHANGED Promise!vars
<1> USE ShapeAssumption
<1>1. TypeOK /\ B!TypeOK
  BY DEF IInv, TypeOK
<1>2. CASE UNCHANGED <<dto, listed, result, notice, fate>>
  BY <1>2 DEF Promise!vars, Wanted, Place, Opened, Told, Asked, Issued, Moved, Open
<1>3. ASSUME NEW k \in Key, KeyMoves(k) PROVE UNCHANGED Promise!vars
  <2>1. {Transfer(k)} \in SUBSET Tx /\ B!Submit({Transfer(k)})
    BY <1>3, TxFacts DEF KeyMoves
  <2>2. UNCHANGED <<dto, listed, result, notice>>
    BY <1>3 DEF KeyMoves, KeyOnly
  <2>3. Place' = Place /\ Opened' = Opened
    BY <1>1, <2>1, <2>2, SubmitMaps, SameMaps
  <2>4. QED
    BY <2>2, <2>3 DEF Promise!vars, Wanted, Told, Asked
<1>4. ASSUME NEW k \in Key, Notify(k) PROVE UNCHANGED Promise!vars
  <2>1. UNCHANGED <<dto, listed, result, fate>>
    BY <1>4 DEF Notify
  <2>2. \A l \in Key : (notice[l] # "none")' = (notice[l] # "none")
    BY <1>1, <1>4 DEF Notify, TypeOK
  <2>3. Told' = Told
    BY <2>2, Zenon DEF Told
  <2>4. QED
    BY <2>1, <2>3 DEF Promise!vars, Wanted, Place, Opened, Asked, Issued, Moved, Open
<1>5. ASSUME NEW j \in Job, StartListing(j) PROVE UNCHANGED Promise!vars
  <2>1. {Listing(j)} \in SUBSET Tx /\ B!Submit({Listing(j)})
    BY <1>5, TxFacts DEF StartListing
  <2>2. UNCHANGED <<dto, result, notice>> /\ \A i \in Job : i # j => listed'[i] = listed[i]
    BY <1>1, <1>5 DEF StartListing, TypeOK
  <2>3. fate[Listing(j)] = "none"
    BY <1>1, <2>1, SubmitMaps
  <2>4. Place' = Place /\ Opened' = Opened
    BY <1>1, <2>1, <2>2, <2>3, SubmitMaps, SameMaps
  <2>5. QED
    BY <2>2, <2>4 DEF Promise!vars, Wanted, Told, Asked
<1>6. QED
  BY <1>2, <1>3, <1>4, <1>5
     DEF RefuseEmpty, CallStep, Respond, RespondLate, KeyStep, IssueFails, KeyStays, MoveEnds,
         KeyOnly, Crash, vars

(* The service implements KeyPromise, for any calls, jobs, keys and limit. *)
THEOREM Refinement == Spec => KeepsPromise
<1>1. ASSUME IInv, LinkInv, [Next]_vars PROVE [Promise!Next]_(Promise!vars)
  <2>1. ASSUME NEW c \in Call, Refuse(c) \/ Accept(c) PROVE Promise!Next
    BY <1>1, <2>1, RequestAsks DEF Promise!Next
  <2>2. ASSUME NEW j \in Job, Finish(j) PROVE Promise!Next
    BY <1>1, <2>2, FinishReports DEF Promise!Next
  <2>3. QED
    BY <1>1, <2>1, <2>2, ChainKeepsPromise, OtherStepsAreInvisible DEF Next, JobStep
<1>2. IInv /\ LinkInv /\ [Next]_vars => LinkInv'
  BY StepLinkInv
<1>3. QED
  BY <1>1, <1>2, InitLinkInv, InitPromise, Invariance, PTL DEF Spec, KeepsPromise, Promise!Spec

-----------------------------------------------------------------------------
(* Submitting some transactions, or none, is a step of Broadcast.          *)
LEMMA SubmitIsNext ==
  ASSUME B!TypeOK, NEW T, T \subseteq Tx, B!Submit(T)
  PROVE  [B!Next]_(B!vars)
<1>1. CASE T = {}
  BY <1>1 DEF B!Submit, B!TypeOK, B!vars
<1>2. CASE T # {}
  BY <1>2 DEF B!Next
<1>3. QED
  BY <1>1, <1>2

(* Every transaction goes through broadcast: what Broadcast_proofs says of *)
(* it - an id is that of a transaction in a block, an answer and a fate    *)
(* are final - is so for all transactions of this module.                  *)
THEOREM SendsByBroadcast == Spec => B!Spec
<1>1. ASSUME IInv, [Next]_vars PROVE [B!Next]_(B!vars)
  <2>1. TypeOK /\ B!TypeOK
    BY <1>1 DEF IInv, TypeOK
  <2>2. ASSUME NEW c \in Call, Accept(c) PROVE [B!Next]_(B!vars)
    <3>1. PICK K \in SUBSET Key : B!Submit({Issue(k) : k \in K})
      BY <2>1, <2>2, AcceptFacts
    <3>2. QED
      BY <2>1, <3>1, TxFacts, SubmitIsNext
  <2>3. ASSUME NEW k \in Key, KeyMoves(k) PROVE [B!Next]_(B!vars)
    BY <2>1, <2>3, TxFacts, SubmitIsNext DEF KeyMoves
  <2>4. ASSUME NEW j \in Job, StartListing(j) PROVE [B!Next]_(B!vars)
    BY <2>1, <2>4, TxFacts, SubmitIsNext DEF StartListing
  <2>5. CASE Chain
    BY <2>5 DEF Chain, B!Next
  <2>6. QED
    BY <1>1, <2>2, <2>3, <2>4, <2>5
       DEF Next, KeyStep, JobStep, CallStep, Refuse, RefuseEmpty, IssueFails, KeyStays, MoveEnds,
           Notify, Finish, Respond, RespondLate, Crash, vars, B!vars
<1>2. Init => B!Init
  BY DEF Init
<1>3. QED
  BY <1>1, <1>2, Invariance, PTL DEF Spec, B!Spec
=============================================================================

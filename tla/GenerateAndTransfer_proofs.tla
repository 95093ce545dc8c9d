---------------------- MODULE GenerateAndTransfer_proofs ----------------------
(***************************************************************************)
(* GenerateAndTransfer, for any calls, keys and limit.                     *)
(***************************************************************************)
EXTENDS GenerateAndTransfer, TLAPS

-----------------------------------------------------------------------------
(* Transactions of different kinds, keys or calls are different.           *)
LEMMA TxFacts ==
  /\ \A k \in Key : Issue(k) \in Tx /\ Transfer(k) \in Tx
  /\ \A c \in Call : Listing(c) \in Tx
  /\ \A k, l : Issue(k) # Transfer(l) /\ Issue(k) # Listing(l) /\ Transfer(k) # Listing(l)
  /\ \A k, l : /\ Issue(k) = Issue(l) => k = l
               /\ Transfer(k) = Transfer(l) => k = l
               /\ Listing(k) = Listing(l) => k = l
  BY DEF Tx, Issue, Transfer, Listing

(* A stage submits its transactions: no reply and no other fate changes.   *)
LEMMA SubmitFacts ==
  ASSUME B!TypeOK, B!OkMeansApplied, NEW T, T \subseteq Tx, B!Submit(T)
  PROVE  /\ B!TypeOK' /\ B!OkMeansApplied' /\ reply' = reply
         /\ \A t \in Tx : /\ t \notin T => fate'[t] = fate[t]
                          /\ fate[t] = "applied" => fate'[t] = "applied"
  BY DEF B!TypeOK, B!Submit, B!OkMeansApplied, B!Fates, B!Replies

(* The world outside settles one transaction, and takes nothing back.      *)
LEMMA ProgressFacts ==
  ASSUME B!TypeOK, B!OkMeansApplied, NEW u \in Tx, B!Progress(u)
  PROVE  /\ B!TypeOK' /\ B!OkMeansApplied'
         /\ \A t \in Tx : /\ fate[t] = "none" => fate'[t] = "none"
                          /\ fate[t] = "applied" => fate'[t] = "applied"
                          /\ reply[t] # "none" => reply'[t] = reply[t]
<1> USE DEF B!TypeOK, B!OkMeansApplied, B!Fates, B!Replies
<1>1. CASE B!Apply(u)
  BY <1>1 DEF B!Apply
<1>2. CASE B!Drop(u)
  BY <1>2 DEF B!Drop
<1>3. CASE B!Confirm(u)
  BY <1>3 DEF B!Confirm
<1>4. CASE B!Fail(u)
  BY <1>4 DEF B!Fail
<1>5. QED
  BY <1>1, <1>2, <1>3, <1>4 DEF B!Progress

(* The transactions of a stage are those of the call's keys.               *)
LEMMA StageTx ==
  ASSUME TypeOK, NEW c \in Call
  PROVE  /\ Issues(c) \subseteq Tx /\ Transfers(c) \subseteq Tx
         /\ \A k \in keys[c] : k \in Key /\ CallOf[k] = c
         /\ \A k \in Key : /\ Issue(k) \in Issues(c) => k \in keys[c]
                           /\ Transfer(k) \in Transfers(c) => k \in keys[c]
                           /\ Issue(k) \notin Transfers(c) /\ Transfer(k) \notin Issues(c)
         /\ \A x \in Call : Listing(x) \notin Issues(c) /\ Listing(x) \notin Transfers(c)
<1>1. \A k \in keys[c] : k \in Key /\ CallOf[k] = c
  BY DEF TypeOK, KeysOf
<1>2. Issues(c) \subseteq Tx /\ Transfers(c) \subseteq Tx
  BY <1>1, TxFacts DEF Issues, Transfers
<1>3. \A t \in Issues(c) : \E k \in keys[c] : t = Issue(k)
  BY DEF Issues
<1>4. \A t \in Transfers(c) : \E k \in keys[c] : t = Transfer(k)
  BY DEF Transfers
<1>5. QED
  BY <1>1, <1>2, <1>3, <1>4, TxFacts

-----------------------------------------------------------------------------
(* Nothing is submitted at the start.                                      *)
LEMMA InitIInv == Init => IInv
<1> SUFFICES ASSUME Init PROVE IInv
  OBVIOUS
<1>1. B!TypeOK /\ B!OkMeansApplied
  BY DEF Init, B!Init, B!TypeOK, B!OkMeansApplied, B!Fates, B!Replies
<1>2. \A t \in Tx : fate[t] = "none"
  BY DEF Init, B!Init
<1>3. \A c \in Call : keys[c] = {} /\ step[c] = "idle"
  BY DEF Init
<1>4. flag \in [Call -> BOOLEAN]
  BY Zenon DEF Init
<1>5. TypeOK
  BY <1>1, <1>3, <1>4 DEF Init, TypeOK
<1>6. \A c \in Call : \A k \in KeysOf(c) : fate[Issue(k)] = "none" /\ fate[Transfer(k)] = "none"
  BY <1>2, TxFacts DEF KeysOf
<1>7. \A c \in Call : ~flag[c]
  BY DEF Init
<1>8. \A c \in Call : CallInv(c)
  BY <1>2, <1>3, <1>6, <1>7, TxFacts DEF CallInv
<1>9. QED
  BY <1>1, <1>5, <1>8 DEF IInv

(* What the handler of one call does leaves the other calls alone.         *)
LEMMA OthersKeep ==
  ASSUME TypeOK, NEW c \in Call, NEW x \in Call, x # c, CallInv(x),
         keys'[x] = keys[x], step'[x] = step[x], flag'[x] = flag[x], reply' = reply,
         \A k \in Key : CallOf[k] # c => fate'[Issue(k)] = fate[Issue(k)]
                                         /\ fate'[Transfer(k)] = fate[Transfer(k)],
         fate'[Listing(x)] = fate[Listing(x)]
  PROVE  CallInv(x)'
<1>1. \A k \in KeysOf(x) : k \in Key /\ CallOf[k] # c
  BY DEF KeysOf
<1>2. \A k \in keys[x] : k \in KeysOf(x)
  BY DEF TypeOK
<1>3. \A k \in KeysOf(x) : fate'[Issue(k)] = fate[Issue(k)] /\ fate'[Transfer(k)] = fate[Transfer(k)]
  BY <1>1
<1>4. QED
  BY <1>2, <1>3 DEF CallInv

(* A step of a call's handler keeps what every stage stands on.            *)
LEMMA HandleIInv ==
  ASSUME IInv, NEW c \in Call, Start(c) \/ Handle(c) \/ Patch(c)
  PROVE  IInv'
<1>1. /\ TypeOK /\ B!TypeOK /\ B!OkMeansApplied /\ CallInv(c)
      /\ keys[c] \subseteq KeysOf(c) /\ \A k \in KeysOf(c) : k \in Key /\ CallOf[k] = c
      /\ Issues(c) \subseteq Tx /\ Transfers(c) \subseteq Tx
  BY StageTx DEF IInv, TypeOK, KeysOf
<1>2. /\ \A k \in Key : /\ Issue(k) \in Issues(c) => CallOf[k] = c
                        /\ Transfer(k) \in Transfers(c) => CallOf[k] = c
                        /\ Issue(k) \notin Transfers(c) /\ Transfer(k) \notin Issues(c)
      /\ \A x \in Call : Listing(x) \notin Issues(c) /\ Listing(x) \notin Transfers(c)
  BY <1>1, StageTx
<1>3. \A k \in Key, x \in Call : Issue(k) # Listing(x) /\ Transfer(k) # Listing(x)
  BY TxFacts
<1>4. \A x \in Call : x # c => Listing(x) # Listing(c)
  BY TxFacts
<1>5. /\ keys' \in [Call -> SUBSET Key] /\ keys'[c] \subseteq KeysOf(c)
      /\ step' \in [Call -> {"idle"} \cup Stages \cup Answers]
      /\ \A x \in Call : x # c => keys'[x] = keys[x] /\ step'[x] = step[x] /\ flag'[x] = flag[x]
  BY <1>1 DEF Start, Handle, Patch, FlagSet, FlagFails, IssuesEnd, ListingEnds, TransfersEnd,
              StageFails, GoTo, Stay, TypeOK, KeysOf, Stages, Answers
<1>6. flag' \in [Call -> BOOLEAN]
  BY <1>1 DEF Start, Handle, Patch, FlagSet, FlagFails, IssuesEnd, ListingEnds, TransfersEnd,
              StageFails, Stay, TypeOK
<1>7. ASSUME CallInv(c)', B!TypeOK', B!OkMeansApplied', reply' = reply,
             NEW T,
             \A k \in Key : CallOf[k] # c => Issue(k) \notin T /\ Transfer(k) \notin T,
             \A x \in Call : x # c => Listing(x) \notin T,
             \A t \in Tx : t \notin T => fate'[t] = fate[t]
      PROVE  IInv'
  <2>1. ASSUME NEW x \in Call, x # c PROVE CallInv(x)'
    <3>1. \A k \in Key : CallOf[k] # c => /\ fate'[Issue(k)] = fate[Issue(k)]
                                          /\ fate'[Transfer(k)] = fate[Transfer(k)]
      BY <1>7, TxFacts
    <3>2. fate'[Listing(x)] = fate[Listing(x)]
      BY <1>7, <2>1, TxFacts
    <3>3. CallInv(x)
      BY DEF IInv
    <3>4. QED
      BY <1>1, <1>5, <1>7, <2>1, <3>1, <3>2, <3>3, OthersKeep
  <2>2. TypeOK'
    BY <1>1, <1>5, <1>6, <1>7 DEF TypeOK
  <2>3. QED
    BY <1>7, <2>1, <2>2 DEF IInv
<1>8. CASE UNCHANGED <<fate, reply>>
  <2>1. B!TypeOK' /\ B!OkMeansApplied'
    BY <1>1, <1>8 DEF B!TypeOK, B!OkMeansApplied
  <2>2. CallInv(c)'
    <3>1. CASE Start(c)
      BY <1>1, <1>5, <1>8, <3>1 DEF Start, GoTo, CallInv, TypeOK
    <3>2. CASE FlagFails(c)
      BY <1>1, <1>8, <3>2 DEF FlagFails, GoTo, Stay, CallInv, TypeOK
    <3>3. CASE TransfersEnd(c)
      BY <1>1, <1>8, <3>3 DEF TransfersEnd, GoTo, Stay, AllSucceed, Transfers, CallInv, TypeOK
    <3>4. CASE StageFails(c)
      BY <1>1, <1>8, <3>4 DEF StageFails, GoTo, Stay, CallInv, TypeOK
    <3>5. CASE FlagSet(c) /\ UNCHANGED fate
      BY <1>1, <1>8, <3>5, TxFacts DEF FlagSet, GoTo, Stay, CallInv, TypeOK
    <3>6. CASE IssuesEnd(c)
      BY <1>1, <1>8, <3>6, TxFacts
         DEF IssuesEnd, GoTo, Stay, AllSucceed, Issues, CallInv, TypeOK
    <3>7. CASE ListingEnds(c)
      BY <1>1, <1>8, <3>7, TxFacts
         DEF ListingEnds, GoTo, Stay, AllSucceed, CallInv, TypeOK
    <3>8. CASE Patch(c)
      BY <1>1, <1>8, <3>8 DEF Patch, CallInv, TypeOK
    <3>9. QED
      BY <1>8, <3>1, <3>2, <3>3, <3>4, <3>5, <3>6, <3>7, <3>8 DEF Handle
  <2>3. reply' = reply /\ \A t \in Tx : t \notin {Listing(c)} => fate'[t] = fate[t]
    BY <1>8
  <2>4. QED
    BY <1>3, <1>4, <1>7, <2>1, <2>2, <2>3
<1>9. CASE FlagSet(c)
  <2>1. /\ B!TypeOK' /\ B!OkMeansApplied' /\ reply' = reply
        /\ \A t \in Tx : t \notin Issues(c) => fate'[t] = fate[t]
    BY <1>1, <1>9, SubmitFacts DEF FlagSet
  <2>2. \A k \in KeysOf(c) : fate'[Transfer(k)] = "none"
    <3>1. \A k \in KeysOf(c) : Transfer(k) \in Tx /\ Transfer(k) \notin Issues(c)
      BY <1>1, <1>2, TxFacts
    <3>2. \A k \in KeysOf(c) : fate[Transfer(k)] = "none"
      BY <1>1, <1>9 DEF FlagSet, CallInv
    <3>3. QED
      BY <2>1, <3>1, <3>2
  <2>3. fate'[Listing(c)] = "none"
    BY <1>1, <1>9, <2>1, StageTx, TxFacts DEF FlagSet, CallInv
  <2>4. step'[c] = "issuing" /\ flag'[c] /\ keys'[c] = keys[c]
    BY <1>1, <1>9 DEF FlagSet, GoTo, Stay, TypeOK
  <2>5. \A k \in KeysOf(c) : fate'[Issue(k)] # "none" => k \in keys[c]
    <3>1. \A k \in KeysOf(c) : Issue(k) \in Tx /\ fate[Issue(k)] = "none"
      BY <1>1, <1>9, TxFacts DEF FlagSet, CallInv
    <3>2. \A k \in KeysOf(c) : k \notin keys[c] => Issue(k) \notin Issues(c)
      BY <1>1, StageTx
    <3>3. QED
      BY <2>1, <3>1, <3>2
  <2>6. CallInv(c)'
    BY <1>1, <2>2, <2>3, <2>4, <2>5 DEF CallInv
  <2>7. QED
    BY <1>7, <1>2, <1>3, <1>4, <2>1, <2>6
<1>10. CASE IssuesEnd(c)
  <2>1. /\ B!TypeOK' /\ B!OkMeansApplied' /\ reply' = reply
        /\ \A t \in Tx : t \notin {Listing(c)} => fate'[t] = fate[t]
    BY <1>1, <1>10, SubmitFacts, TxFacts DEF IssuesEnd
  <2>2. \A k \in KeysOf(c) : fate'[Issue(k)] = fate[Issue(k)] /\ fate'[Transfer(k)] = "none"
    <3>1. \A k \in KeysOf(c) : /\ Issue(k) \in Tx /\ Issue(k) # Listing(c)
                               /\ Transfer(k) \in Tx /\ Transfer(k) # Listing(c)
      BY <1>1, TxFacts
    <3>2. \A k \in KeysOf(c) : fate[Transfer(k)] = "none"
      BY <1>1, <1>10 DEF IssuesEnd, CallInv
    <3>3. QED
      BY <2>1, <3>1, <3>2
  <2>3. \A k \in keys[c] : reply[Issue(k)] = "ok" /\ fate[Issue(k)] = "applied"
    BY <1>1, <1>10, TxFacts DEF IssuesEnd, AllSucceed, Issues, B!OkMeansApplied
  <2>4. step'[c] = "listing" /\ flag'[c] = flag[c] /\ flag[c] /\ keys'[c] = keys[c]
    BY <1>1, <1>10 DEF IssuesEnd, GoTo, Stay, CallInv, TypeOK
  <2>5. CallInv(c)'
    BY <1>1, <2>1, <2>2, <2>3, <2>4 DEF CallInv
  <2>6. QED
    BY <1>7, <1>2, <1>3, <1>4, <2>1, <2>5
<1>11. CASE ListingEnds(c)
  <2>1. /\ B!TypeOK' /\ B!OkMeansApplied' /\ reply' = reply
        /\ \A t \in Tx : t \notin Transfers(c) => fate'[t] = fate[t]
    BY <1>1, <1>11, SubmitFacts DEF ListingEnds
  <2>2. \A k \in KeysOf(c) : fate'[Issue(k)] = fate[Issue(k)]
    BY <1>1, <2>1, TxFacts DEF Transfers
  <2>3. /\ reply[Listing(c)] = "ok" /\ fate[Listing(c)] = "applied"
        /\ fate'[Listing(c)] = fate[Listing(c)]
    BY <1>1, <1>11, <2>1, TxFacts DEF ListingEnds, AllSucceed, Transfers, B!OkMeansApplied
  <2>4. \A k \in keys[c] : reply[Issue(k)] = "ok" /\ fate[Issue(k)] = "applied"
    BY <1>1, <1>11, TxFacts DEF ListingEnds, CallInv, B!OkMeansApplied
  <2>5. step'[c] = "moving" /\ flag'[c] = flag[c] /\ flag[c] /\ keys'[c] = keys[c]
    BY <1>1, <1>11 DEF ListingEnds, GoTo, Stay, CallInv, TypeOK
  <2>6. \A k \in KeysOf(c) : fate'[Transfer(k)] # "none" => k \in keys[c]
    <3>1. \A k \in KeysOf(c) : Transfer(k) \in Tx /\ fate[Transfer(k)] = "none"
      BY <1>1, <1>11, TxFacts DEF ListingEnds, CallInv
    <3>2. \A k \in KeysOf(c) : k \notin keys[c] => Transfer(k) \notin Transfers(c)
      BY <1>1, StageTx
    <3>3. QED
      BY <2>1, <3>1, <3>2
  <2>7. CallInv(c)'
    BY <1>1, <2>1, <2>2, <2>3, <2>4, <2>5, <2>6 DEF CallInv
  <2>8. QED
    BY <1>7, <1>2, <1>3, <1>4, <2>1, <2>7
<1>12. QED
  BY <1>8, <1>9, <1>10, <1>11 DEF Handle, Patch, Start, FlagFails, TransfersEnd, StageFails

(* Every step, of handlers, process and chain, keeps the invariant.        *)
LEMMA StepIInv == IInv /\ [Next]_vars => IInv'
<1> SUFFICES ASSUME IInv, [Next]_vars PROVE IInv'
  OBVIOUS
<1>1. TypeOK /\ B!TypeOK /\ B!OkMeansApplied
  BY DEF IInv, TypeOK
<1>2. CASE Crash
  <2>1. TypeOK' /\ B!OkMeansApplied'
    BY <1>1, <1>2 DEF Crash, Stay, TypeOK, Answers, Stages, B!TypeOK, B!OkMeansApplied
  <2>2. ASSUME NEW c \in Call PROVE CallInv(c)'
    <3>1. /\ step'[c] = "lost" \/ step'[c] = step[c]
          /\ flag'[c] = flag[c] /\ step[c] \in {"idle", "invalid"} => step'[c] = step[c]
      BY <1>2 DEF Crash, Stay, Stages
    <3>2. CallInv(c)
      BY DEF IInv
    <3>3. QED
      BY <1>2, <3>1, <3>2 DEF Crash, Stay, CallInv
  <2>3. QED
    BY <2>1, <2>2 DEF IInv
<1>3. CASE Chain
  <2>1. PICK u \in Tx : B!Progress(u)
    BY <1>3 DEF Chain
  <2>2. /\ B!TypeOK' /\ B!OkMeansApplied'
        /\ \A t \in Tx : /\ fate[t] = "none" => fate'[t] = "none"
                         /\ fate[t] = "applied" => fate'[t] = "applied"
                         /\ reply[t] # "none" => reply'[t] = reply[t]
    BY <1>1, <2>1, ProgressFacts
  <2>3. UNCHANGED <<keys, step, flag>>
    BY <1>3 DEF Chain, local
  <2>4. ASSUME NEW c \in Call PROVE CallInv(c)'
    <3>1. /\ \A k \in KeysOf(c) :
               /\ fate[Issue(k)] = "none" => fate'[Issue(k)] = "none"
               /\ fate[Transfer(k)] = "none" => fate'[Transfer(k)] = "none"
               /\ fate[Issue(k)] = "applied" => fate'[Issue(k)] = "applied"
               /\ reply[Issue(k)] = "ok" => reply'[Issue(k)] = "ok"
               /\ reply[Transfer(k)] = "ok" => reply'[Transfer(k)] = "ok"
          /\ fate[Listing(c)] = "none" => fate'[Listing(c)] = "none"
          /\ fate[Listing(c)] = "applied" => fate'[Listing(c)] = "applied"
          /\ reply[Listing(c)] = "ok" => reply'[Listing(c)] = "ok"
      BY <2>2, TxFacts DEF KeysOf
    <3>2. keys[c] \subseteq KeysOf(c) /\ CallInv(c)
      BY <1>1 DEF IInv, TypeOK
    <3>3. QED
      BY <2>3, <3>1, <3>2 DEF CallInv
  <2>5. QED
    BY <1>1, <2>2, <2>3, <2>4 DEF IInv, TypeOK
<1>4. CASE UNCHANGED vars
  BY <1>4 DEF vars, IInv, TypeOK, CallInv, B!TypeOK, B!OkMeansApplied
<1>5. QED
  BY <1>2, <1>3, <1>4, HandleIInv DEF Next

(* What each stage of a call stands on.                                    *)
THEOREM Invariance == Spec => []IInv
  BY InitIInv, StepIInv, PTL DEF Spec

-----------------------------------------------------------------------------
(* No key reaches a user before the whole batch is issued and whitelisted. *)
THEOREM NoPartialHandoverAlways == Spec => []NoPartialHandover
<1>1. IInv => NoPartialHandover
  BY DEF IInv, CallInv, NoPartialHandover, Applied, Issues
<1>2. QED
  BY <1>1, Invariance, PTL

(* The supplier knows of the handover before the chain does.               *)
THEOREM FlaggedFirstAlways == Spec => []FlaggedFirst
<1>1. IInv => FlaggedFirst
  BY DEF IInv, CallInv, FlaggedFirst
<1>2. QED
  BY <1>1, Invariance, PTL

(* A successful answer stands for a batch that is delivered.               *)
THEOREM OkMeansDeliveredAlways == Spec => []OkMeansDelivered
<1>1. IInv => OkMeansDelivered
  <2> SUFFICES ASSUME IInv, NEW c \in Call, step[c] = "ok"
               PROVE  flag[c] /\ Applied(Issues(c) \cup {Listing(c)} \cup Transfers(c))
    BY DEF OkMeansDelivered
  <2>1. /\ flag[c] /\ reply[Listing(c)] = "ok"
        /\ \A k \in keys[c] : reply[Issue(k)] = "ok" /\ reply[Transfer(k)] = "ok"
    BY DEF IInv, CallInv
  <2>2. \A t \in Issues(c) \cup {Listing(c)} \cup Transfers(c) : t \in Tx /\ reply[t] = "ok"
    BY <2>1, StageTx, TxFacts DEF IInv, Issues, Transfers
  <2>3. QED
    BY <2>1, <2>2 DEF IInv, B!OkMeansApplied, Applied
<1>2. QED
  BY <1>1, Invariance, PTL

(* Every variable keeps its type.                                          *)
THEOREM TypeCorrect == Spec => []TypeOK
<1>1. IInv => TypeOK
  BY DEF IInv
<1>2. QED
  BY <1>1, Invariance, PTL

-----------------------------------------------------------------------------
(* The refinement: what StagedPromise sees of createAndTransfer (lines 116 *)
(* to 131): the pieces wanted, those in place, and the answer.             *)
Want == [c \in Call |-> Wanted(c)]
Have == [c \in Call |-> InPlace(c)]
Told == [c \in Call |-> step[c] = "ok"]

(* The pieces of a call are its flag and its transactions; every one has   *)
(* its rank in the order.                                                  *)
LEMMA PieceFacts ==
  ASSUME TypeOK
  PROVE  /\ \A c \in Call : /\ Wanted(c) \subseteq Pieces /\ Flag(c) \notin Tx
                             /\ \A x \in Call : Flag(x) \in Wanted(c) => x = c
         /\ \A o, p \in Pieces : <<o, p>> \in HandoverOrder =>
              \/ p[1] = "issue" /\ \E x \in Call : o = Flag(x)
              \/ p[1] = "list" /\ \E k \in Key : o = Issue(k)
              \/ p[1] = "transfer" /\ \E x \in Call : o = Listing(x)
<1>1. ASSUME NEW c \in Call
      PROVE  /\ Wanted(c) \subseteq Pieces /\ Flag(c) \notin Tx
             /\ \A x \in Call : Flag(x) \in Wanted(c) => x = c
  <2>1. Issues(c) \subseteq Tx /\ Transfers(c) \subseteq Tx /\ Listing(c) \in Tx
    BY StageTx, TxFacts
  <2>2. \A x \in Call : /\ Flag(x) \notin Tx /\ Flag(x) \in {"flag"} \X Call
                        /\ Flag(x) = Flag(c) => x = c
    BY DEF Flag, Tx
  <2>3. QED
    BY <2>1, <2>2 DEF Wanted, Pieces
<1>2. ASSUME NEW o \in Pieces, NEW p \in Pieces, <<o, p>> \in HandoverOrder
      PROVE  \/ p[1] = "issue" /\ \E x \in Call : o = Flag(x)
             \/ p[1] = "list" /\ \E k \in Key : o = Issue(k)
             \/ p[1] = "transfer" /\ \E x \in Call : o = Listing(x)
  <2>1. <<o[1], p[1]>> \in {<<"flag", "issue">>, <<"issue", "list">>, <<"list", "transfer">>}
    BY <1>2 DEF HandoverOrder
  <2>2. o \in {"flag", "list"} \X Call \/ o \in {"issue", "transfer"} \X Key
    BY DEF Pieces, Tx
  <2>3. QED
    BY <2>1, <2>2 DEF Flag, Issue, Listing
<1>3. QED
  BY <1>1, <1>2

(* Nothing is asked for, in place or told at the start.                    *)
LEMMA InitPromise == Init => P!Init
<1> SUFFICES ASSUME Init PROVE P!Init
  OBVIOUS
<1>1. \A c \in Call : Wanted(c) = {}
  BY DEF Init, Wanted
<1>2. \A c \in Call : InPlace(c) = {}
  BY <1>1 DEF InPlace
<1>3. \A c \in Call : (step[c] = "ok") = FALSE
  BY DEF Init
<1>4. Want = [c \in Call |-> {}] /\ Have = [c \in Call |-> {}] /\ Told = [c \in Call |-> FALSE]
  BY <1>1, <1>2, <1>3, Zenon DEF Want, Have, Told
<1>5. QED
  BY <1>4, Zenon DEF P!Init, Want, Have, Told

(* What of a call the promise sees is the same when its keys, its flag,    *)
(* the stages it has begun and the blocks are the same.                    *)
LEMMA SameView ==
  ASSUME NEW c \in Call, TypeOK, keys'[c] = keys[c],
         step'[c] \in {"idle", "invalid"} <=> step[c] \in {"idle", "invalid"}
  PROVE  /\ Wanted(c)' = Wanted(c)
         /\ flag'[c] = flag[c] /\ (\A t \in Tx : fate'[t] = "applied" <=> fate[t] = "applied")
              => InPlace(c)' = InPlace(c)
<1>1. Wanted(c)' = Wanted(c)
  BY DEF Wanted, Issues, Transfers, Flag, Listing
<1>2. ASSUME flag'[c] = flag[c], \A t \in Tx : fate'[t] = "applied" <=> fate[t] = "applied"
      PROVE  InPlace(c)' = InPlace(c)
  <2>1. \A p \in Wanted(c) : p # Flag(c) => p \in Tx
    BY StageTx, TxFacts DEF Wanted
  <2>2. QED
    BY <1>1, <1>2, <2>1 DEF InPlace, Flag
<1>3. QED
  BY <1>1, <1>2

(* A call that is accepted is the promise's Ask; one that is refused is    *)
(* not seen.                                                               *)
LEMMA StartAsks ==
  ASSUME IInv, NEW c \in Call, Start(c)
  PROVE  P!Ask(c) \/ UNCHANGED P!vars
<1>1. /\ TypeOK /\ CallInv(c) /\ step[c] = "idle" /\ UNCHANGED <<flag, fate, reply>>
      /\ step'[c] \in {"invalid", "flagging"} /\ keys'[c] \subseteq KeysOf(c)
      /\ \A x \in Call : x # c => keys'[x] = keys[x] /\ step'[x] = step[x]
  BY DEF IInv, Start, GoTo, TypeOK
<1>2. \A x \in Call : x # c => Wanted(x)' = Wanted(x) /\ InPlace(x)' = InPlace(x)
  BY <1>1, SameView
<1>3. Wanted(c) = {} /\ InPlace(c) = {}
  BY <1>1 DEF Wanted, InPlace
<1>4. InPlace(c)' = {}
  <2>1. ~flag[c] /\ fate[Listing(c)] = "none"
    BY <1>1 DEF CallInv
  <2>2. \A k \in keys'[c] : fate[Issue(k)] = "none" /\ fate[Transfer(k)] = "none"
    BY <1>1 DEF CallInv
  <2>3. \A p \in Wanted(c)' : p = Flag(c) \/ fate[p] = "none"
    BY <2>1, <2>2 DEF Wanted, Issues, Transfers, Flag, Listing
  <2>4. QED
    BY <1>1, <2>1, <2>3 DEF InPlace, Flag
<1>5. Have' = Have
  BY <1>2, <1>3, <1>4, Zenon DEF Have
<1>6. Told' = Told
  <2>1. \A x \in Call : (step'[x] = "ok") = (step[x] = "ok")
    BY <1>1
  <2>2. QED
    BY <2>1, Zenon DEF Told
<1>7. CASE step'[c] = "invalid"
  <2>1. \A x \in Call : Wanted(x)' = Wanted(x)
    BY <1>2, <1>3, <1>7 DEF Wanted
  <2>2. QED
    BY <1>5, <1>6, <2>1, Zenon DEF P!vars, Want, Have, Told
<1>8. CASE step'[c] = "flagging"
  <2>1. Wanted(c)' \subseteq Pieces /\ Wanted(c)' # {}
    <3>1. Issues(c)' \subseteq Tx /\ Transfers(c)' \subseteq Tx
      <4>1. \A k \in keys'[c] : k \in Key
        BY <1>1 DEF KeysOf
      <4>2. QED
        BY <4>1, TxFacts DEF Issues, Transfers
    <3>2. Flag(c) \in Pieces /\ Listing(c) \in Tx
      BY TxFacts DEF Flag, Pieces
    <3>3. Wanted(c)' = Issues(c)' \cup Transfers(c)' \cup {Flag(c), Listing(c)}
      BY <1>8 DEF Wanted, Flag, Listing
    <3>4. QED
      BY <3>1, <3>2, <3>3 DEF Pieces
  <2>2. Want' = [Want EXCEPT ![c] = Wanted(c)']
    BY <1>2 DEF Want
  <2>3. QED
    BY <1>3, <1>5, <1>6, <2>1, <2>2 DEF P!Ask, Want, Have, Told
<1>9. QED
  BY <1>1, <1>7, <1>8

(* One more piece of one call in place is one more in what the promise     *)
(* sees.                                                                   *)
LEMMA OneMore ==
  ASSUME NEW c \in Call, NEW p, InPlace(c)' = InPlace(c) \cup {p},
         \A x \in Call : x # c => InPlace(x)' = InPlace(x)
  PROVE  Have' = [Have EXCEPT ![c] = Have[c] \cup {p}]
<1>1. \A x \in Call : InPlace(x)' = IF x = c THEN Have[c] \cup {p} ELSE Have[x]
  BY DEF Have
<1>2. QED
  BY <1>1 DEF Have

(* A key and a call have their transactions among the wanted of no other   *)
(* call.                                                                   *)
LEMMA WantedFacts ==
  ASSUME TypeOK, NEW c \in Call
  PROVE  /\ \A k \in Key : Issue(k) \in Wanted(c) => k \in keys[c] /\ CallOf[k] = c
         /\ \A k \in Key : Transfer(k) \in Wanted(c) => k \in keys[c] /\ CallOf[k] = c
         /\ \A x \in Call : Listing(x) \in Wanted(c) => x = c
<1>1. /\ \A k \in Key : Issue(k) # Flag(c) /\ Transfer(k) # Flag(c)
      /\ \A x \in Call : Listing(x) # Flag(c)
  BY DEF Issue, Transfer, Listing, Flag
<1>2. QED
  BY <1>1, StageTx, TxFacts DEF Wanted

(* A transaction that is on its way is wanted by one call, and what comes  *)
(* before it in the order is in place.                                     *)
LEMMA Owner ==
  ASSUME IInv, NEW u \in Tx, fate[u] # "none"
  PROVE  \E c \in Call :
           /\ u \in Wanted(c)
           /\ \A x \in Call : x # c => u \notin Wanted(x)
           /\ \A o \in Wanted(c) : <<o, u>> \in HandoverOrder => o \in InPlace(c)
<1>1. TypeOK /\ \A c \in Call : CallInv(c)
  BY DEF IInv
<1>2. \A o, p \in Pieces : <<o, p>> \in HandoverOrder =>
              \/ p[1] = "issue" /\ \E x \in Call : o = Flag(x)
              \/ p[1] = "list" /\ \E k \in Key : o = Issue(k)
              \/ p[1] = "transfer" /\ \E x \in Call : o = Listing(x)
  BY <1>1, PieceFacts
<1>3. \A c \in Call : Wanted(c) \subseteq Pieces
  BY <1>1, PieceFacts
<1>4. u \in Pieces
  BY DEF Pieces
<1>5. ASSUME NEW k \in Key, u = Issue(k)
      PROVE  /\ CallOf[k] \in Call /\ u \in Wanted(CallOf[k])
             /\ \A x \in Call : x # CallOf[k] => u \notin Wanted(x)
             /\ \A o \in Wanted(CallOf[k]) : <<o, u>> \in HandoverOrder => o \in InPlace(CallOf[k])
  <2> DEFINE c == CallOf[k]
  <2>1. c \in Call /\ k \in KeysOf(c)
    BY CallAssumption DEF KeysOf
  <2>2. flag[c] /\ k \in keys[c] /\ step[c] \notin {"idle", "invalid"}
    BY <1>1, <1>5, <2>1 DEF CallInv
  <2>3. u \in Wanted(c)
    BY <1>5, <2>2 DEF Wanted, Issues
  <2>4. \A x \in Call : x # c => u \notin Wanted(x)
    BY <1>1, <1>5, WantedFacts
  <2>5. ASSUME NEW o \in Wanted(c), <<o, u>> \in HandoverOrder PROVE o \in InPlace(c)
    <3>1. u[1] = "issue"
      BY <1>5 DEF Issue
    <3>2. PICK x \in Call : o = Flag(x)
      BY <1>2, <1>3, <1>4, <2>1, <2>5, <3>1
    <3>3. x = c
      BY <1>1, <2>1, <2>5, <3>2, PieceFacts
    <3>4. QED
      BY <2>2, <2>5, <3>2, <3>3 DEF InPlace
  <2>6. QED
    BY <2>1, <2>3, <2>4, <2>5
<1>6. ASSUME NEW c \in Call, u = Listing(c)
      PROVE  /\ u \in Wanted(c)
             /\ \A x \in Call : x # c => u \notin Wanted(x)
             /\ \A o \in Wanted(c) : <<o, u>> \in HandoverOrder => o \in InPlace(c)
  <2>1. step[c] \notin {"idle", "invalid"} /\ \A k \in keys[c] : fate[Issue(k)] = "applied"
    BY <1>1, <1>6 DEF CallInv
  <2>2. u \in Wanted(c)
    BY <1>6, <2>1 DEF Wanted
  <2>3. \A x \in Call : x # c => u \notin Wanted(x)
    BY <1>1, <1>6, WantedFacts
  <2>4. ASSUME NEW o \in Wanted(c), <<o, u>> \in HandoverOrder PROVE o \in InPlace(c)
    <3>1. u[1] = "list"
      BY <1>6 DEF Listing
    <3>2. PICK k \in Key : o = Issue(k)
      BY <1>2, <1>3, <1>4, <2>4, <3>1
    <3>3. k \in keys[c] /\ o # Flag(c)
      BY <1>1, <2>4, <3>2, WantedFacts DEF Issue, Flag
    <3>4. QED
      BY <2>1, <2>4, <3>2, <3>3 DEF InPlace
  <2>5. QED
    BY <2>2, <2>3, <2>4
<1>7. ASSUME NEW k \in Key, u = Transfer(k)
      PROVE  /\ CallOf[k] \in Call /\ u \in Wanted(CallOf[k])
             /\ \A x \in Call : x # CallOf[k] => u \notin Wanted(x)
             /\ \A o \in Wanted(CallOf[k]) : <<o, u>> \in HandoverOrder => o \in InPlace(CallOf[k])
  <2> DEFINE c == CallOf[k]
  <2>1. c \in Call /\ k \in KeysOf(c)
    BY CallAssumption DEF KeysOf
  <2>2. k \in keys[c] /\ step[c] \notin {"idle", "invalid"} /\ fate[Listing(c)] = "applied"
    BY <1>1, <1>7, <2>1 DEF CallInv
  <2>3. u \in Wanted(c)
    BY <1>7, <2>2 DEF Wanted, Transfers
  <2>4. \A x \in Call : x # c => u \notin Wanted(x)
    BY <1>1, <1>7, WantedFacts
  <2>5. ASSUME NEW o \in Wanted(c), <<o, u>> \in HandoverOrder PROVE o \in InPlace(c)
    <3>1. u[1] = "transfer"
      BY <1>7 DEF Transfer
    <3>2. PICK x \in Call : o = Listing(x)
      BY <1>2, <1>3, <1>4, <2>1, <2>5, <3>1
    <3>3. x = c /\ o # Flag(c)
      BY <1>1, <2>1, <2>5, <3>2, WantedFacts DEF Listing, Flag
    <3>4. QED
      BY <2>2, <2>5, <3>2, <3>3 DEF InPlace
  <2>6. QED
    BY <2>1, <2>3, <2>4, <2>5
<1>8. \/ \E k \in Key : u = Issue(k) \/ u = Transfer(k)
      \/ \E c \in Call : u = Listing(c)
  BY DEF Tx, Issue, Transfer, Listing
<1>9. QED
  BY <1>5, <1>6, <1>7, <1>8

(* A transaction that gets into a block is the promise's Arrive.           *)
LEMMA ApplyArrives ==
  ASSUME IInv, NEW u \in Tx, B!Apply(u), UNCHANGED local
  PROVE  \E c \in Call : P!Arrive(c, u)
<1>1. /\ TypeOK /\ B!TypeOK /\ UNCHANGED <<keys, step, flag>>
      /\ fate[u] = "sent" /\ fate'[u] = "applied" /\ \A t \in Tx : t # u => fate'[t] = fate[t]
  BY DEF IInv, TypeOK, local, B!Apply, B!TypeOK
<1>2. PICK c \in Call : /\ u \in Wanted(c)
                        /\ \A x \in Call : x # c => u \notin Wanted(x)
                        /\ \A o \in Wanted(c) : <<o, u>> \in HandoverOrder => o \in InPlace(c)
  BY <1>1, Owner
<1>3. /\ \A x \in Call : Wanted(x)' = Wanted(x)
      /\ \A x \in Call : \A p \in Wanted(x) : p # Flag(x) => p \in Tx
      /\ \A x \in Call : u # Flag(x)
  <2>1. \A x \in Call : Wanted(x)' = Wanted(x)
    BY <1>1, SameView
  <2>2. \A x \in Call : \A p \in Wanted(x) : p # Flag(x) => p \in Tx
    BY <1>1, StageTx, TxFacts DEF Wanted
  <2>3. \A x \in Call : u # Flag(x)
    BY <1>1, PieceFacts
  <2>4. QED
    BY <2>1, <2>2, <2>3
<1>4. \A x \in Call : x # c => InPlace(x)' = InPlace(x)
  BY <1>1, <1>2, <1>3 DEF InPlace, Flag
<1>5. InPlace(c)' = InPlace(c) \cup {u} /\ u \notin InPlace(c)
  BY <1>1, <1>2, <1>3 DEF InPlace, Flag
<1>6. Have' = [Have EXCEPT ![c] = Have[c] \cup {u}]
  BY <1>4, <1>5, OneMore
<1>7. Want' = Want /\ Told' = Told
  BY <1>1, <1>3 DEF Want, Told
<1>8. /\ u \in Want[c] \ Have[c]
      /\ \A o \in Want[c] : <<o, u>> \in HandoverOrder => o \in Have[c]
  BY <1>2, <1>5 DEF Want, Have
<1>9. QED
  BY <1>6, <1>7, <1>8 DEF P!Arrive, Want, Have, Told

(* So is the PATCH that reaches the supplier.                              *)
LEMMA PatchArrives ==
  ASSUME IInv, NEW c \in Call, Patch(c)
  PROVE  P!Arrive(c, Flag(c))
<1>1. /\ TypeOK /\ UNCHANGED <<keys, step, fate, reply>> /\ ~flag[c] /\ flag'[c]
      /\ step[c] \notin {"idle", "invalid"} /\ \A x \in Call : x # c => flag'[x] = flag[x]
  BY DEF IInv, TypeOK, Patch
<1>2. \A x \in Call : Wanted(x)' = Wanted(x)
  BY <1>1, SameView
<1>3. \A x \in Call : x # c => InPlace(x)' = InPlace(x)
  BY <1>1, SameView
<1>4. Flag(c) \in Wanted(c)
  BY <1>1 DEF Wanted
<1>5. InPlace(c)' = InPlace(c) \cup {Flag(c)} /\ Flag(c) \notin InPlace(c)
  BY <1>1, <1>2, <1>4 DEF InPlace, Flag
<1>6. Have' = [Have EXCEPT ![c] = Have[c] \cup {Flag(c)}]
  BY <1>3, <1>5, OneMore
<1>7. Want' = Want /\ Told' = Told
  BY <1>1, <1>2 DEF Want, Told
<1>8. \A o \in Want[c] : <<o, Flag(c)>> \notin HandoverOrder
  BY DEF HandoverOrder, Flag
<1>9. Flag(c) \in Want[c] \ Have[c]
  BY <1>4, <1>5 DEF Want, Have
<1>10. QED
  BY <1>6, <1>7, <1>8, <1>9 DEF P!Arrive, Want, Have, Told

(* The answer is told when nothing is missing: the keys were issued, the   *)
(* list accepted, and the last transfer has been confirmed.                *)
LEMMA TransfersEndTells ==
  ASSUME IInv, NEW c \in Call, TransfersEnd(c)
  PROVE  P!Tell(c)
<1>1. /\ TypeOK /\ CallInv(c) /\ B!OkMeansApplied /\ UNCHANGED <<keys, flag, fate, reply>>
      /\ step[c] = "moving" /\ step'[c] = "ok" /\ AllSucceed(Transfers(c))
      /\ \A x \in Call : x # c => step'[x] = step[x]
  BY DEF IInv, TypeOK, TransfersEnd, GoTo, Stay
<1>2. /\ flag[c] /\ reply[Listing(c)] = "ok"
      /\ \A k \in keys[c] : reply[Issue(k)] = "ok" /\ reply[Transfer(k)] = "ok"
  BY <1>1 DEF CallInv, AllSucceed, Transfers
<1>3. \A t \in Issues(c) \cup {Listing(c)} \cup Transfers(c) : t \in Tx /\ reply[t] = "ok"
  BY <1>1, <1>2, StageTx, TxFacts DEF Issues, Transfers
<1>4. \A t \in Wanted(c) : t # Flag(c) => fate[t] = "applied"
  BY <1>1, <1>3 DEF Wanted, B!OkMeansApplied
<1>5. InPlace(c) = Wanted(c) /\ Wanted(c) # {}
  BY <1>1, <1>2, <1>4 DEF InPlace, Wanted
<1>6. \A x \in Call : Wanted(x)' = Wanted(x) /\ InPlace(x)' = InPlace(x)
  BY <1>1, SameView
<1>7. Told' = [Told EXCEPT ![c] = TRUE]
  <2>1. \A x \in Call : (step'[x] = "ok") = (IF x = c THEN TRUE ELSE Told[x])
    BY <1>1 DEF Told
  <2>2. Told' = [x \in Call |-> IF x = c THEN TRUE ELSE Told[x]]
    BY <2>1, Zenon DEF Told
  <2>3. [Told EXCEPT ![c] = TRUE] = [x \in Call |-> IF x = c THEN TRUE ELSE Told[x]]
    BY DEF Told
  <2>4. QED
    BY <2>2, <2>3
<1>8. Want' = Want /\ Have' = Have /\ Want[c] # {} /\ Have[c] = Want[c]
  BY <1>5, <1>6 DEF Want, Have
<1>9. QED
  BY <1>7, <1>8 DEF P!Tell, Want, Have, Told

(* Submitting, an outcome, an error and a restart are not seen: they move  *)
(* no piece and tell no success.                                           *)
LEMMA OthersAreUnseen ==
  ASSUME IInv,
         \/ \E c \in Call : \/ FlagSet(c) \/ FlagFails(c) \/ IssuesEnd(c) \/ ListingEnds(c)
                            \/ StageFails(c)
         \/ \E u \in Tx : (B!Drop(u) \/ B!Confirm(u) \/ B!Fail(u)) /\ UNCHANGED local
         \/ Crash
         \/ UNCHANGED vars
  PROVE  UNCHANGED P!vars
<1>1. TypeOK /\ B!TypeOK /\ B!OkMeansApplied
  BY DEF IInv, TypeOK
<1>2. UNCHANGED <<keys, flag>>
  BY DEF FlagSet, FlagFails, IssuesEnd, ListingEnds, StageFails, Stay, Crash, local, vars
<1>3. \A x \in Call : /\ step'[x] \in {"idle", "invalid"} <=> step[x] \in {"idle", "invalid"}
                      /\ step'[x] = "ok" <=> step[x] = "ok"
  BY <1>1 DEF TypeOK, FlagSet, FlagFails, IssuesEnd, ListingEnds, StageFails, GoTo, Crash, Stages,
              local, vars
<1>4. \A t \in Tx : fate'[t] = "applied" <=> fate[t] = "applied"
  <2>1. ASSUME NEW T, T \subseteq Tx, B!Submit(T)
        PROVE  \A t \in Tx : fate'[t] = "applied" <=> fate[t] = "applied"
    BY <1>1, <2>1 DEF B!Submit, B!TypeOK
  <2>2. ASSUME NEW c \in Call, FlagSet(c) \/ IssuesEnd(c) \/ ListingEnds(c)
        PROVE  \E T \in SUBSET Tx : B!Submit(T)
    BY <1>1, <2>2, StageTx, TxFacts DEF FlagSet, IssuesEnd, ListingEnds
  <2>3. ASSUME NEW u \in Tx, B!Drop(u) \/ B!Confirm(u) \/ B!Fail(u)
        PROVE  \A t \in Tx : fate'[t] = "applied" <=> fate[t] = "applied"
    BY <1>1, <2>3 DEF B!Drop, B!Confirm, B!Fail, B!TypeOK
  <2>4. CASE UNCHANGED fate
    BY <2>4
  <2>5. QED
    BY <2>1, <2>2, <2>3, <2>4 DEF FlagFails, StageFails, Crash, vars
<1>5. \A x \in Call : Wanted(x)' = Wanted(x) /\ InPlace(x)' = InPlace(x)
  BY <1>1, <1>2, <1>3, <1>4, SameView
<1>6. Want' = Want /\ Have' = Have
  BY <1>5 DEF Want, Have
<1>7. Told' = Told
  <2>1. \A x \in Call : (step'[x] = "ok") = (step[x] = "ok")
    BY <1>3
  <2>2. QED
    BY <2>1, Zenon DEF Told
<1>8. QED
  BY <1>6, <1>7, Zenon DEF P!vars, Want, Have, Told

(* createAndTransfer implements StagedPromise, for any calls, keys and     *)
(* limit.                                                                  *)
THEOREM Refinement == Spec => KeepsPromise
<1>1. ASSUME IInv, [Next]_vars PROVE [P!Next]_(P!vars)
  <2>1. ASSUME NEW c \in Call, Start(c) PROVE [P!Next]_(P!vars)
    BY <1>1, <2>1, StartAsks DEF P!Next
  <2>2. ASSUME NEW c \in Call, Patch(c) PROVE P!Next
    <3>1. Flag(c) \in Pieces
      BY DEF Flag, Pieces
    <3>2. QED
      BY <1>1, <2>2, <3>1, PatchArrives DEF P!Next
  <2>3. ASSUME NEW u \in Tx, B!Apply(u), UNCHANGED local PROVE P!Next
    BY <1>1, <2>3, ApplyArrives DEF P!Next, Pieces
  <2>4. ASSUME NEW c \in Call, TransfersEnd(c) PROVE P!Next
    BY <1>1, <2>4, TransfersEndTells DEF P!Next
  <2>5. QED
    BY <1>1, <2>1, <2>2, <2>3, <2>4, OthersAreUnseen DEF Next, Handle, Chain, B!Progress
<1>2. QED
  BY <1>1, InitPromise, Invariance, PTL DEF Spec, KeepsPromise, P!Spec

-----------------------------------------------------------------------------
(* Submitting some transactions, or none, is a step of Broadcast.          *)
LEMMA SubmitIsNext ==
  ASSUME B!TypeOK, NEW T, T \subseteq Tx, B!Submit(T)
  PROVE  [B!Next]_(B!vars)
<1>1. CASE T = {}
  BY <1>1 DEF B!Submit, B!TypeOK, B!vars
<1>2. CASE T # {}
  BY <1>2 DEF B!Next
<1>3. QED
  BY <1>1, <1>2

(* Every transaction goes through broadcast: what Broadcast_proofs says of *)
(* it - an id is that of a transaction in a block, an answer and a fate    *)
(* are final - is so for all transactions of this module.                  *)
THEOREM SendsByBroadcast == Spec => B!Spec
<1>1. ASSUME IInv, [Next]_vars PROVE [B!Next]_(B!vars)
  <2>1. TypeOK /\ B!TypeOK
    BY <1>1 DEF IInv, TypeOK
  <2>2. ASSUME NEW c \in Call, FlagSet(c) \/ IssuesEnd(c) \/ ListingEnds(c)
        PROVE  [B!Next]_(B!vars)
    <3>1. \E T \in SUBSET Tx : B!Submit(T)
      BY <2>1, <2>2, StageTx, TxFacts DEF FlagSet, IssuesEnd, ListingEnds
    <3>2. QED
      BY <2>1, <3>1, SubmitIsNext
  <2>3. ASSUME NEW u \in Tx, B!Progress(u) PROVE B!Next
    BY <2>3 DEF B!Next
  <2>4. QED
    BY <1>1, <2>2, <2>3
       DEF Next, Handle, Chain, Start, Patch, FlagFails, TransfersEnd, StageFails, Crash, vars, B!vars
<1>2. Init => B!Init
  BY DEF Init
<1>3. QED
  BY <1>1, <1>2, Invariance, PTL DEF Spec, B!Spec
=============================================================================

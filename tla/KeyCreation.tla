----------------------------- MODULE KeyCreation -----------------------------
(***************************************************************************)
(* KeysService.create and KeysService.createForMultipleDevices: keys are   *)
(* issued on the blockchain, moved to a recipient, whitelisted on their    *)
(* device and announced to the supplier.                                   *)
(*                                                                         *)
(* A Call is an HTTP request: POST /keys, or POST /keys/multi when it is   *)
(* in Multi.  A Job is one call of create(), a Key one iteration of its    *)
(* Promise.all over createKey.  CallOf and JobOf say which belongs to      *)
(* which; a call asks for a non-empty subset of the keys of its jobs.      *)
(***************************************************************************)
EXTENDS Naturals, FiniteSets

CONSTANTS Call, Multi, Job, Key, CallOf, JobOf,
          KeyLimit   \* maxAmount of validateKeyLimit and @Max of CreateKeyDto: 80

ASSUME ShapeAssumption ==
  /\ Multi \subseteq Call
  /\ CallOf \in [Job -> Call]
  /\ JobOf \in [Key -> Job]
  /\ KeyLimit \in Nat
  /\ \A c \in Call \ Multi : \E j \in Job : \A i \in Job : CallOf[i] = c <=> i = j

(* The body of a request is finite.                                        *)
ASSUME BodyAssumption == \A c \in Call : IsFiniteSet({k \in Key : CallOf[JobOf[k]] = c})

VARIABLES
  dto,      \* what the client asked of each job
  answer,   \* the HTTP answer of each call
  job,      \* where each create() is
  key,      \* where each createKey() is, and then what it returned
  listed,   \* the assetIds passed to addNKeysToDevice
  result,   \* what the value returned by create() says of each key
  notice,   \* the message to the supplier about each key
  fate, reply   \* the transactions, see Broadcast

server == <<dto, answer, job, key, listed, result, notice>>
vars == <<dto, answer, job, key, listed, result, notice, fate, reply>>

Issue(k)    == <<"issue", k>>
Transfer(k) == <<"transfer", k>>
Listing(j)  == <<"list", j>>
Tx == ({"issue", "transfer"} \X Key) \cup ({"list"} \X Job)

B == INSTANCE Broadcast

JobsOf(c) == {j \in Job : CallOf[j] = c}
KeysOf(j) == {k \in Key : JobOf[k] = j}

(* validTo as validateTimestamp sees it: refused, accepted, or accepted    *)
(* first and refused a moment later, when create() checks it again.        *)
Validity   == {"past", "edge", "ample"}
(* "dapp" also stands for a request without recipient.                     *)
Recipients == {"dapp", "user"}
Dto == [keys : SUBSET Key, recipient : Recipients, validTo : Validity]
NoDto == [keys |-> {}, recipient |-> "dapp", validTo |-> "ample"]

Answers == {"idle", "pending", "created", "nothing", "invalid", "error", "lost"}
Returned == {"created", "stranded", "missing"}

TypeOK ==
  /\ dto \in [Job -> Dto]
  /\ \A j \in Job : dto[j].keys \subseteq KeysOf(j)
  /\ answer \in [Call -> Answers]
  /\ job \in [Job -> {"idle", "creating", "listing", "done", "rejected", "lost"}]
  /\ key \in [Key -> {"idle", "issuing", "moving"} \cup Returned]
  /\ listed \in [Job -> SUBSET Key]
  /\ result \in [Key -> {"none", "success", "failed", "missing"}]
  /\ notice \in [Key -> {"none", "posted", "accepted", "failed"}]
  /\ B!TypeOK

Init ==
  /\ dto = [j \in Job |-> NoDto]
  /\ answer = [c \in Call |-> "idle"]
  /\ job = [j \in Job |-> "idle"]
  /\ key = [k \in Key |-> "idle"]
  /\ listed = [j \in Job |-> {}]
  /\ result = [k \in Key |-> "none"]
  /\ notice = [k \in Key |-> "none"]
  /\ B!Init

-----------------------------------------------------------------------------
(* A request arrives.  Its validation, and everything up to the first      *)
(* await of each create(), is one synchronous piece of code.               *)

Requests(c) ==
  {d \in [JobsOf(c) -> Dto] :
     \A j \in JobsOf(c) : d[j].keys # {} /\ d[j].keys \subseteq KeysOf(j)}

(* Faulty: only the first request counts.                                  *)
FirstAmount(d) == Cardinality(d[CHOOSE j \in DOMAIN d : TRUE].keys)

Amount(d) == Cardinality(UNION {d[j].keys : j \in DOMAIN d})

(* Faulty: the timestamps are left to create().                            *)
ValidAmount(d) == Amount(d) <= KeyLimit

(* validateTimestamp of every job first, then the limit on the sum.        *)
Valid(d) ==
  /\ \A j \in DOMAIN d : d[j].validTo # "past"
  /\ Amount(d) <= KeyLimit

RecordDto(d) == dto' = [j \in Job |-> IF j \in DOMAIN d THEN d[j] ELSE dto[j]]

Refuse(c) ==
  /\ answer[c] = "idle"
  /\ JobsOf(c) # {}
  /\ \E d \in Requests(c) : ~ Valid(d) /\ RecordDto(d)
  /\ answer' = [answer EXCEPT ![c] = "invalid"]
  /\ UNCHANGED <<job, key, listed, result, notice, fate, reply>>

(* `requests: []` passes the DTO validation; the sum over no requests      *)
(* (reduce without an initial value) throws a TypeError.                   *)
RefuseEmpty(c) ==
  /\ answer[c] = "idle"
  /\ JobsOf(c) = {}
  /\ answer' = [answer EXCEPT ![c] = "error"]
  /\ UNCHANGED <<dto, job, key, listed, result, notice, fate, reply>>

(* Under createForMultipleDevices, create() validates validTo a second     *)
(* time, after the first jobs have started.                                *)
MayBeLate(c, d) == {j \in JobsOf(c) : c \in Multi /\ d[j].validTo # "ample"}

(* Every create() of the call starts and broadcasts its issue              *)
(* transactions, but for those that reject: the jobs in `late`.            *)
Accept(c) ==
  /\ answer[c] = "idle"
  /\ JobsOf(c) # {}
  /\ \E d \in Requests(c) :
       \E late \in SUBSET MayBeLate(c, d) :
         LET started == UNION {d[j].keys : j \in JobsOf(c) \ late} IN
         /\ Valid(d)
         /\ RecordDto(d)
         /\ job' = [j \in Job |-> IF j \in late THEN "rejected"
                                  ELSE IF CallOf[j] = c THEN "creating" ELSE job[j]]
         /\ key' = [k \in Key |-> IF k \in started THEN "issuing" ELSE key[k]]
         /\ B!Submit({Issue(k) : k \in started})
  /\ answer' = [answer EXCEPT ![c] = "pending"]
  /\ UNCHANGED <<listed, result, notice>>

-----------------------------------------------------------------------------
(* createKey: issue, then transfer unless the key stays on the dApp.       *)

Return(k, value) == key' = [key EXCEPT ![k] = value]
At(k, step) == job[JobOf[k]] = "creating" /\ key[k] = step
KeyOnly == UNCHANGED <<dto, answer, job, listed, result, notice>>

IssueFails(k) ==
  /\ At(k, "issuing") /\ reply[Issue(k)] = "err"
  /\ Return(k, "missing")
  /\ KeyOnly /\ UNCHANGED <<fate, reply>>

KeyStays(k) ==
  /\ At(k, "issuing") /\ reply[Issue(k)] = "ok"
  /\ dto[JobOf[k]].recipient = "dapp"
  /\ Return(k, "created")
  /\ KeyOnly /\ UNCHANGED <<fate, reply>>

KeyMoves(k) ==
  /\ At(k, "issuing") /\ reply[Issue(k)] = "ok"
  /\ dto[JobOf[k]].recipient # "dapp"
  /\ key' = [key EXCEPT ![k] = "moving"]
  /\ B!Submit({Transfer(k)})
  /\ KeyOnly

(* Faulty: the assetId is left out when the transfer fails.                *)
AfterMoveWithoutId(k) == IF reply[Transfer(k)] = "ok" THEN "created" ELSE "missing"
(* Faulty: a failed transfer is ignored.                                   *)
AfterMoveUnchecked(k) == "created"

AfterMove(k) == IF reply[Transfer(k)] = "ok" THEN "created" ELSE "stranded"

MoveEnds(k) ==
  /\ At(k, "moving") /\ reply[Transfer(k)] # "none"
  /\ Return(k, AfterMove(k))
  /\ KeyOnly /\ UNCHANGED <<fate, reply>>

-----------------------------------------------------------------------------
(* create: once every createKey has returned, whitelist the keys that have *)
(* an assetId, then announce them without waiting and return.              *)

(* Faulty: goes on only if every key was created.                          *)
AllCreated(j) == \A k \in dto[j].keys : key[k] = "created"

AllReturned(j) == \A k \in dto[j].keys : key[k] \in Returned

(* Faulty: filters on success; does not filter.                            *)
WithSuccess(j) == {k \in dto[j].keys : key[k] = "created"}
EveryKey(j) == dto[j].keys

WithAssetId(j) == {k \in dto[j].keys : key[k] # "missing"}

StartListing(j) ==
  /\ job[j] = "creating"
  /\ AllReturned(j)
  /\ listed' = [listed EXCEPT ![j] = WithAssetId(j)]
  /\ job' = [job EXCEPT ![j] = "listing"]
  /\ B!Submit({Listing(j)})
  /\ UNCHANGED <<dto, answer, key, result, notice>>

(* Faulty: what createKey returned, as it is; or without looking at dataTx. *)
ResultOfCreateKey(k, j) == key[k]
ResultWithoutData(k, j) ==
  CASE key[k] = "missing" -> "missing" [] key[k] = "created" -> "success" [] OTHER -> "failed"

ResultOf(k, j) ==
  IF key[k] = "missing" THEN "missing"
  ELSE IF key[k] = "created" /\ reply[Listing(j)] = "ok" THEN "success" ELSE "failed"

Finish(j) ==
  /\ job[j] = "listing"
  /\ reply[Listing(j)] # "none"
  /\ notice' = [k \in Key |-> IF k \in listed[j] THEN "posted" ELSE notice[k]]
  /\ result' = [k \in Key |-> IF k \in dto[j].keys THEN ResultOf(k, j) ELSE result[k]]
  /\ job' = [job EXCEPT ![j] = "done"]
  /\ UNCHANGED <<dto, answer, key, listed, fate, reply>>

(* The supplier answers 202, or anything else: an error is only logged.    *)
Notify(k) ==
  /\ notice[k] = "posted"
  /\ \E n \in {"accepted", "failed"} : notice' = [notice EXCEPT ![k] = n]
  /\ UNCHANGED <<dto, answer, job, key, listed, result, fate, reply>>

-----------------------------------------------------------------------------
(* The answer of the call.                                                 *)

(* Faulty: looks for an assetId instead of success.                        *)
AnyIssuedKeys(c) ==
  \E j \in JobsOf(c) : \E k \in dto[j].keys : result[k] \in {"success", "failed"}

AnyCreatedKeys(c) ==
  \E j \in JobsOf(c) : \E k \in dto[j].keys : result[k] = "success"

Respond(c) ==
  /\ answer[c] = "pending"
  /\ \A j \in JobsOf(c) : job[j] = "done"
  /\ answer' = [answer EXCEPT ![c] =
       IF c \in Multi /\ ~ AnyCreatedKeys(c) THEN "nothing" ELSE "created"]
  /\ UNCHANGED <<dto, job, key, listed, result, notice, fate, reply>>

(* Promise.all rejects with the first create() that rejects; the others    *)
(* go on, and what they return is not used.                                *)
RespondLate(c) ==
  /\ answer[c] = "pending"
  /\ \E j \in JobsOf(c) : job[j] = "rejected"
  /\ answer' = [answer EXCEPT ![c] = "invalid"]
  /\ UNCHANGED <<dto, job, key, listed, result, notice, fate, reply>>

(* The process stops.  Nothing of a request is stored, so a restarted      *)
(* server knows nothing of it; the node goes on with what it was sent.     *)
Crash ==
  /\ \/ \E c \in Call : answer[c] = "pending"
     \/ \E j \in Job : job[j] \in {"creating", "listing"}
  /\ answer' = [c \in Call |-> IF answer[c] = "pending" THEN "lost" ELSE answer[c]]
  /\ job' = [j \in Job |-> IF job[j] \in {"creating", "listing"} THEN "lost" ELSE job[j]]
  /\ UNCHANGED <<dto, key, listed, result, notice, fate, reply>>

(* Node and client library, also after a crash (`reply` is then what the   *)
(* dead call would have been told; no step reads it any more).             *)
Chain == (\E t \in Tx : B!Progress(t)) /\ UNCHANGED server

KeyStep(k) == IssueFails(k) \/ KeyStays(k) \/ KeyMoves(k) \/ MoveEnds(k) \/ Notify(k)
JobStep(j) == StartListing(j) \/ Finish(j)
CallStep(c) == Respond(c) \/ RespondLate(c)

Next ==
  \/ \E c \in Call : Refuse(c) \/ RefuseEmpty(c) \/ Accept(c) \/ CallStep(c)
  \/ \E k \in Key : KeyStep(k)
  \/ \E j \in Job : JobStep(j)
  \/ Crash
  \/ Chain

(* The event loop runs every continuation that is ready, and every pending *)
(* broadcast call ends.  Clients need not call.                            *)
Fairness ==
  /\ \A c \in Call : WF_vars(CallStep(c))
  /\ \A k \in Key : WF_vars(KeyStep(k))
  /\ \A j \in Job : WF_vars(JobStep(j))
  /\ \A t \in Tx : WF_vars((B!Confirm(t) \/ B!Fail(t)) /\ UNCHANGED server)

Spec == Init /\ [][Next]_vars /\ Fairness
-----------------------------------------------------------------------------
(* Properties.                                                             *)

Issued(k) == fate[Issue(k)] = "applied"
Moved(k)  == fate[Transfer(k)] = "applied"
Open(k)   == fate[Listing(JobOf[k])] = "applied" /\ k \in listed[JobOf[k]]
Asked(k)  == k \in dto[JobOf[k]].keys

(* A key returned with success: true has been issued, is with the          *)
(* recipient the client named and is in the whitelist of its device        *)
(* (create, lines 55-61; createKey, lines 205-230).                        *)
SuccessIsReal ==
  \A k \in Key : result[k] = "success" =>
    Issued(k) /\ Open(k) /\ (dto[JobOf[k]].recipient = "user" => Moved(k))

(* No confirmed key is forgotten.  When addManyKeys is sent, its list is   *)
(* every key of the job whose issue was confirmed, those whose transfer    *)
(* failed included, and no createKey is still on its way to another one    *)
(* (create, lines 42-50).                                                  *)
ListingIsComplete ==
  \A j \in Job : job[j] \in {"listing", "done"} =>
    listed[j] = {k \in dto[j].keys : reply[Issue(k)] = "ok"}

(* A key that is on the chain but absent from the value create() returned  *)
(* is one whose issue the node took after the API had given up on it: an   *)
(* assetId the API was told is always given to the client.                 *)
OnlyTimeoutsLoseKeys ==
  \A k \in Key : result[k] = "missing" /\ Issued(k) => reply[Issue(k)] = "err"

(* Whatever is whitelisted or announced to the supplier exists on the      *)
(* chain, and the supplier hears of a key only after its device's          *)
(* whitelist transaction has ended (create, lines 48-53).                  *)
NothingPhantom ==
  \A k \in Key : /\ Open(k) => Issued(k)
                 /\ notice[k] # "none" => Issued(k) /\ reply[Listing(JobOf[k])] # "none"

(* A call refused as invalid has touched nothing, except a multi call one  *)
(* of whose validTo passed the first check and failed the second           *)
(* (createForMultipleDevices, lines 136 and 148-155).                      *)
RefusalIsClean ==
  \A c \in Call : answer[c] \in {"invalid", "error"} =>
    \/ \A j \in JobsOf(c) : \A k \in KeysOf(j) : fate[Issue(k)] = "none"
    \/ \E i \in JobsOf(c) : c \in Multi /\ job[i] = "rejected" /\ dto[i].validTo = "edge"

Submitted(c) == {k \in Key : CallOf[JobOf[k]] = c /\ fate[Issue(k)] # "none"}

(* One call never issues more keys than the limit, however they are spread *)
(* over its requests (validateKeyLimit on the sum, lines 139-145).         *)
WithinLimit == \A c \in Call : Cardinality(Submitted(c)) <= KeyLimit

(* POST /keys/multi answers 201 only with a key that works among the       *)
(* results, and with the results of all its requests (lines 148-164).      *)
CreatedMeansAKeyWorks ==
  \A c \in Multi : answer[c] = "created" =>
    /\ \A j \in JobsOf(c) : \A k \in dto[j].keys : result[k] # "none"
    /\ \E k \in Key : CallOf[JobOf[k]] = c /\ result[k] = "success" /\ Open(k)

(* "In some cases no keys might be created(like no funds on dApp). We      *)
(* should then return an error": 'No keys have been created' is answered   *)
(* when no key has been created (lines 157-163).                           *)
NothingMeansNothing ==
  \A c \in Call : answer[c] = "nothing" =>
    \A k \in Key : CallOf[JobOf[k]] = c => reply[Issue(k)] # "ok"

(* The documented answers of POST /keys: 400 'Errors while creating key'   *)
(* with the results when there are errors, 201 'Key generated' otherwise   *)
(* (keys.controller.ts, lines 103-114).                                    *)
ErrorsAreAnswered400 ==
  \A c \in Call \ Multi : answer[c] = "created" =>
    \A j \in JobsOf(c) : \A k \in dto[j].keys : result[k] = "success"

(* Every call is answered unless the process stops: no createKey, create   *)
(* or Promise.all waits for something that does not come.                  *)
EveryCallIsAnswered ==
  \A c \in Call : answer[c] = "pending" ~> answer[c] # "pending"

(* Every accepted job goes on to the end, whitelist and report included,   *)
(* even when its call was answered 400 because of another job.             *)
AcceptedJobsFinish ==
  \A j \in Job : job[j] = "creating" ~> job[j] \in {"done", "lost"}

(* KeyPromise's state, read off the requests, the chain and the reports.    *)
Wanted == [k \in Key |-> IF Asked(k) THEN dto[JobOf[k]].recipient ELSE "none"]
Place  == [k \in Key |-> IF Moved(k) THEN "user" ELSE IF Issued(k) THEN "dapp" ELSE "nowhere"]
Opened == [k \in Key |-> Open(k)]
Told   == [k \in Key |-> notice[k] # "none"]

Promise == INSTANCE KeyPromise WITH
  wanted <- Wanted, place <- Place, open <- Opened, told <- Told, verdict <- result

(* The whole of it keeps what KeyPromise states.                           *)
KeepsPromise == Promise!Spec
-----------------------------------------------------------------------------
(* The inductive invariant: what a state of one key, one job or one call   *)
(* implies for the transactions it stands on.                              *)

CallOfKey(k) == CallOf[JobOf[k]]

(* A key's local state is backed by the replies of its transactions.       *)
KeyInv ==
  \A k \in Key :
    /\ key[k] # "idle" => Asked(k) /\ answer[CallOfKey(k)] # "idle"
    /\ key[k] \in {"moving", "created", "stranded"} => reply[Issue(k)] = "ok"
    /\ key[k] = "missing" => reply[Issue(k)] = "err"
    /\ key[k] = "created" /\ dto[JobOf[k]].recipient = "user" => reply[Transfer(k)] = "ok"
    /\ answer[CallOfKey(k)] = "idle" => fate[Issue(k)] = "none"

(* A job lists what its keys returned, once all of them have.              *)
JobInvOf(j) ==
  /\ job[j] # "idle" => answer[CallOf[j]] # "idle"
  /\ job[j] = "done" => reply[Listing(j)] # "none"
  /\ job[j] \in {"listing", "done"} =>
       /\ \A k \in dto[j].keys : key[k] \in Returned
       /\ \A k \in Key : k \in listed[j] <=> k \in dto[j].keys /\ key[k] # "missing"
  /\ \A k \in listed[j] : JobOf[k] = j /\ key[k] \in {"created", "stranded"}
  /\ job[j] = "rejected" => CallOf[j] \in Multi /\ dto[j].validTo = "edge"

JobInv == \A j \in Job : JobInvOf(j)

(* A report on a key agrees with where the key got to.                     *)
ReportInv ==
  \A k \in Key :
    /\ result[k] # "none" => key[k] \in Returned
    /\ result[k] = "success" => /\ key[k] = "created"
                                /\ reply[Listing(JobOf[k])] = "ok"
                                /\ k \in listed[JobOf[k]]
    /\ result[k] = "missing" => key[k] = "missing"
    /\ notice[k] # "none" => /\ k \in listed[JobOf[k]]
                             /\ reply[Listing(JobOf[k])] # "none"

(* An answer agrees with what the call's jobs did.                         *)
AnswerInvOf(c) ==
  /\ answer[c] \in {"invalid", "error"} =>
       \/ \A k \in Key : CallOfKey(k) = c => fate[Issue(k)] = "none" /\ key[k] = "idle"
       \/ \E j \in JobsOf(c) : job[j] = "rejected"
  /\ answer[c] \in {"created", "nothing"} =>
       \A j \in JobsOf(c) : /\ job[j] = "done"
                            /\ \A k \in dto[j].keys : result[k] # "none"
  /\ answer[c] = "created" /\ c \in Multi => AnyCreatedKeys(c)

AnswerInv == \A c \in Call : AnswerInvOf(c)

DoneInv ==
  \A j \in Job : job[j] = "done" => \A k \in dto[j].keys : result[k] # "none"

(* Transactions and reports come in the order KeyPromise asks for.         *)
LinkInv ==
  /\ \A k \in Key :
       /\ fate[Issue(k)] # "none" => Asked(k)
       /\ fate[Transfer(k)] # "none" =>
            Asked(k) /\ dto[JobOf[k]].recipient = "user" /\ reply[Issue(k)] = "ok"
       /\ result[k] # "none" \/ notice[k] # "none" => job[JobOf[k]] = "done"
  /\ \A j \in Job : answer[CallOf[j]] = "idle" => dto[j].keys = {}

IInv == /\ TypeOK /\ B!OkMeansApplied
        /\ KeyInv /\ JobInv /\ DoneInv /\ ReportInv /\ AnswerInv
=============================================================================

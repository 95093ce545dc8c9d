# A TLA+ model of the SmartKey supplier API

The supplier API is a NestJS server. It lets a supplier of devices (locks, barriers) issue
*keys* (non-fungible tokens on a Waves-like blockchain), hand them to users, list them in the
whitelist that each device keeps on the chain, and tell the supplier's own platform about it. It also
keeps accounts of the administrators who may call it.

This directory holds TLA+ specifications of its services, the TLC models that check them on small
instances and TLAPS proofs of the main results for every size.

    tlc -config KeyBatch.cfg MCKeyBatch        # one of the runs listed in PROJECT.json
    tlapm KeyCreation_proofs.tla               # one of the proof modules

`PROJECT.json` lists runs, theorems, hazards and, for each definition, the source lines it stands
for. Paths below are relative to `src/src/`.

## 1. The system

Everything happens in one Node.js process. A request is handled by an `async` function, so handlers
interleave at every `await` and nowhere else. The process keeps no state of its own between
requests: state lives in the blockchain, in the supplier's platform and in the SQLite table of accounts. A stop of the
process loses the requests under way and nothing else.

| Component | State it keeps or changes | Operations | Talks to |
|---|---|---|---|
| blockchain write service (`blockchain/blockchain.write.service.ts`) | transactions on the chain | one builder per transaction, all through `broadcast` | node |
| key creation (`keys/keys.service.ts`) | keys, whitelists, messages to the supplier | `create`, `createForMultipleDevices` | write service, supplier |
| generate and transfer (`keys/keys.service.ts`) | keys, whitelists, `keyTransferred` | `createAndTransfer` | write service, supplier |
| key custody (`keys/keys.service.ts`) | owner of a key | `transfer`, `burn`, `show`, `index` | read and write service, supplier |
| admin accounts (`admins/`) | table `admin` | create, update, remove, list, root account at startup | TypeORM, SQLite |
| authentication (`auth/`) | none (signed tokens) | login, token check, role guard | admin accounts |
| supplier service (`supplier/`) | devices and streams of the supplier's platform | key messages, connect, disconnect, rename, `keyTransferred` | HTTP |
| devices (`devices/devices.service.ts`) | device accounts, their entry in the dApp, their whitelist | create, connect, connectExisting, disconnect, destroy, edit, message, addKey, removeKey | read, write, supplier |
| device commands (`devices/command.service.ts`, `transactionValidators/`) | none | send a command, validate a signed transaction | skey-lib, node |
| organisations (`organisations/`) | organisation entries, their keys | add, remove a key, list | skey-lib, write service |
| setup, faucet, status (`utils/`) | the dApp's script, alias and data | setup, faucet, status | read, write, compiler |
| users (`users/`) | user accounts | create, show | read, write |
| blockchain read service, compiler | none | HTTP reads, files | node |
| configuration, validators, encryption | none (what the environment sets) | grants of the faucet, salt and iv; pipes; `encrypt` | |
| process, logging | none | | |

What makes it hard, and what has to hold:

* **Ambiguous failures.** `broadcast` throws the same error when the node refused a transaction, when
  its reply was lost and when the transaction was not seen in time. Whatever a service reports after
  an error has to be right in all three cases.
* **Batches.** Keys are issued concurrently. Some fail, some succeed, some are issued but not
  delivered. The whitelist, the message to the supplier and the answer must each name the right ones.
* **`Promise.all`.** It rejects with the first error and does not stop the other promises, so work
  goes on after the client was told that the call failed.
* **Send while reading, read then send.** `transfer` sends its transaction while it is still reading
  the key; `burn`, `removeKey`, `addOrganisation`, `destroy` and `connect` decide on a read that may be
  out of date when their transaction reaches a block. A validation is four or six reads at once.
* **One copy of a seed.** The seed of a new account is a local variable until the call answers, and the
  account can act only with the money it was given at the start.
* **Three places for a device.** An entry of the dApp, the data of the device's account and the record of
  the supplier are changed by different calls and kept together by nothing.
* **Two checks of one deadline.** `validTo` is compared with the clock twice, at different times.
* **No undo.** Nothing is rolled back; the order of the steps is all that protects devices and users.
* **Read, await, write.** Account updates work on a copy read before a password is hashed; the email
  check and the write are separate queries.
* **Stops.** At any await, with transactions on their way.

The hazards, each at its line and with the properties that cover it, are in `PROJECT.json`.

## 2. The modules

| Module | Models |
|---|---|
| `Broadcast` | the life of transactions and what `broadcast` tells its caller |
| `KeyCreation` | `create`, `createForMultipleDevices`, `createKey`, `onCreateKeys`; instantiates `Broadcast` |
| `KeyPromise` | the abstract specification that `KeyCreation` implements |
| `GenerateAndTransfer` | `createAndTransfer`, `updateTransferStatus`; instantiates `Broadcast` |
| `KeyCustody` | `transfer`, `burn`, `show`; `addKey`, `removeKey` of devices; `removeKey`, `addOrganisation` of organisations; instantiates `Broadcast` |
| `Provisioning` | `create` of users and devices, `connectExisting` without an address, `setup`, `faucet`, `fetchScript`, `encrypt`, `updateDeviceId`; instantiates `Broadcast` |
| `StagedPromise` | the abstract specification that `Provisioning` and `GenerateAndTransfer` implement |
| `CustodyPromise` | the abstract specification that `KeyCustody` implements |
| `DevicePromise` | the abstract specification that `DeviceLifecycle` implements |
| `DeviceLifecycle` | `connect`, `disconnect`, `connection`, `connectExisting` with an address, `destroy`, `edit`, `deviceMessage`, `show`, `index` of devices; instantiates `Broadcast` |
| `DeviceCommands` | `deviceCommand`, `validateTransaction` and the two validators; instantiates `Broadcast` |
| `AdminAccounts` | the admins service and its table, the two guards, the root account |
| `MC...` and `.cfg` | instances for TLC |
| `..._proofs` | theorems about the module they are named after |

### Broadcast

`fate[t]` is what became of a transaction (`none`, `sent`, `applied`, `dropped`), `reply[t]` what the
caller was told (`none`, `ok`, `err`). `Confirm` returns the id and needs the transaction to be in a
block. `Fail` is the `catch` branch and is possible whatever the fate. A transaction may be applied
after `Fail`; that is the ambiguous failure. `Submit` takes a set, because one synchronous piece of a
handler may start several calls. Its own `Spec` has no fairness: each service says which of its pending
calls end, and each is proved to implement `Broadcast`, so what holds of a transaction there holds in all of them.

### KeyCreation

A *call* is an HTTP request, a *job* one `create()`, a *key* one `createKey()` of its `Promise.all`.
`POST /keys` is a call with one job; `POST /keys/multi` (a call in `Multi`) has one job per request.

| Variable | In the code |
|---|---|
| `dto` | the request: keys wanted, recipient, `validTo` |
| `answer` | the response of each call (`created` 201, `invalid` 400, `nothing` the 400 'No keys have been created', `error` 500, `lost`) |
| `job` | where `create()` is: `creating` (line 42), `listing` (48), `done` (55), `rejected` (threw at 40) |
| `key` | where `createKey()` is, then what it returned: `created`, `stranded` (issued, not transferred), `missing` (no `assetId`) |
| `listed` | `assetIds` passed to `addNKeysToDevice` |
| `result` | what the value of `create()` says of the key |
| `notice` | the message of `onCreateKeys` about the key |

`Accept` is everything from the arrival of the request to the first `await` of every job, which is one
synchronous piece. `IssueFails`, `KeyStays`, `KeyMoves`, `MoveEnds` are the branches of `createKey`;
`StartListing` and `Finish` are lines 42-48 and 48-61; `Notify` is the supplier's response;
`Respond` and `RespondLate` are the two ways in which the outer `Promise.all` ends.

`KeyPromise` knows only where a key is wanted, where it is, whether its device knows it, whether the supplier was
told, and what was reported. Its `Report` step is the contract: a success is delivered and
whitelisted, exactly the issued keys among those named are announced, and a key is reported once.

### GenerateAndTransfer

One call goes through `flagging` (the PATCH to the supplier), `issuing`, `listing`, `moving`. A stage
starts when all transactions of the one before have succeeded, and the call ends with `error` at the
first that fails, while the others go on. `Patch(c)` is the supplier applying the PATCH, at any time after it
was sent, whether or not anybody waits for it; `flag[c]` says that it has applied the PATCH *of
this call*; the property of the device in the supplier's platform is shared by its calls and is true from the first of them on.

`StagedPromise` knows which *pieces* a call wants, which are in place, and whether the client was told of a success.
`Arrive` puts one in place, in the order their meaning demands and however the call ends; `Tell` needs all
of what was wanted. Here the pieces are the flag, the issues, the whitelist and the transfers.

### KeyCustody

The operations on keys that exist share the keys, the whitelists and the dApp's entries of
organisations, so one module holds the requests of three services. `ask`, `step`, `look` and `told`
are a request, its position, what its read returned and whether the supplier was sent a message;
`owner`, `listed` and `entry` are the chain. All requests have one of two shapes: `StartSending`
(transfer, addKey, removeKey) and `StartLooking` (burn, show and the two of organisations), the latter followed by
`SendAfterLook` or `TurnDown`. `transfer` does both at once: it is sending while `look` is still
`pending`, and `SendingEnds` waits for both, as its `Promise.all` does. `Seen` is evaluated when the node
answers, `Move`, `Burn`, `Enlist`, `Unlist` and `Verify` when a block includes a transaction;
`HolderMoves` (of keys that are not the dApp's) and `Suspend` are what others do in between.

`CustodyPromise` has the same keys and whitelists, and for each call the *effects* it wants: move, burn, list,
unlist, verify. `Do` carries out one of them, once, under the rules of the ledger; the client is told when all are done, the supplier
when a transfer is. It has no reads, no messages and no failures.

### Provisioning

A request *wants* some of seven transactions. `Awaited` is the order in which the code's `await`s put
them, and `Stage` is the set sent next: for a device first `fund`, then `entry`, `script` and `data`
together. `compiling` is the read of a script file, `renaming` the PATCH to the supplier. The
configuration `env` is chosen at the start: `SetScript` and `InsertData` need the money of the grant,
`Encrypts` needs a salt, and both are found out only at that point, as in the code. `named` is the
account the supplier's item is named after. A file that cannot be read is a `Crash`: the callback of
`fetchScript` goes on after `reject`.

Here the pieces of `StagedPromise` (`CallPieces`) are the seven transactions and, for a call of `connect_existing`, the
new name of the item. Its order (`AccountOrder`) says that an account is paid for before it is used, the dApp is
described last, and an item is named after an account that has everything. `NamedWhenComplete` adds
that its seed could be encrypted.

### DeviceLifecycle

`AskFirst` are the operations that call `deviceExists`, `CallsSupplier` those that end with a request
to the supplier, `Sends` those that end with a transaction. `began` records whether the dApp listed the device when
the request came. The supplier serves a request (`Serve`) at any time after it was sent, also when its sender is gone.
Entries of a device's data are pairs of writer and type on the chain: `BlockchainValue` and `Parsed` are
what `blockchainValue` and `parseEntries` do to the type of a value.

`DevicePromise` has the three places and, for each call, the one *effect* it has committed to by sending something.
`Commit` is possible for what concerns the dApp only while the device is listed, `Do` happens once at the supplier or on the chain,
an update is text or the removal of an entry, that of a position is of both coordinates, and `Tell` comes last. A call may well
take effect after its device has left the dApp; the promise allows that, because the code does.

### DeviceCommands

`history` says which facts each block holds, `height` is the last block. A validation goes from
`finding` (the device) to `checking`, with `todo` the reads that have not returned; the owner of the
key takes two reads, `SeeHeight` and then one at `tip - 1`. `FactHolds`, `FactFails` and `ReadFails` are
the ends of one check: the validators turn the second into a verdict and throw the third on. A
command goes from `fetching` to `sending`, and waits for its block unless it was told not to (`Waits`).

`DeviceFound` sorts the bodies: those that come to the checks (`WellFormed`), those that are turned down with a 400
(`invalid`), and those in which the code reads a property of something that is not there (`Throws`: no `call`, or no third argument
of a signed `deviceActionAs`), which the framework answers with a 500.

A verdict is about the device and the key *of the path*. The code never compares them with the key
or the dApp that the signed transaction names, so `VerifiedMeansHeld` does not say that the transaction would use the
key that was judged.

### AdminAccounts

`rows` is the table, `lastId` the autoincrement, `ask`, `step`, `admin` and `found` are the request,
its position, its copy of the entity and the row TypeORM has loaded. Every query is a step. Passwords
are represented by the request that set them. The
three places of `update` are `FindForUpdate` (the read), `EmailGuard` and `Load` followed by `Update`
or `Reinsert`: `save()` loads the row first and inserts the entity when there is none. `Boot` is
`onApplicationBootstrap`, which runs before the server listens; `Crash` returns to it with the table
as it is.

## 3. What is external, and what is assumed of it

* **Node and client library.** An id returned by `waitForTx` belongs to a transaction in a block *with
  its effect*. The code does not look at the application status of an invocation, so the models
  do not distinguish an applied transaction from one that a script failed. Blocks are not taken back.
* **Transaction ids are distinct.** Two issues for the same device and `validTo` that are built in the
  same millisecond are the same bytes and would share an id. The models leave this out (it is listed
  under hazards).
* **Supplier.** Accepts or refuses a request; its answer may be lost after it was applied. An id belongs
  to one record: connecting an id that has one is refused, an item is found under its old id until it is renamed.
* **Rules of the chain.** Only the holder of a key moves or burns it, and a burnt key is gone. An alias
  belongs to one account for ever. A transaction needs its fee. An entry that is written as
  `undefined` is taken away. Where such a rule refuses a transaction, the models leave it out of every block,
  and `broadcast` fails.
* **skey-lib.** `fetchKey`, `fetchDevice` and the other look-ups are single reads that may fail, with
  `waitForTx` a command is in a block when it returns. What devices' and organisations' scripts accept is their own matter,
  except that a removal burns what the organisation holds.
* **TypeORM and SQLite.** One query or transaction at a time; `save()` and `remove()` load by id before
  they write; undefined columns are not written; ids are not reused.
* **Input validation** (class-validator): bodies that it refuses change nothing. The models of key creation
  start from requests that pass; a request may be an empty list, which the DTO allows. The other modules have the refusal
  as an action.

## 4. Runs

| Run | Instance | Shows |
|---|---|---|
| `key_batch` | 2 jobs, 3 keys, limit 2, an empty call | the eight safety invariants of key creation |
| `key_pair` | 2 jobs of one key each | the refinement of `KeyPromise`; accepted jobs finish |
| `key_single` | `POST /keys`, 2 keys | the refinement of `KeyPromise`; every call is answered |
| `admins` | 2 requests, 2 emails, 4 ids | emails, passwords, removed accounts, answers |
| `handover` | calls of up to 3 and 1 keys, limit 2 | the refinement of `StagedPromise`; order of the stages; answers |
| `custody` | 2 requests of any kind about 1 key, 1 device, a user and an organisation | true messages, true answers, one destroyer, whitelists after a removal; the refinement of `CustodyPromise`; answers |
| `provisioning` | 2 requests, 1 item, 1 alias, 3 configurations | the refinement of `StagedPromise`; names, aliases, money; answers |
| `commands` | 1 request, 4 blocks, all histories with at most two gaps | what a verdict and a waited command rest on; answers |
| `devices` | 2 requests of any kind about 1 device and 1 item | the refinement of `DevicePromise`; late calls, positions, types; answers |
| `multi_nothing_created` | as `key_pair` | finding 1 below |
| `single_errors_400` | as `key_single` | finding 2 below |
| `admins_deleted` | as `admins` | finding 3 below |

**Bounds.** `KeyLimit` is 2 where the code has 80, with three keys, so that a call can be within, at and
above the limit, and above it only by the sum over two jobs. Two jobs are what it takes for one to be rejected while
the other goes on; a job with two keys is what it takes for one key to fail and another not to. The liveness and refinement runs use two keys, since
their behaviours differ from the larger ones only in repetition; the refinement is proved for every
number. In `custody` and `devices` two requests for the same thing are what every race needs: each step
reads or writes one key or one device, and two different ones do not meet. `EditKeys` are two sets of
keys, one that meets a message's and one that meets the flag. `MayMeet` says which calls of
`provisioning` run next to each other: those that share an item (two renamings, of which one at most
with data) or the dApp (two setups that differ); calls that share nothing are run alone. Its configurations are the
defaults of `config.ts`, in which a device cannot pay for its script, and those of `.env.example`, with and
without a salt. In `commands` requests share only the chain, so there is one; `MaxHeight = 4` gives two blocks before
and two while it runs, and a history has up to two facts that are missing before the request, from its first
block on, or (for the key's validity) throughout. Two admin requests are what every race of the service needs; `MaxId = 4` is never reached by a
request that still has to insert (one id before the start, one at startup, and each request either
inserts or frees the root email for the next startup), and `MaxOld = 1` leaves one account or none from
an earlier run.

**Deadlock** is not checked: clients need not send anything, and when all their requests have been
answered the models stop.

**Fairness** is weak and only on what the code or a library schedules: ready continuations (the event
loop runs them), the end of a pending `broadcast` (`waitForTx` has a time limit), the supplier's
answer to the one request that is awaited, and the node's to a read (the connection ends). Clients,
crashes, other holders of keys, new blocks and the inclusion of a transaction in a block are not fair:
a request is answered because its broadcast calls end one way or the other. `Outcome` is left out for a
request that has been answered, since nobody looks at it any more.

### Findings

1. `POST /keys/multi` answers 'No keys have been created' when keys *have* been issued and even
   transferred, if no key ended as a success (the whitelist transaction failed, for instance).
   `anyCreatedKeys` looks at `success`, not at `assetId`, and the asset ids are lost to the client.
2. `POST /keys` documents a 400 for errors. `create` returns them as values, so the answer is 201
   even when no key was created.
3. An account that is deleted while a `PUT /admins/:id` with a password is between its read and its
   `save` comes back, under its old id, after both were answered 200.

## 5. Proofs

All theorems are of the form `Spec => ...` and hold for any sets of calls, jobs, keys, requests and
emails and any limits. The assumptions are those of the modules:

* `ShapeAssumption`: who belongs to whom, and that `POST /keys` has one job;
* `BodyAssumption`: a body names finitely many keys. Only `WithinLimit` needs it, since it speaks of a cardinality;
* `CallAssumption`, `RootAssumption`: what a key's call is, that limits and ids are numbers, that the root email is an email;
* `KeyAssumption`: organisations may receive keys, and what is malformed is none of them;
* `ProvisioningAssumption`: grants and fees are natural numbers;
* `DeviceAssumption`: the words for nobody and for the data of creation are not requests, an edit names entries;
* `CommandsAssumption`: there are at least two blocks.

There are three kinds of results: the safety properties of a component's run, from one
inductive invariant; `Refinement`, that it implements its abstract specification, where it has one; and `SendsByBroadcast`, that
its transactions behave as `Broadcast` says, where it sends any.

* `Broadcast_proofs`: types, `Settled`, `OkMeansApplied`. By `SendsByBroadcast`, proved in each of the six modules
  that send transactions, they hold for the transactions of all of them.
* `KeyCreation_proofs`: types and the safety invariants of `key_batch`. The
  invariants are not inductive: `SuccessIsReal` speaks of the chain, the code decides on replies. `IInv`
  closes the gap. `KeyInv` backs each position of `createKey` by the replies it has seen, `JobInv` says
  that a list, once sent, is what all keys returned, `ReportInv` and `AnswerInv` do the same for
  results and answers, and `OkMeansApplied` of `Broadcast` turns replies into fates. The proof has one
  lemma per action. `WithinLimit` follows from what `Accept` lets in and the library's facts on
  finite sets. `Refinement` (of `KeyPromise`) needs one more invariant, `LinkInv`
  (transactions exist only for keys that were asked for, a transfer only for a confirmed issue, reports only of finished jobs).
  The steps of the chain map to `Issue`, `Move` and `Enlist`, a request to `Ask`, `Finish` to
  `Report`, everything else to stuttering.
* `GenerateAndTransfer_proofs`: `NoPartialHandover`, `FlaggedFirst`, `OkMeansDelivered`, from
  `CallInv`, which says what each stage of a call stands on and what each transaction stands on after
  the call has ended. The second half is what `Refinement` (of `StagedPromise`) needs: a piece arrives in order even when nobody waits
  for it any more.
* `KeyCustody_proofs`: all four invariants of `custody`, and `Refinement` (of `CustodyPromise`). They speak of the chain at the time of the
  answer, the code decided on a read and on replies. `Control` ties what is sent to what was asked, `Burnt` says that a
  burnt key stays burnt, `BurntOnce` that one transaction did it (only its holder can burn a key, and
  nobody gets it back), `Unlisted` that a key is on a whitelist it was taken off only by an `addKey` in a block.
* `Provisioning_proofs`: all four invariants of `provisioning`, and `Refinement` (of `StagedPromise`).
  `Control` says that whatever is sent was waited for in its order - the code knows it from replies,
  the promise from the chain - `Patching` and `Naming` follow an item from the PATCH to its name (the last piece to arrive), `Taken` and `OneHolder` an
  alias, `Credit` the money. `StageFacts` shows that `Stage` gets to the end: when nothing is due,
  everything is sent.
* `DeviceLifecycle_proofs`: the three invariants of `devices`, `OkMeansDone`, and `Refinement` (of `DevicePromise`). `Control` ties what is sent to what was
  asked, and a success to the supplier's answer or the reply. `LateCallsAreRefused` holds because a device that is off the dApp does
  not come back while the calls run: `Refused` carries that from the arrival of a call to its read of the dApp, `Gone` from a
  `destroy` in a block to its answer. `WrittenAsText` needs `Written` (whose name is on an entry of the chain has been applied), and so does
  `NoMixedLocation`: a request that is still free to become a message has written nothing.
* `DeviceCommands_proofs`: the three invariants of `commands`, for every history and height. `RequestInv`
  keeps, for each read that has returned, the block it looked at within the request's window.
* `AdminAccounts_proofs`: `UniqueEmails` (inductive by itself, because every write is checked by the
  table), types, `PasswordOnlyWhenAsked` from `CopyInvOf` (a copy under way has a hash only if its
  request set a password), and `BackOnlyWithPassword`: the accounts that come back after they were removed (finding 3) come back by
  an update that set a password, since `save()` inserts a complete row or none.

Proved and in no run: `FlaggedFirst` and `OkMeansDelivered` of `GenerateAndTransfer` and `OkMeansDone` of `DeviceLifecycle`,
since the refinements that the runs check say the same of the chain; and the types of all modules but `KeyCreation`.

Only model-checked: the leads-to properties, since TLAPS has no support for `ENABLED` and so for
fairness. The three properties of the findings are false.

## 6. Not modelled, and the plan

Not modelled, because there is no behaviour of this program in it:

* code without a caller: the page loop `fetchAllNFTs` (whose guard compares `index - 1` with 15 and can never
  hold), `renameDataKey` and `interactWithDevice` of the write service, the compiling path of the
  compiler, `decrypt`;
* reads that change nothing and decide nothing: `index` of keys and organisations, `show` of
  users, `status`, the lists of accounts. They are one or several HTTP reads that may fail;
* libraries: login, token signatures, password hashing, AES, base58; swagger documents, logging, the wiring of the
  process;
* the queue that a verified transaction is described to enter (`devices.controller.ts:489-496`): there
  is none, `command.service.ts:63-65` has a comment in its place.

Not modelled, because the code gives no ground for it: two issues that are built in the same
millisecond (the timestamp is taken inside the client library), lost updates of accounts (nothing promises
that they are kept; listed under hazards), forks of the chain.

Planned: an abstract specification of `AdminAccounts` (each account changed by one request at a time, as its
client sees it) and of `DeviceCommands` (a verdict as one look at the chain within the request's window), with
the modules shown to implement them.

# Verification of the Stellar Python SDK

TLA+ modules, TLC runs and TLAPS proofs about `stellar_sdk`, the Python SDK of
the Stellar network. The reference is the code: every definition names, in
`PROJECT.json` under `map`, the lines it models.

## 1. The system

| Part | Code | State it keeps | Operations |
|---|---|---|---|
| Contract invocation | `contract/assembled_transaction.py`, `..._async.py` | transaction builder and built transaction, latest simulation and its cached result, `_needs_preparation`, `send_transaction_response`, `get_transaction_response` | `simulate`, `prepare`, `sign_auth_entries`, `authorize`, `sign`, `submit`, `sign_and_submit`, `restore_footprint`, `result`, `is_read_call` |
| Contract clients | `contract/contract_client.py`, `..._async.py` | none of its own | `invoke` (an assembled transaction, simulated), upload and create helpers |
| RPC servers | `soroban_server.py`, `..._async.py`, `base_soroban_server.py` | the HTTP client | `load_account`, `simulate_transaction`, `send_transaction`, `get_transaction`, `poll_transaction`, `prepare_transaction`, queries |
| Horizon servers | `server.py`, `server_async.py`, `base_server.py` | the HTTP client | `submit_transaction` with the SEP-29 memo check, `load_account`, call builders |
| Call builders | `call_builder/` | query parameters, `next_href`, `prev_href` | `cursor`, `limit`, `order`, `call`, `next`, `prev`, `stream` |
| HTTP clients | `client/` | session, retry policy, stream cursor and reconnection time | `get`, `post`, `stream`, `close` |
| Transaction builder | `account.py`, `transaction_builder.py`, `transaction.py`, `fee_bump_transaction.py`, `*_envelope.py`, `preconditions.py` | the source account's sequence number, operations, time bounds, fee; an envelope's signatures | `append_*`, `set_*`, `build`, `build_fee_bump_transaction`, `sign` |
| Soroban authorization | `auth.py` | none of its own: the entries in `op.auth` of an envelope, which it replaces | `authorize_entry`, `authorize_invocation`, `build_with_delegates_entry` |
| XDR classes | `xdr/` (generated from the `.x` files) | none | `pack`, `unpack`, `to_xdr_bytes`, `from_xdr_bytes`, `to_json_dict`, `from_json_dict` of some 450 classes |
| Web authentication | `sep/stellar_web_authentication.py`, `sep/stellar_soroban_web_authentication.py` | none | build, read and verify challenges |
| TOID | `sep/toid.py` | a ledger, transaction and operation order | `to_int64`, `from_int64`, `increment_operation_order`, range |
| Formats and values | `sep/*`, `keypair.py`, `strkey.py`, `scval.py`, `operation/` | none | conversions |

How they interact. A `ContractClient` makes an `AssembledTransaction`, which
loads its source account and simulates through the RPC server, assembles the
answer into its transaction, has it authorized and signed, sends it and polls
for its result, each of these as a JSON-RPC request made with an HTTP client.
When the simulation says that contract state was archived, it makes a second
`AssembledTransaction`, over the same source account, that restores it. A
`TransactionBuilder` shares the `Account` it was given with its caller. Objects
that use the same source account compete for its sequence numbers, and the
ledger moves between any two requests.

What is hard about it. The attributes of one object are updated by many calls,
in any order the user likes, with requests in between which may fail, be lost,
or be repeated by the HTTP client; the network may accept a transaction and its
sender not know; time bounds, mempool evictions and other wallets make a
built transaction stale; in the asynchronous classes other coroutines run at
every `await`. The list of hazards is in `PROJECT.json`, each at its line.

What makes each part correct:

- contract invocation: fees are accounted for over repeated preparation; nothing
  unauthorized or prepared against older signatures is submitted; one object
  puts at most one invocation into the network; what `submit()` reports is what
  happened; decisions use the latest simulation;
- polling: it ends, within the time it was given, and not before the answer
  when the answer is in time;
- event streams: every event is delivered once and in order over reconnections;
- transaction builder: a sequence number is consumed exactly by a build, a fee
  bump pays at least the inner fee rate;
- asynchronous invocation: the same, whatever coroutines interleave at their
  requests and wherever one of them is cancelled, and an invocation that the
  network took stays within reach of the next `submit()`;
- authorization: a signature is over the entry it is put into, whoever else
  signs it and however it is wrapped, and nothing is signed that the simulation
  has not seen;
- XDR: what is packed is read back as it was, nothing else is read, and JSON
  agrees with it;
- web authentication: what is verified is signed by the server and by signers
  of the account of sufficient weight, and by nobody else.

## 2. Plan

Done, in this order, the most important behaviour first:

1. `AssembledTransaction` with its abstract specification `Invocation`; its
   types, its safety properties and the refinement are proved
   (`AssembledTransactionProofs`).
2. `Backoff`: polling and its deadline.
3. `EventStream`: server-sent events over reconnections.
4. `TransactionBuilder`: sequence numbers, fee, fee bump, shared lists.
5. `ChallengeSignatures`: who signed a SEP-10 challenge.
6. `AssembledTransactionAsync`: several coroutines of one object, with the
   attributes read before an `await` and written after it. What it shares with
   the synchronous class, envelopes and the network, is `StellarNetwork`; its
   safety properties and its own refinement of `Invocation` are proved.
7. `XdrDescriptions` to `XdrExchange`: the generated classes, their bytes and
   their JSON.
8. `SorobanAuth`: authorization entries, their signatures, delegates and
   expiration ledgers; its properties are proved.

Left:

9. `ChallengeTransaction`: what `build_challenge_transaction` makes is what
   `read_challenge_transaction` accepts, within its time bounds and not outside
   (SEP-10 and SEP-45).
10. `Pagination`: `next()`, `prev()` and `cursor()` against a collection that
    grows; every record once.
11. `PollTransaction`: `SorobanServer.poll_transaction` with its attempts and
    sleep strategy. `MemoRequired`: the SEP-29 check of `submit_transaction`,
    per destination, with failing account requests.
12. `Toid`: the 32, 20 and 12 bit fields of an identifier, with their widths;
    `from_int64` after `to_int64`, order, the carry of
    `increment_operation_order`.
13. `HttpRetry`: status and connection retries of the clients, and `close()`.

## 3. Modules

Every module has an `MC...` module beside it where its instances need
definitions, and a `...Proofs` module where something is proved about it.
Operators commented "Mutant of ..." are not part of a specification: each is a
plausible mistake in the definition that follows it, kept to show that the
property named with it in `PROJECT.json` does depend on that definition.

### StellarNetwork

What the synchronous and the asynchronous invocation have in common. A
transaction is a record of what matters to its acceptance: who made it, its
sequence number, fee and resource fee, which addresses have unsigned and signed
authorization entries, the contract accounts whose present signature the
resources were computed with (`covered`), and whether the envelope is signed.
`TransactionBuilder` and `TransactionEnvelope` appear as `Build`, `Assemble` and
`ForSimulation`, which do to these fields what the code does.

A simulation asks for two numbers, which are separate fields of its response:
`min`, its `min_resource_fee`, is added to the fee, and `stored`, the
`resource_fee` in its transaction data, is kept in the transaction and is what the
next preparation takes off. The code's own tests have them differ (58181 and 2, in
`tests/test_soroban_server_sync.py`), and so may `ResourceFees`. What they have
differed by since `simulate()` is history, `excess`, kept within `MaxExcess` by
`Asked`.

`authorize()` for an address replaces its entries one after the other.
`SignEntries` is the loop that gets through; `SignSomeEntries` is the one whose
signer raises at a later entry, which an address with more than one entry
(`Several`) may meet: entries that were unsigned remain so, and of a contract whose
entries had been signed before, some now carry signatures that the resources were
not computed with (the history `halfway`).

The network itself (`account`, `pool`, `archived`, `succeeded`, `failed`) is not
in the repository: it is the ledger as the code presumes it, a mempool with one
transaction per source account, evictions, archival and other wallets. It
accepts what is signed and next in sequence, and what it executes may fail for
reasons of its own. It never succeeds with an unsigned entry or archived state; of
resources computed before a signature was replaced it may make either.

### AssembledTransaction

One client of the module is one `AssembledTransaction` object; all of them use
one source account.

| State | Code |
|---|---|
| `built`, `simulation`, `needsPrep`, `sent` | `built_transaction`, `simulation`, `_needs_preparation`, `send_transaction_response` |
| `cache` | `_simulation_result` and `_simulation_transaction_data`, always set and cleared together |
| `pc`, `call`, `draft` | the method in progress with its arguments, the request it awaits, and its local transaction |
| `outcome` | how the last call ended: a return or the exception raised |
| `account`, `pool`, `archived`, `succeeded`, `failed` | the ledger and the mempool as the RPC server shows them |
| `accepted`, `lost`, `restored`; `excess` and `halfway` of a transaction | history, for the properties |

A call is cut into steps at its requests, since between two requests the ledger
moves and other users of the account act. `Simulate`, `Prepare`, `Sign`,
`Authorize`, `AuthorizeFails`, `Submit`, `SignAndSubmit`, `PrepareSignAndSubmit`,
`RestoreFootprint` and `Query` are the public methods up to their first request;
`LoadAccount`, `AnswerSimulate`, `Restore...`, `SendTransaction`,
`GetTransaction` and `StillPending` are the answers, each with all that the
method does until its next request or its end. A call that is refused before it
changes anything is not a step. `AuthorizeFails` is `authorize()` when its signer
raises after it has replaced entries and before it has set `_needs_preparation`. `RequestFails` is a request that raises, at any
point; `SendReplyLost` is a `sendTransaction` whose reply is lost after the
network took the transaction, which the HTTP client repeats or reports.

### Invocation

What the callers of an object can rely on, with four stages and three reports and
nothing else: accepted at most once and never after a caller was told how it
ended, settled at most once, and `submit()` never reports what is not so.

`AssembledTransaction` implements it with one caller for each object,
`stage <- StageOf`, `report <- ReportOf` (`KeepsPromise`) when no reply is lost.
The condition is needed: a `sendTransaction` that the HTTP client repeats after a
lost reply is answered `DUPLICATE`, which `submit()` reports as a failure of a
transaction that the network has.

`AssembledTransactionAsync` implements it with one object and the tasks for its
callers, `stage <- Stage`, `report <- outcome` (`OrderlyKeepsPromise`), in every
step up to the first one after which two sends have overlapped or an acceptance
has gone unheard. This is more than `OutcomeIsTrue` says of the states: a report is
true when it is made and nothing another task does later, not even a send of its
own, can make it untrue.

### AssembledTransactionAsync

One object, used by several asyncio tasks. A task runs without interruption from
one awaited request to the next, so a step is what a coroutine does between two
of its `await`s, with the other tasks, the network and a cancellation in between.

| State | Code |
|---|---|
| `pc`, `call`, `draft` | per task: the request its coroutine awaits, its method and arguments, and its local variable (`built_tx`, `simulation_tx`, `tx_hash`, the envelope in the request); while the server's answer to `sendTransaction` is under way, `pc` is the status in it |
| `outcome` | per task: what its last `submit()` reported |
| `built`, `simulation`, `cache`, `needsPrep`, `sent` | the attributes, as in `AssembledTransaction` |
| `overlap`, `peeked`, `unheard` | history: whether two sends of the object overlapped, whether the cache was filled during a `simulate()`, whether an acceptance went unheard |
| `calls` | how many awaited calls were begun, and requests and signers failed, which `MaxCalls` bounds together |

The difference to the synchronous module is in what is local and what is shared:
`AnswerSimulate` writes back the envelope that its coroutine had copied before
its request, over whatever other tasks did to `built_transaction` since;
`SendAnswered` overwrites `send_transaction_response`; `RestoreDone` looks at the
attributes anew. `authorize()`, `sign()`, `result()` and `is_read_call()` await
nothing once they look at an attribute, and are one step each; `authorize()` has a
second, `AuthorizeFails`, for a signer that raises half way. `RequestFails` is
an error or a cancellation at any `await`. `ServerTakes` and `SendAnswered` are two
steps, since the network has a transaction before its sender knows.

### Backoff

`_with_exponential_backoff` in sixteenths of a second, in which the waits 1,
1.5, 2.25, 3.375, 5.0625 and the cap of 6 seconds are whole numbers (a wait cut
at the deadline is the last one). `Answer` is one call of `fn()`, which takes up
to `Latency` and may show the network as it was when the request was made;
`Return`, `Sleep` and `Wake` are the loop's branches. `time.time()` is taken to
be monotonic, and `time.sleep()` to return up to one unit late.

### EventStream

`stream()` of both HTTP clients: a request from the cursor, "hello", events that
move the cursor before their data is decoded and yielded, "byebye", timeouts,
which open the stream again, and other errors, which end it. The collection
grows meanwhile. An event is its position, with data that is JSON or not.

### TransactionBuilder

Builders that share an `Account`, `build()` with its checks before the sequence
number is taken, the list of extra signers that an envelope shares with its
builder, and `build_fee_bump_transaction()` over own and foreign envelopes.

An envelope either has a list of extra signers of its own or `shares` that of
its builder, as `Preconditions` does in the code, so that `Extra` of a built
envelope is the builder's list as it is now.

### SorobanAuth

The entries in `op.auth` of one simulated envelope. An entry is its credential
type, address, nonce, expiration ledger (`until`), signature and delegates; a
signature is who made it and the preimage it is over, so that it verifies as long
as the entry still has that preimage, in which only the CAP-71 types bind the
address. The delegates, lists within lists in the code, are one sequence of all
nodes, in which `under` is the number of the node that a list is nested in (0 for
the entry's own list) and `at` the place in that list: what the recursion over
nested lists does is then said of every node at once.

| Actions | Code |
|---|---|
| `Authorize`, `AuthorizeFails` | `_authorize_entries` behind `authorize()` and `sign_auth_entries()`: every entry of an address, or those up to the one at which the signer raises |
| `AuthorizeByHand` | `authorize_entry()` with `for_address`, of any node of an entry: the address's signature into every node that is its |
| `AddDelegates` | `build_with_delegates_entry()`: each list sorted by address, refused if two of its addresses are equal, the entry wrapped |
| `AuthorizeAnew` | `authorize_invocation()`: a new entry with a nonce of its own |
| `Simulate`, `Prepare`, `Sign` | what these do to the entries, the latest ledger and `_needs_preparation` |

`last` is history: for each entry, the addresses whose signatures the last signing
brought, which are several when `build_with_delegates_entry()` is given signatures of
delegates (`Bringing`).

`HostAccepts` is CAP-71's rule as the docstrings of `auth.py` state it: every list
in ascending order, every delegate signed over the one preimage, and the account
itself too unless it leaves signing to its delegates.

### XDR

Every generated class is described once, under its own name, by a record made
with the operators of `XdrDescriptions` (`Struct`, `Union`, `List`, `Optional`,
...): the order and limits of its fields, its arms, the JSON name of each part.
The descriptions are divided as the `.x` files are: `XdrTypes`, `XdrContract`,
`XdrConfigSetting`, `XdrLedgerEntries`, `XdrTransaction`, `XdrResults`, `XdrSCP`,
`XdrLedger`, `XdrOverlay`. Recursive classes, and large ones that many others
contain, are referred to by name (`Ref`) and looked up with `Definition`.

`XdrCodec` says what `pack` and `unpack` do with each kind of description: lengths,
padding, limits, the depth that each class passes on to its parts, the check of a
list's length against the rest of the packet, and the end of the packet.
`XdrJson` does the same for `to_json_dict` and `from_json_dict`: names of
discriminants, 64-bit numbers and the parts of 128 and 256 bit ones, strkeys,
asset codes, and the escapes of texts. `XdrExchange` sends a value: packed, cut,
extended or overwritten, and unpacked; or written as JSON and read. `PeerSends` is a
peer whose values our constructors would have refused.

### ChallengeSignatures

`verify_challenge_transaction_threshold` and the functions it calls: the list of
signers to try, the matching of signatures with signers (one signer per step),
and the verdict. A signature is the key that verifies it.

## 4. Runs

| Run | Question | Bounds and why they are enough |
|---|---|---|
| `authorized_invocation` | Is only what is ready accepted, does a simulated transaction come after the restore it waited for, is the cached result always of the latest simulation? | One object whose call needs a wallet's authorization and a contract's, with several entries: all orders of signing, half-way signing, preparing and simulating between them. Two sequence numbers, so that a restore takes the first and the invocation meets what is left. |
| `plain_invocation` | Is the fee accounted for, is there at most one invocation, and one more for a lost reply, and are outcomes true? | A call without entries, the only kind that can be a read call. Simulations that ask for what they store or for one more, of two different amounts, so that the two numbers differ in one preparation (`MaxExcess` is 1) and agree in any others before and after it. One lost reply, another wallet, and two sequence numbers, so that a second invocation does get in after the lost reply. The object has no `transaction_signer` and so restores nothing; that the fee of restores is accounted for too is `FeesExact`. |
| `shared_account` | Do two objects that race for an account still implement `Invocation`, and so report their own invocation? | Two objects, two sequence numbers, each used with `simulate()`, `sign_and_submit()`, `submit()`; all requests interleave. |
| `backoff` | Does polling end, in time and not too early, and ask seldom enough? | Timeouts from 0 to 20 s: none, below and at the first wait, at and just past the second, and long enough for the cap; the network settles at any moment up to past the longest one. |
| `event_stream` | Is each event yielded once, in order, and in the end? | Up to four events, all cursors to begin with, any number of timeouts. |
| `builder` | Are sequence numbers counted, do fee bumps pay enough, does a built envelope stay as it was? | Two builders of up to two operations and three extra signers, fees around every rounding boundary, own and foreign envelopes. |
| `challenge` | Is what is verified signed, and what is signed verified? | All lists of up to three signers and four signatures over two client keys, the server's and unknown ones, with thresholds none, one or both client keys reach. |
| `async_invocation` | Is what is accepted ready, the flag honest, the cache earned, the invocation one, the report true and the invocation findable, whatever two coroutines interleave, and is it together what `Invocation` promises? | Two tasks, and four awaited calls, failures and cancellations between them: enough for a prepare, a simulate and two submits to overlap in every order, or for a cancelled submit before another. The authorization of a contract account with several entries, the kind that needs preparation and that a signer may leave half way. |
| `soroban_auth` | Do signatures stand, does that of whoever signed last, and is nothing signed unseen? | Two entries: of one contract account, of a contract and a wallet, or of the source account; a tree with a delegate at two levels and one that is refused; two expiration ledgers, agreed or computed; two simulations. |
| `xdr` | Is what is packed read back, and nothing else? | 26 classes, which contain all others but a few enumerations and keys of the overlay; for each its least value and all that differ from it in one place, three to seven levels down: every arm, texts at and one past any limit up to 64 bytes and lists at and one past any up to 12 items, predicates that nest around the limit of depth. Every packet cut, extended, and, up to 16 words, every word of it overwritten. |

The other two runs look for a violation of what a docstring says, and find it;
each is a finding in `PROJECT.json`:

- `prepare_restores`: `prepare()` that restores archived state returns a
  transaction whose sequence number the restore has used. `RestoreSpends` proves
  that this is so every time, and that `sendTransaction` cannot take what
  `sign_and_submit()` goes on to send.
- `resubmit`: after a refused submission, `submit()` polls the refused hash and
  ends in `TransactionStillPendingError`. By the last conjunct of `OutcomeIsTrue`,
  which is proved, this is the only way to be told so of a transaction that the
  network never had.

The models also show some lesser things for which there is no run:

- A stream opened at "now" that times out before its first event begins again at
  a later "now" and skips what came between (`client/requests_client.py`, line
  222): the properties of `EventStream` count from the last such beginning, and
  `SkipsOnlyUnderNow` proves that there is no other way to skip an event.
- A stream without a cursor that fails before its first event raises `KeyError`
  instead of `StreamClientError` (line 243), and no other stream does
  (`KeyErrorOnlyAtFirst`).
- A challenge that no client key signs but one that is also the client domain's
  key is refused, whatever its weight (`sep/stellar_web_authentication.py`, line
  413); hence `ClientsSigned`, without that key, in `SignedIsVerified`, which says
  that any other signers of enough weight suffice.
- The server is compared with a string and so never left out of the client's
  signers (line 392): two signatures of its may be consumed, without effect on
  what is verified.
- A repeated `sendTransaction` answered `DUPLICATE` is reported as a failure of a
  transaction that the network has (`contract/assembled_transaction.py`, line
  478): hence `lost = 0` in `OutcomeIsTrue`, and `MaxLost = 0` for `KeepsPromise`.
- Two `submit()` coroutines of one object both send when neither has an answer
  yet (`contract/assembled_transaction_async.py`, line 483), and a cancelled one may
  leave an accepted invocation unrecorded: hence `Orderly`.
- `result()` awaited next to `simulate()` keeps the previous simulation's result
  until the next one (line 113): hence `peeked`.
- `add_extra_signer()` after `build()` changes the built envelope, past the limit
  of two (`transaction_builder.py`, line 143): hence `GetsSigner`.
- `pack` has no limit of depth, and packs what `unpack` refuses; an array of fixed
  length that is left empty is packed as nothing; an optional arm that is absent is
  packed, but not written as JSON; nor is an asset code that is not ASCII. All
  these are the exceptions that `RoundTrip` and `JsonRoundTrip` name.
- An entry whose account leaves the signing to its delegates keeps its void
  signature, as `build_with_delegates_entry` documents; `needs_non_invoker_signing_by`
  goes on to count it as unsigned, so that `prepare()` and `sign()` refuse the
  envelope.
- `authorize()` again for a contract's address, whose signer raises at a later
  entry, leaves earlier ones newly signed without `_needs_preparation`
  (`contract/assembled_transaction.py`, line 408; `..._async.py`, line 417).
  `simulate()`, `authorize()` of both entries, `prepare()`, `authorize()` that raises
  and `sign_and_submit()` then put an invocation into the network whose resources
  were computed before a signature it carries, and the error that asks to "call
  prepare() before signing" is not raised: hence `halfway` in `AcceptedIsReady` and
  `FlagIsHonest`, and `loose` in `SignedAsSeen`. The properties say that there is no
  other way.
- A preparation adds `min_resource_fee` to the fee and the next one takes off the
  stored `resource_fee`. Where a simulation has these differ, the difference stays in
  the fee at every preparation, though the comment there is to "Reset fee to the
  original value" (`base_soroban_server.py`, line 75): hence `excess` in `FeeExact`,
  which says that nothing else does.

`CHECK_DEADLOCK FALSE` is set where the system ends: a polling that returned, a
generator that raised, builders at the bounds, a challenge that was judged, tasks
that have made their calls, a packet that was read, an envelope that was signed.

### Fairness

`AssembledTransaction`, its asynchronous counterpart, `SorobanAuth` and the builder
have none: their properties are safety, and nothing obliges a user to go on, or a
ledger to close. `Backoff` has weak fairness of the loop's
own steps and of `Answer`: the loop runs in one thread and its requests have
timeouts, after which they raise (`Raise`); whether the network ever settles the
transaction is left open, and `Ends` holds all the same. `EventStream` has weak
fairness of the steps the generator takes when it is iterated, and strong
fairness of `ServerSends`, for a server to which the client connects over and
over again; `EveryEventDelivered` says on top of it that timeouts at last spare
what is on its way, without which no client could deliver anything.

## 5. Proofs

All proofs hold for every value of the constants that the `ASSUME`s of the
modules allow: any number of objects, addresses, fees, events, signers.

**StellarNetworkProofs.** Lemmas only, for both kinds of invocation: what each
operator on envelopes does to each field, and that it keeps an envelope's fee
(`Paid`), entries (`Whole`) and coverage (`Fit`, `Ready`) as they must be.

**AssembledTransactionProofs.** `TypeCorrect` first. The types of the attributes
are not inductive: that `AnswerSimulate` finds a transaction in `draft` depends on
where the call is. `Locals` says which locals and attributes exist at which
request, and whose transactions they are; `TypeInv` is both. Then eight theorems,
each from an inductive invariant that stands on `TypeInv`:

- `FeesExact` and `OnlyReadyAccepted`. `FeeExact` and `AcceptedIsReady` speak of
  transactions that are built or accepted; what makes them hold is carried along
  in the drafts. `EnvelopesGood` says of a draft that its fee is the base fee, its
  stored resource fee and its `excess` (`Paid`), whatever pairs of fees the
  simulations ask for, and that its entries are all or none of those required
  (`Whole`); and of a built transaction that unless it needs preparation its
  resources cover the contract accounts that have signed, but for those signed
  again half way, and that if it is signed then nothing is missing (`Fit`). There is
  one step for each action.
- `OneInvocation`, however many replies are lost. `Counted`: an object's
  invocations are as many as the replies it lost, and one more only if it has
  `send_transaction_response`, after which it never sends again. `Sending` says of
  every step which transaction, if any, it adds.
- `SubmitIsTruthful`. `NetworkGood` (a hash is applied once, and what is applied
  was accepted), `SentIsAll` (as long as no reply is lost, an invocation in the
  network is the one in `send_transaction_response`) and `Told`, which says what
  each report rests on in terms of attributes that later calls do not undo.
  `PendingGood` adds that an answer of `PENDING` was of a transaction the network
  took.
- `LatestSimulation`. `CacheGood` adds that the cache is empty while `simulate()`
  awaits its answers.
- `SimulateComesAfterRestore`. `RestoresGood` adds that the sequence number of a
  restore is in the ledger, so that an account loaded afterwards is past it.
- `RestoreSpends`, its counterpart for `prepare()` and `sign_and_submit()`, which
  load no account afterwards. `Older` follows the sequence number through a call:
  no transaction in it is past the account's next number, the restore is built with
  that next number, so it is not before `built_transaction`, and simulating again
  changes no sequence number. There is a lemma for the calls that begin
  (`BeginsOlder`), the answers of requests (`RequestsOlder`, `AnswerOlder`), and for
  other objects' steps (`Locality`).
- `EveryRoundSpends`, an action property from the same invariant: `simulate()` and
  `prepare()` call themselves after a restore without a bound, but each round has
  had a restore applied that is past the one before in the account's sequence.

Last, `PromiseKept`. If `MaxLost = 0`, every step maps to a step of `Invocation` or
to none. `Meaning` reads the stage and the report off
the invariants above; `ClientStep` shows that a client's step is `Accept` or `Tell`
of that client and changes nothing of the others, `NetworkStep` that `Apply` is
`Settle` and everything else a stutter.

**AssembledTransactionAsyncProofs.** Ten theorems about any number of tasks, from
three invariants:

- `Good` (`AsyncInvariant`): each task's local fits the request it awaits
  (`LocalGood`), the attributes fit each other (`BuiltGood`), and what the network
  took was ready and is applied once. A task's invariant speaks of its own locals and
  of nothing shared, which is why it survives the steps of the others; what makes
  `FlagIsHonest` and `AcceptedIsReady` hold is that an envelope under way is fit by
  itself, whatever it will overwrite. The flag is honest but for
  `halfway`, which only `AuthorizeFails` adds to and every assembly empties. Each
  step has a lemma.
- `CacheInv`: the cache is that of the latest simulation, and empty while a
  `simulate()` is under way, unless somebody has peeked. `SimulatingGrows` shows
  that whoever makes an object simulate empties the cache in the same step.
- `OnceInv`: as long as sends do not overlap and every acceptance is heard of, at
  most one request is under way, and it, or else `send_transaction_response`,
  accounts for every invocation the network took. Steps fall into five kinds (`Quiet`,
  `Starts`, `Leaves`, `ServerTakes`, `SendAnswered`), of which each action is shown to
  be one. `AtMostOneInvocation` and `Findable` follow, and with `Told`, which says what
  each report rests on, `OutcomeIsTrue`.

`AsyncPromiseKept` stands on all of these. `Alone` shows that a step of a task
changes no other's report, `TasksOnlySend` that only `ServerTakes` changes the stage
(`TakenAccepts`: it is then `Accept`, since a report made earlier would contradict
`Told`), `NetworkSettles` that the ledger's step is `Settle`, and `OthersTell` that
every other step is `Tell`. What was sent behind the object's back stays so
(`SentKinds`), which is why the theorem is about every step up to the first such
send and not only about runs without one.

**BackoffProofs.** `SleepsForward`, `EndsInTime`, `NoEarlyGiveUp` and `AsksApart`
for all timeouts and latencies, from an invariant that relates the clock to the
deadline at each point of the loop, bounds the next wait, and says what a "not
found" tells about when the network can have settled.

That the loop ends needs fairness, that it cannot go on for ever does not.
`AsksBoundedly`: there is one request per second of the timeout, and at most two
more; `Paced` relates the number of requests to the time since the first answer.
`NeverEndless` takes this to a variant: `StepsLeft` is a natural number, and every
step decreases it. What is left to TLC of `Ends` is that the steps are taken.

**EventStreamProofs.** `OnceInOrder` for any collection, from the relation
between the cursor, what was read, and the connection (`Began`, `Inside`,
`Connected`), with lemmas about appending to the sequence of events yielded. On
top of it, three theorems that say what a reconnection may do. `CursorMovesOn`: a
cursor that is a position stays one and never moves back. `SkipsOnlyUnderNow`: the
stream begins anew past an event only under "now" and before it has yielded
anything. `KeyErrorOnlyAtFirst`: the same for the error handler's own exception.

**TransactionBuilderProofs.** `SequenceCounted` from the invariant that it is, by
lemmas on `Append`; `BumpPaysMore` from two facts of arithmetic: what a rounded-up
division bounds, and that multiplication keeps it. `NothingElseChanges` is an
action property: each action either leaves the content of a built envelope alone
or is `AddExtraSigner` of the builder whose list it shares.

**ChallengeSignaturesProofs.** `VerifiedSigned`. The verdict compares two
lengths; that this excludes foreign signatures is a counting argument: `used` and
`found` grow together (`Consumed`), each used signature is of a signer that was
tried, and a subset of the positions that has as many elements is all of them.
`SignedVerified` is the converse. No signer that signed is passed over on the way
through the list (`Tried`), so that at its end every signer with a signature has
been found, the lengths agree by the same count, and the verdict, which was made
from what was found (`Judged`), is "Verified". Who is listed twice, or in two roles,
needs no exception.

**SorobanAuthProofs.** Three theorems, from two invariants on top of the types:

- `EntriesGood` speaks of each entry by itself. Every signature in it is its node's
  own, and over the preimage the entry now has but for the ledger (`Own`); if there
  is any, somebody signed last, and each of those holds one until the entry's ledger
  (`SignedLast`); and each list of delegates is ascending (`Ascending`). A lemma for each of the functions of
  `auth.py` (`AuthorizeEntryGood`, `AuthorizeNodesGood`, `NewEntryGood`,
  `WithDelegatesGood`) shows that they return such entries. `PlaceAscends` is why
  sorting does: of two with different addresses in a list, the one with the smaller
  address has fewer before it. `AgreedAccepted` and `LastVerifies` follow: what is
  over the same ledger is over the same preimage, and those who signed last are over
  the entry's.
- `Seen` relates the entries that the last simulation has not seen to what keeps
  `sign()` from going on: `_needs_preparation`, or an entry that nobody has signed.
  A signer that raises half way sets no flag; that it leaves a later entry unsigned
  takes `InOrder`: an address's entries, unless changed by hand, are signed from
  the first on. `SignedSeen` follows.

Only model-checked, not proved:

- the liveness properties `Ends` of `Backoff`, but for its safety half, and
  `EveryEventDelivered` of `EventStream`: the provers here have no reasoning about
  fairness or `ENABLED`;
- the properties of `XdrExchange`: the codec walks values and descriptions by
  recursive operators, of which the provers have no induction.

## 6. Not modelled

- Contents: hashes, keys and signatures are values of which equality is all that
  counts; in the invocation modules a hash is the transaction without its
  signature. Base64 and the checksums of strkeys are left out of the XDR modules.
- Operations, key and address formats, federation, TOML, URIs and mnemonics:
  conversions without state.
- Ledger time: time bounds that pass show as a transaction the ledger drops
  (`PoolEvicts`), not as a clock; expiration ledgers of authorization entries are in
  `SorobanAuth`, where what matters is which of them was signed.
- Other networks: a signer that signs for another passphrase, or for an address
  that is not its own, is refused by `authorize_entry` before anything changes.
- In `AssembledTransactionAsync`, other wallets of the account and lost replies that
  the HTTP client repeats: `AssembledTransaction` has them.
- Multi-signature source accounts, and what section 2 lists as left.

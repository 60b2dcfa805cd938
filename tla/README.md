# Verification of tosdk

TLA+ specifications of the TypeScript SDK in this repository, the TLC
configurations that check them on small instances, and proofs that TLAPS checks
for every instance. Paths below are relative to the repository's root (the
modules' comments write them with the repository's directory in front,
`src/src/...`).

1. [The system](#1-the-system)
2. [The modules](#2-the-modules)
3. [The runs](#3-the-runs)
4. [What is proved](#4-what-is-proved)
5. [Findings](#5-findings)
6. [Not modelled, and the plan](#6-not-modelled-and-the-plan)

## 1. The system

The SDK is a library: one JavaScript thread, no threads of its own, nothing
persisted. What makes it hard is what happens between two `await`s. User code,
resumed async functions (jobs) and socket events interleave; the node, other
clients and other calls of the same process change what has been read.

| Component | State it keeps | Operations | Talks to | Hard behaviour | What makes it correct |
|---|---|---|---|---|---|
| WebSocket transport (`src/transports/webSocket.ts`) | `statePromise`; per connection `nextId`, `pendingRequests`, `subscriptions` | `request`, `subscribe`, `unsubscribe`; listeners for open, close, message, error | socket, server, user callbacks | close at any moment, answers in any order, ids that restart per connection, events before their handler, callbacks that call the transport again while it closes, callbacks and factories that throw | answers and events reach the call they are for; one live socket; every promise settles; an active subscription is wired and complete |
| HTTP transport (`src/transports/http.ts`) | `nextId` | `request` | fetch | failure of either message | a result only for an `ok` response without `error` |
| Public client (`src/clients/createPublicClient.ts`) | none; the frame of `waitForTransactionReceipt` | some 150 reads, `watch*`, `waitForTransactionReceipt` | a transport, timers | polling against a deadline with late responses and timers | a receipt in time is found; the wait ends soon after its deadline |
| Wallet client (`src/clients/createWalletClient.ts`) | none; frames between nonce reads, signing and sending | build, sign, assemble, send, lease and package calls, calls the node signs | public client, account, sponsor | calls that overlap read the same nonce; a failure after the transaction has left; signing and assembling at different moments | what is signed is sent; a given nonce is used once; outcomes are true |
| Paymaster and sponsor flow (`src/clients/createPaymasterProviderClient.ts`) | none; the frame of `buildPaymasterAuthorizationRequest` | quote, authorize, status, receipt, health | provider, public client, account | quote and nonces read at different moments, beside other calls of the account | the authorization is signed for the transaction the paymaster puts together |
| Signer, storage and artifact provider clients (`src/clients/create*ProviderClient.ts`) | none | one fetch per method | provider | base URLs, headers and bodies as callers give them; answers that are errors or no JSON | the answer is the provider's, and nothing else is taken for one |
| Agent discovery (`src/surfaces/agentDiscovery.ts`) | none; the frame of a search | search, join cards, rank, filter, diagnose, require | public client | agents change between the search and their cards; a comparator with special cases; two versions of the trust test | the best that fits is chosen, and the explanation agrees |
| Agent runtime, runtime settlement (`src/surfaces/agentRuntime.ts`, `runtimeSettlement.ts`) | none; the frame of a search or a settlement | joins of metadata, receipts, effects; a second selection | public client | dependent reads while blocks are added and reorganized away, only some of them at the caller's block | the parts belong together; the two selections of the repository agree |
| Address functions (`src/utils/address/*.ts`, `src/utils/lru.ts`) | two process-wide `LruMap`s | `isAddress`, `checksumAddress`, `getAddress` | every other component | the caches are shared by all callers and bounded | a hit and a miss cannot be told apart; the bound holds |
| Encodings (`src/utils/encoding`, `abi`, `data`, `unit`, `transaction`, `cursor.ts`) | the cursor's position | RLP, ABI, hex, units, serialization | wallet client | widths, padding, zero against absent, rounding, offsets | an encoding determines what was encoded |
| Hashes and signatures (`src/utils/signature`, `src/utils/hash`) | none | message and typed-data digests, serialized signatures, verification, recovery | accounts | five signer types, three forms of a signature, structs reached through others | a signature verifies for what was signed and for nothing else |
| Accounts (`src/accounts`) | the private key its methods close over | sign hashes, messages, transactions, authorizations | noble curves | names and aliases of signer types; a normalised type in the transaction and not in the signer | what an account signs verifies with the account's own key and type |
| Records and schemas (`src/utils/artifact.ts`, `storage.ts`, `settlement.ts`, `market.ts`, `src/schema`) | none | canonical texts and hashes, validation | evidence, proof market | member order, undefined, bigint, nested values | equal meanings have equal hashes |
| Other surfaces (`src/surfaces/*`) | none | renamed reads, validation, health checks, copies of fields | public client, providers | falsy values that are given | nothing that was given is lost |
| Types, chains, constants, errors | none | - | - | - | - |

## 2. The modules

### WebSocketTransport, RpcSession, JsMaps

`WebSocketTransport` models `createWebSocketTransport` step by step. An action is
what the thread runs without interruption: the part of a function up to its next
`await`, or one listener. One listener is interrupted: `handleClose` calls the
`onError` of every subscription before it clears the map and resets `statePromise`,
and an `onError` may call `request`, `subscribe` and `unsubscribe`. It is therefore
several actions, between which user code runs and no job or event does.

| Action | Code |
|---|---|
| `Request`, `Subscribe`, `Unsubscribe` | the calls, up to `await connect()` (`CallRequest`, `Connect`) |
| `Send` | `request` after that `await`: take an id, set the entry, send |
| `ConnectFailed`, `SubscribeFailed` | the same functions when what they await was rejected |
| `Reconnect`, `Attach` | `subscribe` after `await request`, and after its second `await connect()` |
| `Open` | `handleOpen` |
| `Close` | `handleClose` up to its second loop: the pending requests are rejected (`RejectPending`) |
| `Tell` | one round of that loop: the `onError` of a subscription is called; what it calls are the user's actions (`UserRuns`) |
| `EndClose` | the rest of `handleClose`: `subscriptions.clear()`, `statePromise = undefined` (`Forget`) |
| `OnErrorThrows` | an `onError` throws and ends `handleClose` where it is |
| `Answer`, `Notify` | the server answers or notifies, and `handleMessage` (`Settle`, `Deliver`) |

The closure's variable `statePromise` is a connection or `Undefined`; the maps of
a `WebSocketState` are functions per connection (`JsMaps` gives the operations of
a JavaScript `Map`); `phase` and `stage` are the program counters of the frames.
The server is external and minimal: it answers requests in any order, refuses
some, never uses a subscription id twice, and notifies the ids it keeps alive.
`received` and `issued` remember what a property needs to compare, and two history
variables remember who missed a close: `unheard` has the calls that awaited their
connection when it closed and those made in an `onError`, which join the connection that
is closing because `statePromise` still holds it; `aborted` has the connections whose
`handleClose` was ended by a throw and never resets `statePromise`.

Three things are choices of the environment. `EventsWaitForJobs` says whether the
socket runs jobs between two events, as a browser does, or may emit several from
one callback, as Node libraries and the fake socket of `test/client.test.ts` do.
`CallsInOnError` says whether an `onError` calls the transport; it is false only
where a run is to show one fault by itself.
`Faults` lists what fails outside the transport's code. Jobs run in any order
although an engine runs them in queue order, so safety properties hold of more
behaviours than there are.

`RpcSession` is the abstract specification: what a user sees who only knows
promises and callbacks. A call settles once, with an answer of its own; a
subscription is opened, gets events, and is stopped or lost.
`ImplementsSession` is the refinement, with `CallOf` and `WatchOf` as its mapping.

### AddressCache, LruMap, AddressFunctions

`LruMap` models `get` and `set` of the `Map` subclass over sequences of entries in
iteration order, the tests for `undefined` and for a falsy key included.
`AddressCache` has one action per exported function and both caches as state.
`AddressFunctions` is the abstract specification: pure functions, and a
least-recently-used list of the last keys. Strings are model values with
`LowerCase` and `WellFormed` given by constants, assumed only what
`toLowerCase` and the regular expression guarantee.

### ReceiptPolling

`waitForTransactionReceipt` with a clock. `Wait` is the call, `Loop` the head of
the `while`, `Fail` and `Receive` the two ends of the request, `Wake` the timer.
`Serve`, `Mine` and `Tick` are the node and time. A response or a timer may be up
to `MaxLag` late; the code bounds neither, so what is said about the deadline is
said relative to `MaxLag`.

### WalletClient

Calls of one account under way at the same time. Their kinds are those whose
steps differ: `sendTransaction` and all that ends in it ("send"),
`signAuthorization` followed by `assembleTransaction` and `sendRawTransaction`
("split"), `leaseDeploy` ("lease"), `leaseRenew` and `leaseClose` ("renew"), the
calls whose transaction the node signs ("node"), and a paymaster's quote with
`buildPaymasterAuthorizationRequest` ("paymaster"). `Needs`, `Build` and `Reply`
are the `Promise.all` of `buildTransaction`, whose requests are answered one by one
with what is pending at that moment; `Sign`, `SignAuthorization`, `Assemble`,
`SendAssembled`, `LeaseBuilt`, `StartOnNode`, `Authorize` and `Settle` are the rest
of those functions between their awaits. A transaction is what its signatures and
the node tell apart, and a signature is the transaction it was made over. `Judge`
is what the node does with an envelope; `TransportFails` rejects a request whose
message may still arrive; `Lose` loses it.

### ProviderSelection, AgentDiscovery

`ProviderSelection` holds the pure functions of agent discovery: policies, the two
trust tests, the comparator, the rank, preferences and diagnostics, and `RankKey`,
the reference order the comparator stands for. `Sorted` is what `filter` and `sort`
make of a list: the elements kept, in the order of the comparator, and where it does
not decide in the order they had (`Array.prototype.sort` is stable). `AgentDiscovery`
is the search: one
request for the results, one for each card in turn, while agents republish, are
judged anew or leave; then the choice. The directory forms differ in the first
request only. A card's routing facets and package name are modelled by whether
they are what the caller asks for, not by their text.

### PublicClient, SurfaceSelection, AgentRuntime

`PublicClient` is a table: which block each method of `createPublicClient` names in
its request when the caller gives one, and when not (`RequestBlock`); the same for
the log filters (`LogFilter`, `NewFilter`), and for the functions of
`goClientParity.ts`, which rename the methods and fix some of the blocks.

`AgentRuntime` has the calls that join what several requests return, over a chain
whose last block may be replaced until it is final. A call is one action per
answer: `ReceiptAnswered`, `EffectAnswered` and `PartyAnswered` for the settlement
surfaces, whose parts and order are `Plan`, `SearchAnswered`, `CardAnswered` and
`RuntimeAnswered` for the searches. `Read`, `ParityRead` and `LogRead` are single
reads. Receipts and effects are read from the last block, because their requests
name none; contracts at the block the caller gave. `Mine`, `Reorganize` and
`Finalize` are the chain (external); the call's `replaced` remembers that a block
was replaced while it ran.

`SurfaceSelection` holds the pure functions of `agentRuntime.ts`: trust by the
published package, the comparator, preferences, diagnostics. `AsProvider(e, offer)`
gives the provider of `ProviderSelection` an entry stands for when the agent's card
makes that offer (a mode and fees, or none) and says of package and routing what the
chain says. The two selections order alike but for the offers, which
`agentDiscovery.ts` looks at first and `agentRuntime.ts` not at all: `BetterOffer` is
the whole difference, and `SameButForOffers` says that discovery chooses the same
agent, or, exactly if others that fit make an offer its policy prefers, one of those.
Of the two preference filters the one difference is a missing
minimum of trust: `agentDiscovery.ts` takes it for 0, `agentRuntime.ts` does not
test it; no score is below 0, so none tells the two apart.

### Conversions and the modules it extends

The pure functions, each as the code computes it:

| Module | Code |
|---|---|
| `Hex` | `src/utils/data`, `src/utils/encoding` (`toHex`, `fromHex`, `toBytes`, `fromBytes`, `pad`, `trim`, `slice`, `size`) |
| `Units` | `src/utils/unit` |
| `Rlp` | `src/utils/encoding/toRlp.ts` and the writing half of `src/utils/cursor.ts` |
| `AbiEncoding` | `src/utils/abi/encodeAbiParameters.ts` |
| `TransactionEnvelope` | `src/utils/transaction` |
| `Signatures` | `src/accounts/utils/nativeSigner.ts`, `sign*.ts`, `src/utils/signature` |
| `TypedDataHash` | `src/utils/signature/hashTypedData.ts`, `src/utils/typedData.ts` |
| `Accounts` | `src/accounts`, messages, and the content of a paymaster's authorization |
| `RpcParameters` | `serialize*` and `parse*` of the public and the wallet client |
| `CanonicalRecords` | `src/utils/artifact.ts` and its relatives, receipts, `src/schema/validate.ts` |
| `ProviderClients` | `src/clients/create*ProviderClient.ts`, `operatorControl`, `delegatedExecution`, `evidence`, `proofMarket` |

They are called one at a time (`Calls`): `task` is the call, `result` what it
returned. `Conversions` calls `Hex`, `Units`, `RpcParameters` and `ProviderClients`,
whose recursion is written as functions, so that it can be proved about;
`Encodings` extends it and calls the others. Each property compares call and result with an independent reading, never
with the function itself: a decoder of RLP and of the ABI that knows the types
only, a node that reads an envelope, a verifier with the public key. Hex is the
sequence of its digits, bytes are numbers, a text is its UTF-8 bytes; an option left
out is `Undefined`, and what throws gives `Thrown`. For typed data and records Keccak is
free: a hash is the record of its preimage, so that two hashes are equal exactly if their
preimages are; for what is signed it is a checksum of the bytes that fits a word
(`Keccak256`, with the zero `toBytes` puts in front of an odd number of digits).
`Units` rounds as `Math.round` rounds a double of `Bits` bits. The curves are external; the ElGamal scheme, which the repository implements
itself, is computed over a group of a small prime order, where the scalar 0 it
refuses does come up (`Degenerate`).

Some values share an encoding by design, and the properties name them instead of
passing over them:

* terminal class 0 and trust tier 0 encode as if they were absent, and data of an
  odd number of digits as data with a leading zero (`Meaning` in
  `TransactionEnvelope`); `EnvelopeBinds` says that nothing else coincides.
* In a canonical record a member that is undefined does not count, undefined in an
  array is null, a bigint is its decimal text and a `Date` an empty object
  (`MeaningOf` in `CanonicalRecords`).
* The domain of typed data whose version is the empty text has no version.
* With a size, a text comes back without its last zero bytes, and always without a
  byte order mark in front of it, which `TextDecoder` takes off (`Decode`).
* A raw hex message of an odd number of digits is put behind the prefix as it is, and
  the whole is padded in front: its digest is that of no bytes, those `toBytes` makes
  of the message neither (`Content` in `Encodings`).
* A fixed array of typed data may have another number of members than its type says.
  The length is dropped, in `validateTypedData` and in `encodeField`; the digest commits
  to the type and to the members given, and `TypedDataBinds` says so. It also says that a
  struct whose name begins like a type of Solidity (`Reserved`: `intent`) is refused as
  the type of a field, and only there: not in an array and not as the primary type.
* Of the headers given to a provider's client those of a plain object arrive, and only
  in a call with a body; those of a `Headers` object are lost, those of a list of pairs
  are sent under the number of the pair, and `GET` calls send none (`HeadersArrive`).

#### EmptyStatic

`encodeAbiParameters` accepts types without members, `uint256[0]` and the empty
tuple, whose static encoding is empty, and bytes of half a byte (`0xabc`). Solidity
has neither, so there is no reader to compare with: `AbiDecodes` leaves them out
(`HasEmptyStatic`, `WholeBytes`), except that a value which does not fit must be
refused there, too.

## 3. The runs

Every `MC*.cfg` names its bounds. `CHECK_DEADLOCK FALSE` stands where the system
may really stop: nobody has to call again.

| Run | Bounds | Shows |
|---|---|---|
| `websocket_queued` (`MCWebSocketQueued.cfg`) | 2 subscriptions, each with its two requests, 3 connections, 1 event per subscription, an `onError` that calls the transport, all faults but a throwing `onError`; events wait for jobs | `ActiveSubscriptionIsWired`: an active subscription's handler is on the connection that issued its id, and that is open or its close will come to the handler. `NoNotificationMissed`: it has had every event sent. `CallsSettle`, `SubscribesSettle`: whatever is called settles, unless it missed the close of its connection |
| `websocket_any_socket` (`MCWebSocketSync.cfg`) | 1 request, 2 subscriptions, 2 connections, an `onError` that calls the transport, all faults; any socket | `OneLiveSocket`, `ResponseMatchesRequest`, `NotificationsReachOwner`, `SilentAfterEnd`, the refinement `ImplementsSession`, and `NoOrphanedRequest`: what waits for an answer waits on an open socket, in the map where its answer and the close look, unless it missed the close or a throw ended it |
| `websocket_refused` (`MCWebSocketRefused.cfg`) | 1 request, 1 subscription, 2 connections that may close before they open | a violation of `EveryCallSettles`: finding 1 |
| `websocket_missed` (`MCWebSocketMissed.cfg`) | 1 subscription, a socket that does not wait for jobs | a violation of `NoNotificationMissed`: finding 2 |
| `websocket_reentrant` (`MCWebSocketReentrant.cfg`) | 2 subscriptions, 2 connections, an `onError` that subscribes, no fault | a violation of `EverySubscribeSettles`: finding 3 |
| `address_cache` (`MCAddressCache.cfg`) | 4 addresses (one lower case, one mixed, another, one ill-formed), 2 chain ids, caches of 2 | `CachesBounded`, `MemoIsCorrect`, the refinement `ImplementsFunctions` |
| `receipt_polling` (`MCReceiptPolling.cfg`) | interval 2, lag 1, timeouts 0, 1, 4, 6, 7, clock to 14 | `MinedInTimeIsFound`, `OverrunBounded`, `FoundPromptly`: no call goes on for long when the node has the receipt. `WaitSettles` |
| `wallet_client` (`MCWalletClient.cfg`) | 2 calls, 14 sets of parameters (the six kinds, nonces given or not, sponsors that signed, signed for another nonce, or did not), failing requests | `SignedIsSent`, `GivenNonceIsUsedOnce`, `OnlyOverlapCollides`, `OutcomeIsTrue` |
| `wallet_terminal` (`MCWalletTerminal.cfg`) | a transaction with terminal context | a violation of `TerminalContextCarried`: finding 4 |
| `agent_discovery` (`MCAgentDiscovery.cfg`) | 3 agents of 3 degrees of trust and 4 cards, any subset and order of results, 1 change while cards are read | `SelectionExplained`, `BestIsChosen`, `ProvidersAreJoined` |
| `agent_runtime` (`MCAgentRuntime.cfg`) | 2 contracts with 3 states of their code, 1 receipt, 3 blocks made, the last of the chain replaced or not, blocks 0, 1 and none given, up to 2 results, cards that offer nothing, a paid service at two fees or a sponsored one | `FinalReadsRepeat`: a read of final blocks by number is repeatable, block 0 included, under both names of a method. `RuntimesOfOneBlock`: the contracts of a surface, those of a search and those of the parties of a receipt or an effect, are of the block asked for. `SettlementIsWhole`: receipt and effect refer to each other; one without the other needs a replaced block. `SurfaceExplained`, `AgreesWithDiscovery`: the second selection agrees with its diagnostics, and with the first but for the offers |
| `conversions` (`MCEncodings.cfg`) | words of 2 bytes, safe integers up to 100000, numbers around the ends of one and two bytes, hex up to 5 digits, texts with and without a byte order mark, decimal texts of up to 2 digits before the point and 4 behind it, doubles of 8 bits, up to 3 decimals, records that differ from a full one in two fields (`MCConversions`); RLP lengths 55, 56, 255, 256, ABI types nested twice, groups of order 5, 2 keys, messages of an odd number of digits beside the bytes of the padded ones, arrays of every length and a struct of a reserved name (`MCEncodings`) | `ConversionsInvert`, `ParametersReadBack`, `UnitsRound`, `ProvidersAnswer` of `Conversions`; `AbiDecodes`, `EnvelopeBinds`, `SignaturesVerify`, `AccountsSign`, `TypedDataBinds`, `RecordsBind` of `Encodings` |

Why these bounds are enough to meet the interesting cases. Two connections are
what it takes to meet an id, a handler or an answer of an earlier connection on a
later one; the third lets the second close as well. Two subscriptions are what it
takes to confuse owners, and to subscribe in the `onError` of another.
`websocket_queued` has no request besides those of its subscriptions, which is what lets
it have the third connection. Caches of two with four addresses evict, hit and move
entries. Timeouts below, at and above the interval put the deadline in every phase
of the loop. Two wallet calls overlap in every way one pair can. Three agents are
what transitivity of an order is about. Three blocks are
the first, which is final, a second, and one that follows or replaces it: a receipt
that is open in the first is settled in the second and, when that is replaced, not
settled; a second receipt only repeats it. Words of two bytes have a first and a last byte, a sign
bit, and room for an offset; the ranges, paddings and carries of 32 bytes are
theirs with other numbers. A double of 8 bits rounds up what lies just below a half from
the second digit cut off on, where one of 53 bits does from the sixteenth. The proofs of section 4 remove the bounds
for the safety properties of the stateful modules and for the conversions of
numbers, hex, bytes, texts and decimal units.

`Close` leaves the last connection open, so that a later `connect()` always finds a
connection to make; this bounds the runs and the model alike. Symmetry is used in
runs that check invariants and a refinement over interchangeable calls and
subscriptions, never with liveness.

**Fairness.** `WebSocketTransport!Fairness` is weak fairness of each job (the engine
runs its queue), of `Tell` and `EndClose` (a listener runs to its end), of
`Open(c) \/ Close(c)` (an attempt ends one way or the other)
and of `Answer` (the server answers; a close disables it by emptying the inbox).
Nobody has to call, notify or close. `ReceiptPolling!FairSpec` is weak fairness of
the request's end, of the timer and of time itself; mining is not fair.

Each property of a passing run has a mutant: a form of one definition with a
plausible bug ("Mutated form" in the modules) under which TLC finds the property
violated.

## 4. What is proved

The theorems hold for every value of the constants that satisfies the named
assumptions (`ConstantsAssumption`, `UndefinedAssumption`, `AddressAssumption`,
`TimeAssumption`, `ParametersAssumption`, `DiscoveryAssumption`,
`RuntimeAssumption`, `PartsAssumption`, `EntriesAssumption`, `HexAssumption`,
`DoubleAssumption`, `SpecialAssumption`, `InputsAssumption`, `FieldsAssumption`,
`ProvidersAssumption`), which TLC evaluates on the instances: mostly that
`Undefined` is not also a number, a connection or an id, and that constants are
of the kind their comments say. `RuntimeAssumption` has scores that are not
negative, without which the two selections would differ (section 2);
`DoubleAssumption` is that a significand has more than 3 bits. The three
theorems about orderly sockets have one more assumption, named below.

Every safety property, action property and refinement of the stateful modules is
proved. The proofs share one shape: an inductive invariant, a lemma per action, and
the property from the invariant; the lemmas about operators (`Sorted`, the LRU list,
the joins) are stated once, before the steps that cite them.

**WebSocketTransport_proofs.** `Invariance` proves the inductive invariant `IInv`;
`TypeCorrectness`, `AtMostOneLiveSocket`, `NoCrossedResponses`,
`NoCrossedNotifications` and `NoEventAfterEnd` follow. `ResponseMatchesRequest` is
not inductive alone: an answer settles whatever the map has under its id, so one
must know that a request the server holds is the entry under its id on that very
connection (`InboxEntries`), that an entry belongs to the request that made it
(`PendingEntries`), and that ids on the wire are below `nextId` (`TypeOK`), so that
a new id cannot replace an entry. `NotificationsReachOwner` needs that a handler is
under an id issued to its own subscription (`Handlers`, `ResolvedHasTicket`,
`OpenedIsResolved`), and `SilentAfterEnd` that a handler of a subscription that has
ended is on a closed connection, where its `onError` was called or is about to leave the
map. The proof
has one lemma per part, one step per action, and `*Effect` lemmas that state once
what an action does.

`TransportImplementsSession` is the refinement: each action of the transport is
mapped to one step of `RpcSession` or to none (`StepMaps`), from `IInv` alone, so with
any socket and all faults. An answer is a `Resolve` because the entry it
finds is the one of its own request; a close, which rejects the calls of a connection at
once, is a `ConnectionLost` that ends a set of calls, and each `Tell` one that ends a
subscription.

`WaitInvariance` holds of every socket and every fault. `WaitInv` says what a frame
behind its `await connect()` relies on: the promise that `statePromise` holds is pending,
rejected or of an open connection, unless its close is at work or was ended by a throw
(`PromiseIsLive`), and a caller whose connection is there finds it open, unless the
caller missed the close (`CallersAreConnected`). `RequestsAreNotOrphaned` follows. What it
exempts, `unheard` and `aborted`, is not empty in the code: finding 3 is a call of
`unheard`, and the theorem says that there is no other way to wait in vain once the
connection was open.

`WiredInvariance` and what follows from it, `SubscriptionsAreWired` and
`NotificationsAreNotMissed`, assume `Orderly`: the socket
lets jobs run between two events and no `onError` throws. Neither can be dropped:
`websocket_missed` shows an event lost without the first, and an `onError` that
throws leaves `handleClose` before it tells the other subscriptions. That an `onError`
calls the transport is not excluded. `WiredInv` says, per subscription, from the answer to
its handler, that the connection that issued the id is still open and nothing has been
sent for it yet, and of an active one that its handler is there, while a close tells the
others too (`SubscriptionOK`). Events could break this, and the point of the proof is
`NoJobAtEvent`: when one is dispatched nobody is between two such points.

**AddressCache_proofs.** `CacheInvariance` (`CacheInv`: each cache is a bounded
sequence of entries that pair a key with what the function computes, no key
twice); `BoundedCaches` and `CorrectMemos` follow. The work is in `LruGetFacts` and
`LruSetFacts`: what moving an entry to the end and evicting the first preserve.
`CachesImplementFunctions` is the refinement: by `HitTouches` and `MissTouches` the
keys of a `Map` that deletes, sets again and evicts are the least recently used list
that `Touch` defines, and by `CacheInv` a hit returns what a miss would compute.

**ReceiptPolling_proofs.** `PollInvariance` (`PollInv`: the last request was sent
before the deadline, what it waits for is at most `MaxLag` late, and a transaction
mined although the last response did not show it was mined after that request);
`NoMissedReceipt`, `NoLongOverrun` and `NoSlowReceipt` follow.

**Selection_proofs.** Of `ProviderSelection`, `ComparatorIsKeyOrder`: the comparator, with its cases
for providers that advertise no fee, is the lexicographic order of `RankKey`.
`ComparatorIsStrictTotalOrder`: it is irreflexive, transitive and total on different
records, which is what `Array.prototype.sort` asks for and why the rank does not
depend on the order of the search. `TrustIsExplained`: the filter and the
diagnostics are the same test. `SortedFacts`: under a comparator that makes sense
(`IsWeakOrder`) a sort lists each element kept once, none before one the comparator
puts first. `FirstOfSorted` takes the first that is good of such a list, and
`BestOfRank` concludes for `resolvePreferredAgentProvider`: the provider taken is
trusted, fits, and no other such one comes before it.

Of `SurfaceSelection`, `SurfaceTrustIsExplained` and `SurfaceOrderIsStrictTotal` say
the same of the second selection. `TrustAgrees`, `PreferencesAgree`: the two selections
have the same trust filter (but for refused packages) and the same preferences, entry by
entry, whatever the cards offer. `OrderAgrees`: discovery puts one agent before another
exactly if its offer is better for the policy, or the other's is not and the surfaces put
it first. `BestOfSurfaces` is `BestOfRank` for this selection, and `ChoicesAgree` joins
the two: discovery chooses the agent the surfaces choose unless others that fit make a
better offer, and then one of those, for all offers and under every execution policy.

**WalletClient_proofs.** Any number of calls of any kinds. The inductive invariant
joins where a call is and what it has (`Stages`, `GivenIsGot`, `SplitSigned`),
that its envelope fits it (`EnvelopeFits`), how a call that was given up relates to
the envelope it left on the wire (`WireOutcome`), that accepted nonces lie below
the pending one and differ (`AcceptedNonces`), and that a call which never
overlapped another has read what the node expects (`Alone`, `Fresh`).
`SignedIsAlwaysSent`, `NonceIsUsedOnce`, `CollisionNeedsOverlap` and
`OutcomeIsAlwaysTrue` follow. `Fresh` is what makes `OnlyOverlapCollides` work: a
refused nonce must have been stale, and only another call can have made it so.

**AgentDiscovery_proofs.** `JoinInvariance` (`JoinInv`: the providers joined are the
first results, in order, each with a card its agent has published, and one is
missing while cards are asked for); `JoinsBelongTogether` follows. `JudgeInvariance`
(`JudgeInv`: the results are of different agents, what is joined are providers, and
the resolution is the choice made of all of them): `SelectionsAreExplained` and
`BestIsAlwaysChosen` follow with `BestOfRank`.

**AgentRuntime_proofs.** `RuntimeInvariance` proves `IInv` over every chain.
Blocks up to `final` never change (`ChainOK`, `FinalStays`), so a call pinned to a
final block sees one block however long it takes (`EntriesPinned`,
`PartiesPinned`), provided its request carries that block, which is a fact about
the table of methods (`NumberIsRead`, `ParityNumberIsRead`). What was read as
settled is still settled unless a block was replaced (`StillSettled`), so the second
part, which is read later, cannot know less than the first (`PartsRead`, `Whole`).
`FinalReadsAlwaysRepeat`, `ContractsOfOneBlock` (of the search, the receipt and the
effect surfaces alike) and `SettlementsAreWhole` follow.
`SearchInvariance` (`SearchKept`: entries are the results so far, each once, and a
selection is made of all of them with the preferences of the call) gives
`SurfacesAreExplained` by `BestOfSurfaces` and `SelectionsAgree` by `ChoicesAgree`.

**Conversions_proofs.** The functions of `Hex` and `Units` are recursive over digits,
and the library's induction theorems take an operator, which the provers cannot
instantiate. Induction is therefore done on sets: `LeastNumber` follows from the
well-foundedness of `<`, and `SetInduction` and its forms for the prefixes of a
sequence say that a set which contains 0 and the successors of its members contains
every number. What each recursion computes is such a set, proved to be all of its
domain: `Worth` is the value of digits (`WorthFacts`), additive over concatenation
(`WorthConcat`), deaf to zeros in front (`WorthOfZeros`) and below the power of its
length (`WorthBound`); `Digits` gives digits that are worth the number and no more
than needed (`DigitsFacts`); the digits of bytes and the bytes of digits undo each
other. `HexIsRead` reads hex of whole bytes, with a sign or without, and finds the number
that is written as it; `DecodeFacts` is the byte order mark.
`ConversionsAreInverted` joins them, one lemma per call.

`UnitsAreRounded` needs a double and a carry. `RoundingFacts` and `DigitsRounded`: `Round`
of the last digit kept and the digits behind it adds 1 from the half on, from a little
less too when they are too many for a double, and never otherwise (`RoundsBy`), and
`Precisely` that with as many digits as a double holds it is the half exactly.
`RoundedDigits` carries this from the two parts of the text to the value of all its
digits. `Carried`:
the digits that `parseUnits` puts together after a carry are worth one more, also when
the carry leaves the fraction, where the code takes the overflow apart again.
`ParsedDigits` has the three cases of the code, fewer digits than decimals, no
decimals, and a fraction that is cut, and `FormatRounds` parses what `formatUnits`
prints.

`ParametersAreReadBack` holds of every record whose fields have the values their types
allow (`FieldsAssumption`: a field that is always written is given, and a node has no
negative quantity). `SerializeFormatsAre` and `ParseFormatsAre` show what the formats
have in common: no quantity is written only when it is truthy, so that a 0 is never
lost, and no quantity of an answer may be missing but the deposit. `ParametersAreSaid`
then holds of every such format, by `FormsAreSaid` for the value of one field;
`OverridesAreSaid` finds the latest of the spellings of an address
(`GreatestNumber`), and `AnswersAreRead` undoes what the node writes, rows of rewards
and addresses in upper case too.

`ProvidersAreAnswered` (`HeadersSent` is the headers, of each form) holds of every fleet and every text (`ProvidersAssumption`: the
values have the types of the code, and what `Number` makes of the text of an amount has
the sign of what `BigInt` makes of it). `FilterFacts` says what `Array.filter` keeps, by
`SetInduction` over the length of the array: as many elements as places pass, and all of
them when each passes. The counts of a fleet add up by it (`FleetsCounted`, from four
disjoint parts in `FourParts`), and a list of kinds that is filtered again stays as it is
(`KindsSearched`). `SlashesTrimmed` and `ArgumentsEscaped` are the URL of a request,
`TextsSearched` has that trimming twice is trimming once, and `RefusedRequests` that the
validation of an amount refuses only what `BigInt` rejects or finds too small.

**Only model-checked.** Liveness (`CallsSettle`, `SubscribesSettle`,
`WaitSettles`), which is out of the provers' reach. The properties of `Encodings`: the
readers of RLP and of the ABI and the records follow the shape of the data with
`RECURSIVE` operators, and the curves are groups of a small order, computed.

## 5. Findings

1. **A refused connection leaves its callers pending** (`src/transports/webSocket.ts:149`).
   When the socket closes before it opens, `handleClose` rejects the entries of
   `pendingRequests` (none yet) and resets `statePromise`, but nothing settles the
   promise that callers await: `reject` only appears in
   `Promise.resolve().catch(reject)`, which never calls it. `websocket_refused` shows
   it; `websocket_queued` shows that everything settles otherwise, but for finding 3.
2. **Events right behind the subscribe answer are dropped**
   (`src/transports/webSocket.ts:212`). The handler is registered two jobs after the
   answer was dispatched. `websocket_missed` shows the loss on a socket that does not
   run jobs between events; `websocket_queued` shows that there is none on one that
   does.
3. **What is called in `onError` joins the closing connection**
   (`src/transports/webSocket.ts:156`). `handleClose` calls the `onError` callbacks after
   it has rejected what was pending and before it resets `statePromise`. A request or
   subscription made there, the natural one that starts a watch again, awaits the
   connection that is closing, which is still in `statePromise` and was fulfilled; it is
   sent on the closed socket, its entry is set in a map that no close will visit, and it
   never settles. `websocket_reentrant` shows it.
4. **Terminal context is not sent** (`src/clients/createWalletClient.ts:94`).
   `README.md` documents `terminalClass` and `trustTier` of `sendTransaction`;
   `buildTransaction` drops both. `wallet_terminal` shows it.

## 6. Not modelled, and the plan

Left out for good: the curves and Keccak, mnemonics and the derivation of HD keys,
types, chains, constants, the wording of errors and summaries, surfaces that copy
fields under other names, and methods that pass their parameters on as they are. In
the modelled components:

* HTTP transport: one exchange per request, without state but the id counter. The
  id of a response is not compared with that of its request, which cannot matter
  as long as a response belongs to its exchange.
* A request's own timeout (there is none); `JSON.parse` of a malformed message (it
  throws out of the listener and changes nothing); a second call of the same
  `unsubscribe`; the chain id and the account given per call; the override of an
  execution policy.
* The reading half of the cursor, which nothing in the repository calls;
  `serializeTypedData`, `formatAbiItem`, and the fixed decimals of `formatEther` and
  `formatGwei`.
* The filter of `getLogs` by address and topics; `transactionSender` and the
  subscriptions of `goClientParity.ts`.
* Bytes that are no UTF-8 (`TextDecoder` puts replacement characters for them), and
  a header given twice in different spellings.

One remark on what is modelled: `hexToBigInt` of a signed value with an odd number of
digits throws, with or without a size, because the width it computes is a fraction,
although the example in the comment at `src/utils/encoding/fromHex.ts:124` gives a number
for it. `ConversionsInvert` (`HexReads`) says what the code does.

What a continuation would add, the most important first: `transactionSender` beside
a reorganization in `AgentRuntime`; two accounts that share a sponsor in
`WalletClient`; the execution policy's override in `AgentDiscovery`, for whose choice
`BestOfRank` already holds.

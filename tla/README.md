# WalletMesh in TLA+

WalletMesh connects dApps with wallets. This directory holds TLA+ modules that
model the parts of it that carry its protocol logic, TLC configurations that
check them on small instances, and TLAPS proofs of what holds on every
instance. All paths below are relative to the repository.

## The system

| Component | Code | State it keeps | What makes it correct |
| --- | --- | --- | --- |
| JSON-RPC node | `core/jsonrpc/src/node.ts`, `method-manager.ts`, `request-handler.ts` | pending requests with their timers, methods, two middleware stacks | every call settles once, with a result the peer produced, and none is forgotten |
| JSON-RPC proxy | `core/jsonrpc/src/proxy.ts` | pending forwards by message id, a closed flag | table, timers and promises agree; every forward ends |
| Middleware chain | `core/jsonrpc/src/middleware-manager.ts` | the stack and, per request, which `next` was called | each stage runs at most once and in order |
| Wallet router | `core/router/src/router.ts`, `middleware.ts`, `session-store.ts` | sessions, one proxy per chain, one shared request context | nothing is stored or forwarded that was not approved; nothing waits for a wallet that is gone |
| Approval queue | `core/router/src/approval/` | context, resolver and timer per request id | a request gets the verdict of its own dialog and is always released |
| Permission managers | `core/router/src/permissions/` | rules per chain and method | the answer is the one the rules define |
| Router provider | `core/router/src/provider.ts`, `operation.ts` | the session id of the dApp | it holds a session the router holds |
| Discovery initiator | `core/discovery/src/initiator.ts`, `initiator/`, `core/ProtocolStateMachine.ts` | session id, protocol state with its timer and rebroadcast interval, first response and wallet by name | a discovery ends and its caller is told; its result is what answered it |
| Discovery responder | `core/discovery/src/responder.ts`, `security.ts` | sessions used, request counts, what the wallet says of itself | a session is answered once |
| Modal transports | `core/modal-core/src/internal/transports/` | the popup, its handlers and timers, who is connected | a connect attempt ends and leaves nothing behind; a message arrives at most once |
| Modal client | `internal/client/WalletMeshClientImpl.ts`, `state/` (both in `core/modal-core/src`) | sessions, the active one and their copy in localStorage, providers, the adapter cache and its health | the active session exists and has a provider; what was ended does not come back |
| Modal EVM adapter | `internal/wallets/evm`, `internal/wallets/base` | the wallet's provider and the listeners on it | the client hears what the wallet does |
| Rest of modal core | `services/`, `client/`, other wallets | transactions, balances, what was discovered | a transaction that was sent ends |
| React bindings, Aztec packages | `core/modal-react`, `aztec/` | user interface and serializers | |

How they interact. A dApp's `WalletRouterProvider` and the `WalletRouter` are two
`JSONRPCNode`s on one transport. A request runs through the router's middleware
(origin, session, permission, approval queue) into a `wm_*` handler; `wm_call`,
`wm_bulkCall` and `wm_getSupportedMethods` go on through a `JSONRPCProxy` to the
wallet of a chain. The wallet's interface resolves approvals, revokes sessions,
adds and removes wallets, and closes the router. Discovery finds wallets before
any of this by broadcasting a request and collecting responses; modal-core drives
discovery, transports and provider for a dApp: its client asks an adapter for a
connection, the adapter asks the wallet, and the client keeps the session in a store
that a new page reads back from localStorage.

What is hard. Everything is single-threaded and asynchronous: each `await` is a
point where any other handler, timer or message may run, and the state read before
it may be stale after it. Responses race with timeouts, failed sends and `close()`.
A transport may lose or reorder messages, and report as failed a send that arrived.
Every request of a node shares one context object. A page may be loaded again, and
a popup closed, at any time. `PROJECT.json` lists these
hazards line by line, with the properties that cover them.

## The modules

| Module | Models | Checked by | Proved in |
| --- | --- | --- | --- |
| `RemoteCall` | what a remote call promises its caller (abstract) | | |
| `RpcNode` | `JSONRPCNode` and `MethodManager` | `MCRpcNode` | `RpcNodeProofs` |
| `RpcProxy` | `JSONRPCProxy` | `MCRpcProxy` | `RpcProxyProofs` |
| `ApprovalQueue` | `ApprovalQueueManager` and its middleware | `MCApprovalQueue` | `ApprovalQueueProofs` |
| `WalletRouter` | `WalletRouter`, session store, session and permission middleware; uses `ApprovalQueue` | `MCWalletRouter` | `WalletRouterProofs` |
| `DiscoverySession` | what a discovery promises the dApp (abstract) | | |
| `DiscoveryResponder` | `DiscoveryResponder`, for all wallets | `MCDiscovery` | `DiscoveryProofs` |
| `Discovery` | `DiscoveryInitiator` and its state machine, composed with the responders | `MCDiscovery` | `DiscoveryProofs` |
| `WindowChannel` | what the browser does: windows, and message events between them (external) | | |
| `PopupWindowTransport` | `PopupWindowTransport` with the retries of `AbstractTransport` | `MCPopupConnection` | `PopupConnectionProofs` |
| `WalletWindow` | `CrossWindowTransport` in the wallet's window | `MCPopupConnection` | `PopupConnectionProofs` |
| `PopupConnection` | the composition of these three | `MCPopupConnection` | `PopupConnectionProofs` |
| `SessionStore` | `connectionActions`, the store's copy in localStorage, `ProviderRegistry` | `MCModalClient` | `ModalClientProofs` |
| `ModalClient` | `WalletMeshClientImpl` and `EvmAdapter`, over `SessionStore` | `MCModalClient` | `ModalClientProofs` |

An action is the code between two awaits (or between an await and the return); the
local variables a handler keeps across an await are variables of the model.
Message payloads, method names and error texts are abstracted to what the
properties tell apart. Operators marked "Fault" are not part of any specification:
they are plausible wrong versions of the definition after them, used to see that
each property can fail.

**RpcNode.** `sendPc`, `servePc` are the program counters of `sendRequest` and of the
peer's `handleRequest`; `pending` and `timer` are the two halves of a
`PendingRequest`; `decoding` holds calls that wait in `deserialize` after their entry
was deleted. `CallMethod` to `DecodeResult` are the caller, `ReceiveRequest` to
`SendError` the server, `Close` is `close()`. `wire` is a set: messages are delivered
in any order or never. A second settlement of a promise does nothing, as in
JavaScript (`Settle`). `SendFails` has the effect the code has: it rejects the whole
table of the node.

**RpcProxy.** The table is by message id, while a forward closes over its own timer
and promise; `Timeout` and `SendFails` therefore look at the id and settle the
forward. The wallet is an external action, `WalletAnswers`. The router draws every
id with `crypto.randomUUID()`, so the ids of the run are distinct.

**ApprovalQueue.** Context and resolver maps are always changed together and are one
function, `pending`; `armed` is the map of timers. `AskUser` is the middleware from
the callback to the await; `AutoApprove` is an interface that calls
`resolveApproval` inside the callback, as `aztec/example-wallet` does. `dialog` is
what the user was asked and answered, which the queue itself does not know.

**WalletRouter.** `pc[r]` names the await request `r` is suspended in. `ctx` is
`context.session`, shared by all requests because `JSONRPCNode` hands the same object
to each; `held` and `sid` are the session a handler took from it or read from the
store, and the session id in its parameters. A session object is represented by its id, and
`store[s]` is the id inside the data under key `s` (the two can differ:
`updatePermissions` stores `context.session` under `params.sessionId`). The
permission manager may grant or refuse anything. A wallet connection is a number,
so that a wallet that is removed and added again is a new one. The approval
queue is the instance `Approvals`, keyed by request.

**Discovery.** `dispatchEvent` is synchronous: the wallets in the page are called one
after the other inside `transition('DISCOVERING')`, each may answer, and the
initiator handles the answer before the next wallet is called. `turn` names the
dispatch that is going on and `told` the wallets it has still to call; in between
only wallets behind an extension act. `Tell` is a wallet's handler with the
initiator's inside it; `RemoteRequest` and `RemoteResponse` are the same two over
messages that may be late or lost. A state machine lives exactly as long as
`sessionId`, so `session` stands for both, and `known` is `lastKnownState`, which is
what `getState` returns. `Settle` is the end of a session in the order of the
listeners: the COMPLETE event, the promise, the cleanup. What a wallet says of itself
is one value, its look; a wallet may refuse anything, which is what the origin
policy and the rate limiter can do. `sent`, `twice` and `answered` only record.

**PopupConnection.** A window is the number of the `window.open` call it came from.
The object's `popup`, `messageHandler` and `checkClosedInterval` are assigned together
by an attempt that gets a window, so they are the one variable `popup`; what an
overlapping attempt overwrites stays registered with the page, and `hooks` holds the
attempts whose handler and interval are. `Attempt` is `connectInternal` up to its
await, `Reject` the loop of `connectWithRetry` around it, `Timeout` the handshake timer,
`ReceiveMessage` a message event with all handlers it runs, `PopupClosed` a tick of the
interval, `Cleanup` is `cleanupResources`. The wallet's page (`WalletWindow`) says
"ready" when it loads and again when it reloads; the user closes windows at will. An
event of a window the transport closes is dropped with it. `overlapped` only records
that a connect call began while another was pending.

**ModalClient.** A run is one call of an asynchronous method, and `pc` the await it is
suspended in. Every await is a step of its own, also one of a settled promise:
subscribers of the store run inside its updates and may call the client.
`Boot` is the connect call of `handleRehydratedSessions`. Adapters belong to a registry
and live as long as the page, so there is one per wallet; `cached`, `heard` and
`errored` are the client's `adapters`, the adapters it has listeners on, and
`adapterHealth`. `subscribed` counts the listeners at the wallet's own provider, which
nothing removes. `Reload` is a new page: the store comes back from localStorage, all
else is gone. `Create` and `CreateThrows` are the two outcomes of one part of `connect`, which
registers the provider before `createSession` validates what the wallet said;
`ConnectFails` is the catch around them, around the adapter and around its loading. `drawn`,
`owed`, `wiped` and `unmade` only record: `wiped` are the sessions that the cleanup of an
adapter deleted from the store by itself, behind the client, and `unmade` those
that `createSession` rejected, both since the page was loaded.

## What the runs check

| Run | Instance | Shows |
| --- | --- | --- |
| `rpc_node` | 2 nodes, 2 calls of one caller, one of them with a timeout and a result serializer | `NoOrphan`, `PendingIsUnsettled`, `TimerHasEntry`, `FulfilledWasProduced`, `TimedCallsSettle`, and that the node implements `RemoteCall` |
| `rpc_node_send_error` | the same | **violated** `SendErrorIsOwn`: a call is rejected with the send error of another |
| `rpc_proxy` | 3 forwards | `WaitingIffPending`, `ForwardsEnd`, and that the proxy implements `RemoteCall` |
| `approval_queue` | 4 requests, two ids used twice, two interfaces that answer in the callback | `QueueConsistent`, `OwnVerdict`, `Released` |
| `approval_queue_immediate` | 4 requests with own ids | **violated** `ImmediateIsHeard`: an answer given inside the callback is lost |
| `router` | 2 requests of any kind, 3 sessions, 2 chains, 2 proxies, bulk calls of 2 | `StoredIsGranted`, `ForwardedIsAuthorised`, `BlockedIffQueued`, `NoWaitOnClosedProxy`, `PartialIsPartial`, `RevivedByUpdateOnly`, `WaitsEnd` |
| `router_shown_session` | 2 requests under 2 stored sessions | **violated** `ShowsOwnSession`: the approval of one request shows the session of the other |
| `router_terminated` | 2 requests, no approvals | **violated** `TerminatedStaysInvalid`: `wm_updatePermissions` brings back a session revoked while it waited |
| `discovery` | 2 discoveries, 2 wallets in the page under one name, 1 behind an extension; 1 of those in the page stops, forgets and changes | `SessionIsWhole`, `FirstWins`, `ResultAnswered`, `ConflictIsReal`, `AnsweredOnce`, `DiscoveryEnds`, and that discovery implements `DiscoverySession` |
| `discovery_state` | the same | **violated** `StateIsCurrent`: a conflict inside the first dispatch leaves `getState` at DISCOVERING |
| `popup` | 2 connect calls with a retry each, a message in each direction, 1 retry of a send, 2 messages under way to the dApp | `NoLeftovers`, `SendIsExact`, `EndsForAReason`, `ConnectSettles` |
| `modal_client` | 2 wallets, 3 sessions, 2 calls in each page, any number of pages | `StoreConsistent`, `EndedStaysEnded`, `DisconnectEndsAll` |

Why the bounds are enough. Calls and forwards interact only through the table: the
failure of one send or `close()` reaches the others at once, so two calls show every
interaction of the node, and three forwards every one of the proxy. Four
approval requests give two pairs under one id, in the orders queued-queued,
queued-released-queued and immediate-queued. In the router, a request is affected by
another one through `ctx`, the store and the queue, and by the wallet through the
store and the proxies: two requests and an unbounded number of wallet actions
contain every pairwise interleaving; `MaxProxy = 2` lets the wallet of a chain be
replaced once under a request, and `BulkSize = 2` is the least with a partial answer.
In discovery, two sessions are what a late answer needs,
two wallets in one page what a conflict inside a dispatch needs, and `Unsteady` keeps
the run small: only those wallets restart or change. For the popup, two connect calls give overlapping attempts and their late
events, and one retry gives an attempt after a failed one; a third retry repeats the
second (the code has `MAX_RETRIES = 3` and `2`). In the client, two calls and Boot are the three
runs that can meet: a connect, a disconnect and a reconnection, over one wallet or
two; three sessions are one that was found and two that are made. Its wallets, sessions
and calls are interchangeable, and no property is a liveness one, so `SYMMETRY` is
sound. `MaxProxy`, `MaxSession` and `MaxMail` are the only bounds on counters.

`rpc_proxy` sets `CHECK_DEADLOCK FALSE`: a proxy whose forwards have ended and
that is closed really stops.

**Fairness.** Only what the runtime guarantees:

- a timer fires (`Timeout`; `Expire` of the queue, `ApprovalExpires` in the router;
  `AppTimeout`, and the sleep between two attempts, `AppRetry`);
- a promise that is settled resumes its awaiter (`ApprovalSettled`), and a deserializer
  settles (`DecodeResult`);
- a forward is answered or ends with the default timeout of its proxy (`ForwardEnds` in the
  router, where the proxy's timer is one of the outcomes of `Answer`);
- in discovery a dispatch runs to its end (`DispatchRuns`), and the state timeout has strong
  fairness (`TimeoutRuns`), because it is due once and every tick of the rebroadcast interval
  only delays it by one dispatch.

`modal_client` needs no fairness. Nothing is assumed of the transport, the peer, the wallet or
the user. `TimedCallsSettle` is about calls with a timeout only, because the others may
wait for ever: `timeoutInSeconds` is 0 by default.

Each of these but `DispatchRuns` is written with the guard of its action instead of `WF_` or
`SF_`: `[]<>~guard \/ []<><<A>>_vars`, and `<>[]~guard` for strong fairness. That is the same
condition, since each of these actions is enabled exactly when its guard holds and changes the
state whenever it is taken, and it lets liveness be proved, as the prover knows
nothing of `ENABLED`.

## What is proved

`RpcNodeProofs`, for any set of nodes and calls, from `NodesAssumption` (callers and
peers are nodes):

- `TypeCorrect`: `Spec => []TypeOK`;
- `TableCorrect`: `Spec => [](NoOrphan /\ PendingIsUnsettled /\ TimerHasEntry)`;
- `ResultCorrect`: `Spec => []FulfilledWasProduced`;
- `Refinement`: `Spec => ImplementsRemoteCall`;
- `LivenessCorrect`: `Spec => TimedCallsSettle`.

The argument. `TypeOK` is inductive alone. The three properties of the table are
inductive only together: `NoOrphan` says what a waiting call has, `PendingIsUnsettled`
what an entry means, and a step that deletes an entry must find both. That a
fulfilled call was produced depends on what is in flight: `ReplyWasProduced` says
that a result message, or a server about to send one, belongs to a produced call,
and `IdleIsFresh` that nothing of a call exists before it is made. `IInv` is the
conjunction of all of these; `InitIInv`, `TypeStep`, `TableStep`, `OriginStep` and
`FreshStep` are its induction, `IInvAlways` the result. The refinement goes action by
action: `StepSimulation` shows that each step of the node is a step of `RemoteCall`
or leaves `Phase` and `produced` alone, using `IInv` where a promise is settled. A call with a
timeout that waits has its timer armed or is in the deserializer (`IInv`); once there it stays
until it settles (`DecodingStays`), so one of the two fair steps ends the wait.

`RpcProxyProofs`, for any set of forwards, from `NoneAssumption`. Whatever the ids, also when one
is used again:

- `TypeCorrect`, `EntryCorrect`: `Spec => []TableIsLive`, an entry belongs to a forward of its
  id that waits with its timer armed, and a closed proxy has none.

If besides no two messages have one id (`DistinctIds`: the router draws ids with
`randomUUID`; it is a hypothesis of these theorems, because `RpcProxy` allows any ids):

- `TableCorrect`: `Spec => []WaitingIffPending`;
- `Refinement`: `Spec => ImplementsRemoteCall`;
- `LivenessCorrect`: `Spec => ForwardsEnd`.

`WaitingIffPending` needs `TableIsLive`: without it a response could find the entry of another
forward. The refinement needs `AnswerIsFresh` as well: the wallet answers a forward that was
made, once. The converse of `TableIsLive` fails when an id is used again: the older forward
then waits without an entry, and its timer finds the entry of the newer one.

`ApprovalQueueProofs`, for any set of requests, any ids, used again in any way, and any
interfaces that answer in the callback:

- `QueueTypeCorrect`, `MapsAgree` (`QueueConsistent`), `VerdictCorrect` (`OwnVerdict`);
- `LivenessCorrect`: `QueueSpec => Released`.

`EntryIsOwn`, an entry is under the id of its request, makes the maps inductive; `AskedIffEntered` says that a
request is asked about once it is in the queue, so that a verdict has a dialog. Release
follows from `QueueConsistent`: whoever blocks has its own timer armed.

`WalletRouterProofs`, for any requests, sessions, chains and length of a bulk call, from
`RouterAssumption`:

- `TypeCorrect`, `StoredCorrect`, `ForwardedCorrect`, `BlockedCorrect`, `ClosedCorrect`,
  `PartialCorrect`, `RevivedCorrect` (`RevivedByUpdateOnly`), one for each safety property of
  the run `router`;
- `QueueRefinement`: `Spec => Q!QueueSpec`, the queue inside the router, its timers included,
  behaves as the queue alone;
- `CallsEnd`: every wait for the user and every forward that is not a bulk call ends;
- `ForwardAdvances`: any forward, of a bulk of any length, ends or goes on to its next call;
- `LivenessCorrect`: `Spec => WaitsEnd`, for bulks of up to three calls.

The router's queue is an instance of `ApprovalQueue`; the proofs take the theorems of
`ApprovalQueueProofs` by the same instantiation (`Q`), so that what the queue guarantees
is proved once, `Released` too: `Q!IInv` is a part of the router's invariant, and each action of the
router is a step of the queue or leaves it alone. The rest of the invariant says, for
each request, what its stage implies: which session it names (`ParamsOK`), that somebody
approved it (`SessionOK`), that the user consented (`ApprovalOK`) and that its proxy is
open (`ForwardOK`). These are needed because a property like `ForwardedIsAuthorised`
speaks of the end of a path whose checks were made several awaits before, on a context
that other requests have written since. `Stays` and `Keeps` name what a step of one
request leaves to the others. A forward waits for an open proxy only (`ForwardOK`), so that its
fairness applies, and each answer leaves it one call less.

`RevivedByUpdateOnly` needs two more facts, each inductive over `IInv`. What was ended, or is
about to be, was once approved (`Ended`): `revokeSession` finds a session in the store, where
only approved ones are, and a `wm_disconnect` passed the session check. A session that
`wm_connect` offers for approval belongs to no other request that was approved (`Fresh`). So
nobody has ended it when it is stored (`StoreGrows` says when that is). This is what remains of
`TerminatedStaysInvalid`, which the code violates: the one way back is
`wm_updatePermissions`.

`DiscoveryProofs`, for any wallets, names and looks and any number of sessions, from
`ResponderAssumption` and `NoneAssumption`:

- `TypeCorrect`, `WholeCorrect`, `FirstCorrect`, `ResultCorrect`, `ConflictCorrect`,
  `OnceCorrect`, one for each invariant of the run `discovery`;
- `Refinement`: `Spec => ImplementsSession`;
- `LivenessCorrect`: `Spec /\ DispatchReturns => DiscoveryEnds`, where `DispatchReturns` says that
  no dispatch runs for ever.

What makes them inductive: whatever the initiator remembers of a session is an answer to
that session (`FirstIsCurrent`), whatever is on its way was answered (`WireIsReal`), a
session that is over keeps its result (`ResultIsFinal`), and a wallet remembers whom it
answered (`SentIsUsed`). A step consists of parts, because a wallet may be called inside a
dispatch and the initiator inside the wallet: the lemmas `Started`, `Heard`, `Settled` and
`Untouched` give, for each part, the invariant and the step of `DiscoverySession` it makes. While a
promise waits its session is open and the timer is that session's (`SessionIsWhole`); between
dispatches, which is again and again, the timeout may run, and strong fairness makes it.

`PopupConnectionProofs`, for any number of connect calls, retries, messages and windows,
from `ChannelAssumption` and `TransportAssumption`:

- `TypeCorrect`, `TidyCorrect` (`NoLeftovers`), `SendCorrect` (`SendIsExact`), `EndsCorrect`
  (`EndsForAReason`);
- `AttemptsEnd`: each attempt of a call ends, and the call is settled or comes to its next one;
- `LivenessCorrect`: `Spec => ConnectSettles`, for up to three retries, as many as the code makes
  (`MAX_RETRIES`).

`ConnectedIsSettled` says that while the transport is connected no attempt waits, so that no
handshake timer can end the connection. `AloneIsTidy` says what an attempt that does not
overlap owns, `MailIsSingle` and `PostIsSingle` that a message under way is there once,
since delivering it twice is what the properties exclude. An attempt waits or sleeps until its
own timer (`PendingStep`): no event of another attempt can stop it.

`ModalClientProofs`, for any wallets, sessions and calls and any number of pages, from
`StoreAssumption` and `ClientAssumption`:

- `TypeCorrect`, `StoreCorrect` (`StoreConsistent`), `EndedCorrect` (`EndedStaysEnded`),
  `DisconnectCorrect` (`DisconnectEndsAll`).

Lemmas on the store (`Created`, `Rejected`, `Ended`, `Wiped`, ...) say what each of its operations does
to the sessions it keeps. `RunsAreWhole` gives a run that goes on its wallet and session,
`NewPage` what a page starts with, `GrantIsNew` that nobody else knows the session of a
connection just granted, nor is it among the exceptions, and `OwedIsListed` that a disconnect has in its list what it still
owes. `OnlyGrantsAdd` is the heart of `EndedCorrect`: only a grant puts a session into the
store, in no order of calls, events and pages anything else.

So every safety property that a passing run checks, and both refinements of `RemoteCall` and
that of `DiscoverySession`, hold for all values of the constants that satisfy the named
assumptions. The liveness properties do too, with three exceptions that stay with TLC.

Only model-checked:

- `WaitsEnd` for a bulk of more than three calls, and `ConnectSettles` with more than three
  retries (which the code never makes). What is proved for every length is the step:
  `ForwardAdvances` and `AttemptsEnd`. Adding up the steps is an induction over the number of
  calls inside a temporal formula, which the prover cannot do, so the sum is written out for
  the small numbers.
- `DispatchReturns`. A dispatch calls each listener once and ends, which is an induction over
  the set of listeners, and `Tell` is fair by `WF_`. The run `discovery` assumes `Spec` alone
  and finds `DiscoveryEnds` to hold.
- That the fairness conditions written with guards are `WF_` and `SF_` of their actions, because
  that is about `ENABLED`.

The five violated properties are refuted by TLC and nothing is proved of them. No recursive
definition is used.

## What the models show beside the properties

Some behaviours of the code differ from what one would expect of it, and are kept in the
models because the code has them; the properties above are stated so that they name
them.

- `connectWithRetry` and `send` count retries, not attempts: there are four and three
  attempts where `AbstractTransport.ts` documents three and two.
- Nothing tells a connect call that waits for the handshake that the transport was
  disconnected, destroyed or its popup closed. It waits for its timer, and its next
  attempt opens a window again. `ConnectSettles` holds because of the timer alone.
- Connect calls that overlap leave handlers, intervals and windows behind
  (`overlapped` in `NoLeftovers`), and messages are given to the application once per
  handler.
- An EVM adapter that cleans up deletes the sessions of its wallet itself. The client
  then finds none to end: their providers stay registered, and the active session may be
  one of them (`wiped` in `StoreConsistent`).
- A connect registers the provider (`WalletMeshClientImpl.ts:1824`) before `createSession`, which
  rejects an account that is not valid. Neither catch (`1852-1884`, `1983-1995`) takes it out
  again: it stays in the registry without a session until the page goes (`unmade` in
  `StoreConsistent`). The "Automatic cleanup when sessions are removed" that
  `ProviderRegistry.ts:14` promises does not reach it, as no session was ever there.
- `accountsChanged` ends the session before it reads the provider from the registry,
  which ending it has emptied, so that the new session is not created
  (`AccountsChanged`).
- After the wallet was locked, a cached adapter is used again without listeners: the
  client no longer hears the wallet (`heard`). Listeners at the wallet's provider are only
  ever added (`subscribed`).
- A disconnect during a connect or a reconnection is undone when the wallet approves
  afterwards; `EndedStaysEnded` is about sessions, each connection having its own.
- `EvmProvider.disconnect` awaits `wallet_disconnect` over a transport that does not
  deliver the answer: with a wallet that supports it, `disconnect` does not return. The
  model lets `AdapterClosed` happen or not.

## What is not modelled

`PROJECT.json` gives the reason for every component. Within the modelled ones:
events and notifications, which have no answer and leave no state; the answer to an
invalid message; a `wm_getSupportedMethods` over several chains, which repeats the
one for a single chain; an empty `wm_bulkCall`, which returns at once. The approval
middleware looks at `wm_call` only, so `wm_bulkCall` is outside
`ForwardedIsAuthorised`'s second half. In discovery: an application that calls
`reset` or `stopDiscovery` inside a listener of a discovery event; the count in the
COMPLETE event; a wallet that changes its reverse domain name; and responses that
fail the initiator's checks of form and origin, which leave no state.

Of the transports: a dApp that runs inside a popup itself, a named window target (which
makes `window.open` return a window that is open), the dApp's side of
`CrossWindowTransport`, the extension and websocket transports, and checks of origin.
Of the client: choosing a wallet in the modal, discovery, chain switching, which changes no
session but its chain; `sessionTerminated`, which only Aztec adapters emit;
`disconnectAll`, which is several disconnects at once; `destroy`, and a second client
in one page. The services are not modelled; the client does not use `SessionManager`.

Failures of the surroundings that are left out, with what the code then does:

- `transport.send` that throws instead of returning a promise (`proxy.ts:118`): the forward is
  rejected, its entry and timer stay until the timeout. The interface promises a promise.
- A deserializer that never settles. The fairness of `DecodeResult` excludes it: the caller
  would wait, since the timer is gone by then.
- Callbacks of the wallet that throw: `onTimeout` (`ApprovalQueueManager.ts:189-191`) would keep
  the entry and the blocked request; `onApprovalQueued` (`approvalQueueMiddleware.ts:144`)
  would fail the request (`173`) before it is queued.
- A middleware that returns a reply with an error behind the parameters' deserialization
  (`request-handler.ts:96-106`): its result, which is undefined, is sent as a success.
  `FulfilledWasProduced` counts it as produced.
- Two revocations of one session at once: `revoking` is a set, so they are one. Both would
  delete the same key and report it. `revokeAllSessions` reads each session again before it
  deletes it.
- A discovery that fails to start (`initiator.ts:219-222`), which rejects the promise and keeps
  its session, and a state timeout of 0 (`ProtocolStateMachine.ts:462`), which sets no timer.
- `window.open` that throws and a transport without a URL: the attempt fails with the popup
  of the previous one still in place, which the cleanup closes.
- `postMessage` that throws in the wallet's window (`CrossWindowTransport.ts:220-224`,
  `297-300`), after it counts itself connected.

## Plan

1. Done: `RemoteCall`, `RpcNode`, `RpcProxy`, `ApprovalQueue`, `WalletRouter`,
   `Discovery`, `PopupConnection`, `SessionStore`, `ModalClient`.
2. Done: the safety properties, refinements and liveness properties of all of these are
   proved, with the exceptions named above.
3. The provider's session over the router, and `TransactionService`: a transaction that
   was sent ends, and everybody who waits for it is told.
4. The middleware chain and the rules of `AllowAskDeny` as operators with a reference
   definition.
5. The Aztec adapter, whose `sessionTerminated` and reconnection the client hears, and the
   dApp's side of `CrossWindowTransport`, over the same `WindowChannel`.

# Verification of go-consul

TLA+ models of the two halves of this repository, checked with TLC; every safety property that a
passing run checks is also proved with TLAPS, for every size:

- `agent`: a business service follows its local *sidecar-agent* through a long-lived SSE stream,
  registers again whenever the stream (re)connects, and drains and deregisters when it stops. What it
  registers is made once, from a generated manifest and the application's options;
- `config`: configuration values read from Consul's KV store, with a bounded cache kept fresh by
  shared blocking queries, and event streams for single keys.

The sidecar-agent and Consul are not in the repository. They are modelled as environment, by what
the code can observe of them: streams that open, carry frames and break, calls that are answered,
refused or lost, indexes that grow.

## Inventory

| Component | Source | State | Operations | Interacts with | Hard behaviour | What makes it correct |
|---|---|---|---|---|---|---|
| watch source | `agent/watch_source.go` | the stream being read, the reconnect timer, the events channel (8) | Subscribe, watchOnce, emitWatchEvent | sidecar (SSE), runner (channel) | cuts, bad frames, a full channel, cancellation at every blocking point | an end of stream is reported before the next stream, the goroutine always stops, it always dials again |
| runner | `agent/runtime.go` | where Run is | Run | source (channel), controller (calls), sidecar (through Register) | events that are out of date when they are handled, a call that blocks the loop | one register per connected event, one OnDisconnected per disconnect or failure |
| controller | `agent/controller.go`, `status.go` | the status under a lock | OnConnected, OnDisconnected, ObserveEvent, RecordError, Status | runner, application | several lock sections per event | exact counters, no false "registered" that stays |
| agent | `agent/agent.go` | the errors channel, the configured functions | Start, Run, Drain, Deregister, Shutdown | runner (goroutine, channel), server, sidecar | a three-way select, a shutdown that overlaps the chain | no exit without drain and deregister, no lost error |
| API client | `agent/api.go`, `http_client.go` | none | Register, Drain, Deregister | sidecar (HTTP) | time-outs, lost answers, a 200 that says failure | a failure is an error |
| configuration client | `config/client.go` | cache, watch handles, their key sets | Get, background watch | store, Consul | concurrent Gets and watches, eviction, races of read and attach | bounded cache, one watch per scope, entries converge |
| configuration store, Watch | `config/watch.go` | map of cancel functions, one goroutine and channel per Watch | Watch, Unwatch | Consul, consumer | several Watches of a key, a full channel | ordered events, nothing lost at the end, cancellation works |
| configuration store, rest | `config/store.go`, `config.go` | none | Get, Put, Delete, key paths | Consul | — | paths of different keys differ |
| agent construction | `agent/agent.go` (New), `defaults.go`, `manifest.go`, `service_node.go` | the locals of New, then the node | New, normalise, load, validate, the requests | application, manifest file, sidecar | two validators of the same data, checks made entry by entry, shared slices and maps | exactly the well-formed manifests are accepted, the payload says what the manifest says in any order and layout, one instance |
| Consul client | `core.go` | none | construction | Consul | — | — |

## Modules

`Controller` holds what each lock section of the controller does to the status, as operators.
`WatchReplay` extends it: source, runner, controller and sidecar. `AgentRun` extends
`WatchReplay` and adds the Agent around it. `WatchStream` is one stream of the source in detail: it
yields the events that `WatchReplay` takes as given. `Registration` is what happens before `Start`.
`ConfigClient` and `StoreWatch` stand alone.

Two abstract specifications say what a component promises, without its goroutines, queues and
cursors: `Replay` (implemented by `WatchReplay`, `FollowsSidecar`) and `Feed` (implemented by each
Watch of `StoreWatch`, `ImplementsFeed`). The refinement mappings stand beside those properties.

The `MC*` modules give the constants their small values. The proofs are in `WatchReplayProofs`
(types and counts), `WatchReplayLossProofs` (nothing is lost silently, and the refinement),
`WatchStreamProofs`, `AgentRunProofs`, `ConfigClientProofs` (capacity and handles),
`ConfigClientFreshProofs` (the cache against Consul), `StoreWatchProofs` and `RegistrationProofs`.

What the code computes in a loop (joining data lines, checking services and routes) is a recursive
function from the number of turns to what the loop then holds, and what it sorts is the one sequence
of a finite set that ascends; both can be reasoned about as well as evaluated.

In every module an operator named `Def_What` placed before `Def` is `Def` with a plausible
programming error (a dropped guard, a missing reset, a message dropped from a full queue). No
specification uses it; it records which error each property detects.

### WatchReplay

One action is one step between two points where another party can be observed: a channel operation,
a lock section, the sending or the end of a call.

- `srcPc` follows the goroutine of `Subscribe`: `check` (ctx.Err at the loop head), `dial`
  (client.Do), `read` (ReadString), `emit` (the select of emitWatchEvent), `returned` (watchOnce is
  back), `report` (the select that sends the disconnect), `backoff` (the timer), `done`. `events` is
  the channel; it is closed exactly when `srcPc = "done"`.
- `rnPc` follows `Runner.Run`: `select`, `register` (inside OnConnected's call), `down`
  (at OnDisconnected), `record` (at RecordError), `done`. `runResult` is what Run returned.
- `status` is the controller's status. Times are the number of events handled; service name, port,
  ids and texts are left out. The server's own time stamp (GeneratedAt) is not modelled.
- `call` is the Register call in progress; `orphans` counts requests whose caller has given up while
  they were under way and which the sidecar may still handle; `instance` is what the sidecar holds.
- `seen` (events received, by type) and `declined` (the registration in the status was answered 200
  with success=false) are history: no step reads them, except that `seen` serves as the clock.
- A frame that `emitWatchEvent` ignores (comments, unknown types, a "disconnected" sent by the
  sidecar) changes nothing and has no action.
- The sidecar that forgets the service also breaks its stream: it is a local process, its
  connections die with it. A sidecar that forgets without restarting is outside the model.

### AgentRun

`Setups` says how the application uses the Agent: `Run` or `Start` followed by `Shutdown`, with or
without a server, a shutdown function and a grace period. `lifecycle` is the errors channel of
capacity one (open, holding an error, closed); `watchesLc` is whether Run still selects on it;
`servePc` the server's goroutine; `runPc` walks through Run's select, `finishRun` and `Shutdown`. A
drain or deregister that fails may have been handled all the same. One that the sidecar declines with 200 and
success=false is taken for done, like a declined register (`http_client.go:89`): `DrainDeclined` and
`DeregisterDeclined` go on as the code does and change nothing at the sidecar; the history variable
`refusals` keeps what was declined. `CleanExit` and `DeregisterAfterDrain` name this as their only exception.

### WatchStream

`unread` and `rest` are what the sidecar has written and the reader has not taken: whole lines, and
the line a cut left without its newline. `SidecarFrames` lists the frames with what each one *means*
(the reference definition), so the decoding is compared with something it does not compute. The
frames are those of the tests and of every branch of the code: type in the JSON payload, in the
header, in both with different values, a document over two data lines, the old "ok" forms, ignored
types, a comment, a frame that is not JSON but looks like it. `ConnectionEnds` cuts between two frames
or anywhere in one, also inside a line, cleanly or with a read error.
`ReadsBlank`, `ReadsComment` and `ReadsField` are the branches of the loop in `watchOnce`, each with the three
ways `ReadString` can return; `Emits` is `emitWatchEvent` up to its send. `pool` is the payload that
the sync.Pool hands out again. Values are tokens: of a text only the distinctions that JSON and the code make
are kept. A consumer that does not take the events is the subject of `WatchReplay`.

### Registration

One action per stage of `New` (`Starts` with the defaults, `LoadGatewayManifest`, `BuildsNode`,
`NewController`), one per request of the running agent, one for the application that uses its
`ServiceOptions` again, and `Redeploys`: the service starts again with the manifest generated once
more, that is, the same capabilities in another order, with a method twice, with white space and
letters of another case (`Regenerated`). `ServiceLoop` and `RouteLoop` are the loops of
`NormalizeAndValidate`, turn by turn; `Contract` is the reference definition, a statement about
the manifest as a whole. The node's validation has a loop over the routes of its own in the code, and so it has here
(`AddNodeRoute`, `NodeRouteLoop`): a bug in one of the two copies can be expressed, and `AcceptedIsRegistrable` finds it. A method
is to have the form `/service/MethodName` (`MethodForm`); the code looks at the prefix only, and `Contract`
names what this lets through as an exception (`PrefixAlone`). Texts are strings compared, trimmed and ordered by functions given as constants
(`TrimSpace`, `ToUpper`, `Lexicon`, ...), whose assumptions are the few laws the properties need
(trimming twice is trimming once, letters of another case are the same in upper case, a method of a
service starts with a slash). The key of a route is a pair; in the code it is one string, the method and the
path with a space between them, which is the same as long as methods of HTTP have no white space:
`RegistrationAssumption` says so of the files, the code does not check it. Left out: the run date and the DNS name, which nothing depends
on, and which error of several is reported (only the stage that fails).

### ConfigClient

`client` is how the client is configured and used: its options (with or without the watch, the capacity) and
the bounds of one behaviour (the keys in use, the number of writes), so that one run has several of them.
A value is identified with the Consul index at which it was written. `getPc` splits `Get` where the
code does: the getCache lock section (`GetMisses`; a hit changes nothing), the remote read, putCache, the
lookup of the handle in ensureWatch, and either the start of the goroutine or the attachment of the
key. `watchPc` splits the watch goroutine: query, copy of the handle's keys, one `putCache` or
`deleteCacheByPath` per key, in any order. `PutCache` contains its evictions, and the victim
is arbitrary, as the order of a Go map is. `kind = "bad"` is a value that does not decode. The history variable
`written` marks the keys that were written between a Get's read and its end and not refreshed since.

### StoreWatch

Several Watches of one key; `watchCancels` is the single map entry of that key. A Consul answer with
an index beyond the cursor is an event, or nothing when the value does not decode. The deferred
function is two steps, as the lock is released before the channel is closed. `ConsulRestores` is a
restored snapshot or a new cluster behind the same address: the index goes back and a new epoch
begins. The cursor does not follow it, so a Watch may be `Blind` until the new index has passed the
old one; `LastChangeDelivered` names this as the only way a change stays hidden. The epoch of a state is history.
The index of an answer is that of the key's last change, also for a key that is absent; a real Consul may answer for
an absent key with any later index of its store, which the cursor would then follow without an event.

## Runs

All configurations turn TLC's deadlock check off: goroutines end, and an environment that has used up its
budget of faults and writes may do nothing more.

| Run | Question | Bounds |
|---|---|---|
| `WatchReplay_chain` | can the status claim a registration or a connection that is gone, with nothing on its way to correct it (`NoSilentLoss`, `NoStaleConnection`)? does the chain implement `Replay`, and does every doubt end (`FollowsSidecar`, `DoubtIsResolved`)? is every disconnect counted (`EveryDisconnectCounts`)? do the goroutines stop, does the chain reconnect, does the registration recover? | channel of 2, 1 frame per behaviour beyond the greetings, 2 faults (a decline with 200 is one) |
| `AgentRun_run` | does Run leave without the finish, lose the server's error or fail to return? does the deregister follow a drain? are replays counted exactly? All this also if the sidecar declines a register, drain or deregister with 200 | every setup, channel of 1, 1 fault (a decline is one) |
| `WatchStream_frames` | is every whole frame decoded by its own lines, once and in order? can half a frame become an event it was not? does an ended stream make `watchOnce` return? | 2 whole frames of any of 10 kinds, and a cut at any place of another |
| `Registration_new` | does New accept exactly the manifests of the contract? do the node's validator and the manifest's agree? is the payload the manifest, whatever its order and layout? do drain and deregister name the registered instance? do the two functions of defaults agree? | up to 2 of 8 services and 2 of 12 routes, well formed and not; 2 deployments, 4 configurations, 5 sets of options |
| `ConfigClient_shared` | one watch per scope, every cached key watched, staleness only by a race with a Get, convergence after the last write; the capacity, and who is evicted, by Gets and by the watch | one scope, 2 Gets; three clients: 2 watched keys with capacity 1 and 1 write, 2 watched keys with capacity 2 and 2 writes, 3 keys without the watch with capacity 2, TTL 1 and 2 ticks |
| `StoreWatch_stream` | does each Watch implement `Feed`, also across a restored Consul? is its stream strictly increasing? can Unwatch reach the only Watch of a key? does a canceled Watch close its channel although nobody receives? does a consumer that keeps receiving get the last state? | 2 Watches, channel of 1, indexes to 2, 1 restore |

Why these bounds are enough to be interesting: a channel of one or two is full after one or two
frames, so every send of the code blocks in some behaviour (the code's eight would only need more
frames to get there; the source's greeting, a frame and a disconnect fill a channel of two); two faults allow a restart while a failed call is being handled, or a cut
during the replay after a restart; two Gets are what a race needs; a capacity of one
makes every insertion of a second key evict, so that the two Gets and the watch, which puts back the key that a Get has
just evicted, compete for the one entry (the proofs cover any capacity and any mapping of keys to scopes); two frames are what the state between frames (the collected header, the
pooled payload) needs to leak from one to the next; two services and two routes are what duplicates, conflicts and an
order need; one restore makes a cursor outrun the index. The proofs below do not depend on them.

### Runs that find a disagreement

Each checks one statement made by a comment of the code; TLC finds a behaviour of the code that
contradicts it.

| Run | The comment says | What happens |
|---|---|---|
| `WatchReplay_declined` | `error.go:112`, a failed result is an error | a 200 with success=false is a successful replay (`http_client.go:89`) |
| `WatchReplay_disconnects` | `status.go:23` (and `agent/README.md:203`), `DisconnectCount` is the number of disconnects received | a register that fails on a healthy stream is counted as one (`runtime.go:127`) |
| `AgentRun_ctxend` | `agent.go:175`, the end of the context takes the finishing path | the closed lifecycle channel may win the select: Run returns without drain and deregister (`agent.go:181`) |
| `AgentRun_final` | `agent.go:234`, the deregister is the final one | the replay chain is still running and may register again (`agent.go:260`) |
| `ConfigClient_fresh` | `client.go:33`, an entry without expiry is kept fresh by the watch | a write between the read and the attachment is missed until the next change (`client.go:101`) |
| `StoreWatch_latest` | `watch.go:42`, the clean-up removes the goroutine's cancel function | it removes a later Watch's, too (`watch.go:45`) |

More differences were met while modelling and have no run of their own:

- `LastDisconnectedAt` (`status.go:21`, the time of the last disconnect) is set by every heartbeat
  too (`controller.go:165`).
- After a second Watch of a key, `Unwatch` reaches only that one (`watch.go:30`);
  `UnwatchReachesTheOnlyWatch` states what remains true.
- A connection that is cut inside a JSON payload is reported as a parse error of the stream, not as
  a closed stream (`watch_source.go:280`); the reconnect is the same.
- A method `/svc/` without a name is accepted although `manifest.go:136` says that a method has the form
  `/{full.service.Name}/{MethodName}`; the code looks at the prefix only. `AcceptsTheContract` states that this is
  the only way in which what is accepted departs from the form (`PrefixAlone`).
- A base URL of slashes alone is no address for `DefaultSidecarAgentConfig` and an empty one for
  `normalizeSidecarAgentConfig` (`defaults.go:37`), and a base URL with white space before its last
  slashes keeps it the first time and loses it the second (the white space is trimmed before the slashes,
  `defaults.go:7`); `DefaultsAgree` names these two exceptions. The second was found by the proof.
- The check for an empty DNS name in the service node never fires: the name always contains three dots.

## Fairness

- `WatchReplay`: the source's steps that the scheduler, a timer or a time-out guarantees are weakly
  fair, so are the steps of Run; a stream that opens is greeted and a broken one is noticed; a
  register call is answered (RequestTimeout bounds it in the code). No fairness is assumed of
  frames, faults, restarts, orphaned requests or the end of the context.
- `AgentRun`: Run's own steps and the end of Start's goroutine. None of the server, the application
  or the replay chain. A ShutdownFunc is taken to return.
- `WatchStream`: the goroutine is scheduled and what it sends is taken. The sidecar need not write
  anything, nor end the stream.
- `ConfigClient`: a Get that has begun goes on and so do the watch goroutines; nobody has to call Get or to write.
- `StoreWatch`: the goroutines and Consul's answers. A consumer need not receive; only
  `LastChangeDelivered` speaks of one that does, as its own hypothesis (`KeepsReceiving`).

## Proofs

Each proof rests on the assumptions that its module makes about its constants (`WatchReplayAssumption`,
`AgentRunAssumption`, `WatchStreamAssumption` and `FramesAssumption`, `ConfigClientAssumption`,
`StoreWatchAssumption`, `RegistrationAssumption` and `DefaultsAssumption`) and holds for every value that
meets them. TLC checks the assumptions for the values of the runs. It has also
checked `StreamInv` and `RegistrationInv` in every state of their runs.

The replay chain, for every buffer size, number of frames and number of faults:

- `TypeCorrect`: `Spec => []TypeOK`. Every section of the controller returns a status
  (`ControllerTypes`), and every action keeps the types.
- `ReplaysCounted`, `DisconnectsCounted`: the two accounting equations are inductive together with
  `TypeOK`; `ControllerCounts` says which section moves which counter. The equation of the disconnects
  (`DisconnectAccounting`, in the proof module) is the strengthening of `EveryDisconnectCounts`: the count is that of the
  disconnects received and of the failed replays together, which is also what `WatchReplay_disconnects` shows.
- `ChainHolds` (the inductive invariant `ChainInv`), `SilentLossNever`, `StaleConnectionNever`.
  `NoSilentLoss` is not inductive: a restart of the sidecar between two streams breaks no stream, so
  one must know that the disconnect which ended the last stream is still queued or has already reset the
  status. That is `CleanBetweenStreams`: between two streams the last queued event is a
  disconnect, or the queue is empty and the status is down. It holds because the source sends the
  disconnect on the same channel as the frames and before it dials again. An acknowledged register
  counts from the sidecar's answer on (`LossPending`), because the success is written to the status
  later. The remaining parts tie program counters to streams and calls. A registration that the sidecar
  declined with a 200 is the one exception that `NoSilentLoss` has to make (history variable
  `declined`): this is the finding of `WatchReplay_declined`.
- `ChainFollowsSidecar`: `Spec => Promise!Spec`, the refinement of `Replay`. Every step of the chain
  is one of `Replay` or changes none of the four things it speaks of. The doubt may end only when
  the belief is given up; this is where a queue that loses or reorders a disconnect would fail.

The Agent, for every setup, buffer and budget (`AgentRunProofs`):

- `AgentTypes`, `AgentCountsReplays`: a step of the Agent leaves the chain alone but for what a drain and a
  deregister do to the instance (`AgentLeavesChain`), so the lemmas of `WatchReplayProofs` carry over.
- `HostedRunExitsClean`, `UndeclinedRunDeregisters` (the first without its exception, for a sidecar that never
  declines with a 200), `ServeFailureReported`: from `AgentInv`, which says what the server's state, the
  stage of the finish and the error kept for later have to do with one another (`ServerPart`,
  `FinishPart`, `ErrorPart`). Neither is inductive alone: that Run may return nil depends on whether a server
  was started and whether its channel has been taken.
- `DrainComesFirst`: an action property, from the same invariant.

The configuration client, for any sets of keys, scopes and Gets and any capacity:

- `CapacityKept`: an insertion removes an entry first when the cache is full, and Gets and watches
  insert inside one lock section, so `Cardinality(Cached)` stays within the capacity (lemmas about
  the cardinality of a set that loses one element and gains one).
- `HandlesHold`, and from it `OneWatch`, `EveryCachedKeyIsWatched` and `EveryHandleRuns`. The three
  are not inductive alone. `HandleInv` adds that a scope without a handle has nothing (no keys, no goroutine, no Get
  at its start), that of the Gets of a scope only one is about to start the goroutine, and that
  the watch refreshes keys of its own scope only: otherwise a watch could insert a
  key that no handle holds.

- `ClientTypes`: no cursor, no snapshot, no value read and no cached value is of a later index than Consul has
  reached; the bound is the current index, which grows, so every step has to keep it. That the index of a scope is one of its keys'
  and not less than any (`LastIndexFacts`) needs the existence of a maximum (`MaxFacts`), from the
  well-foundedness of the natural numbers.
- `OnlyRacesLeaveStale`: `StaleOnlyIfWrittenDuringGet`, the counterpart of the finding of
  `ConfigClient_fresh`: nothing but a write during a Get can leave an entry out of date. It speaks of idle
  watches only; `FreshInv` extends it to every state: what a watch holds of a key is the key's
  state or the watch is behind (`SnapshotInv`); a cached key is the handle's or the Get that put its value will make it
  so (`AttachedOrPut`), otherwise a watch could copy its keys and miss it; and an entry that is out
  of date is marked, or the watch has not asked yet, or it is about to apply the change, or the Get that put the
  entry has not returned and will see it (`StaleIsSeen`).
- `ExpiredGoFirst`: who leaves the cache, an action property, with and without the watch. An unexpired entry
  is removed by a watch whose snapshot lacks its key, or for a new key in a full cache (`EvictsFreshWhenFull`).
  That the new entry is really there afterwards needs that no index that is put is 0 (`PutsValues`).

`StoreWatch`, for any number of Watches of the key and any channel capacity:

- `TypeCorrect`, with the capacity of the channels.
- `EventsStayInOrder`: a Watch's stream (received, in the channel, about to be sent) is strictly increasing and
  bounded by its cursor (`StreamInv`). The bound makes the order inductive: an answer is used only if its index
  is beyond the cursor, hence beyond every event of the stream.
- `TheOnlyWatchIsReached`: while no other Watch was ever called, the map holds the running one's
  cancel function.
- `WatchImplementsFeed`: the refinement of `Feed`, for every number of restores too. An answer that
  is used is `Takes`; a send and a receive are stutters, as they move an event along one stream;
  a step that sees the end of the context is `Ends`, which may withhold the last event.

One stream of `/watch`, for any set of frames, any lines in them, any number of frames and any cut
(`WatchStreamProofs`):

- `StreamTypes`: the events are connected and heartbeat, and `watchOnce` returns once, with one of its
  three errors. What the loops over lines and data compute is typed first: a recursive function on
  the numbers up to n exists and is what its definition says (`Recursion`, from an induction over sets of
  numbers).
- `StreamDispatchesItsFrames`: what is sent is what the whole frames stand for, in order and once. It is
  not inductive, for it says nothing of a frame half read. `StreamInv` numbers the lines of the stream,
  frame after frame: the unread lines are those after the reader's place; the three fields that
  `watchOnce` holds are those collected of the lines of *one* frame up to that place; and what has been
  sent is what the frames before that one stand for. A field that survives a frame, a blank line
  that is taken for two, or a send that comes before the fields are cleared breaks it.
- `CutFramesInventNothing`: a part of a frame, cut at any place, stands for its own event or for none, as long
  as no line of the frame names another event (`Agrees`; without this premise it is false: a header
  says one type and the payload, which decides, another). From `StreamInv` and `PartsAgree`.

`FramesAssumption` says that a frame stands for what the fields of its lines say. It fixes the
meaning of a frame by its lines alone, without the reader's state, which is what the theorem compares with.

The construction of the agent, for any lexicon of texts, any manifests, options and configurations and
any number of deployments (`RegistrationProofs`):

- The loops are put in closed form, turn by turn (`ServiceLoopIs`, `RouteLoopIs`, `CheckRoutesIs`): after i
  turns they hold the entries up to i, normalised, and have found what is wrong with those. The closed
  form is the contract that is stated of the whole (`AcceptedIsContract`). That sorting gives every entry
  once is proved for any total order of a finite set (`SortExists`, `InOrderSorts`); texts, services of
  distinct names and routes of distinct keys are such.
- `RegistrationInv` says, of every stage of New, what its locals hold in terms of the *file*: that a
  loaded manifest keeps the contract and has its services and its sorted routes, that the node is made of
  these, and that what is remembered of the deployment before is what is expected of this one. The
  last part is why `SameContentSameRegistration` can be proved: the invariant does not
  compare two runs of New but each of them with the file (`Expected`), and a regenerated file has the same
  expectation (`RegeneratedIsSame`).
- From it `NewAcceptsTheContract`, `TheValidatorsAgree` (the second validator, run on the result of the first,
  accepts it and changes nothing, `PayloadIsValid`; its loop, as it is, does what the manifest's does, `NodeLoopIsLoop`), `OrderDoesNotMatter`, `PayloadIsTheManifest`,
  `RegistrationTypes` and `TheDefaultsAgree`.
- `AgentIsOneInstance`: every request of one deployment names the instance of the node. The node keeps
  copies, so a change of the options does not reach it (`RequestsNameTheNode`).

Model-checked only: liveness (`ReplayAfterBreak`, `CancelStops`, `DoubtIsResolved`, `Settles`, `RunReturns`,
`EndedStreamReturns`, `CancelCloses`, `LastChangeDelivered`, `Converges`), which the prover
cannot reason about. Every safety property of the passing runs, and both refinements, are theorems.

## Not modelled

- A second Run of one Agent (it shares the errors channel of the first), `ConfigureRun` during a Run
  (written without a lock), separate calls of `Drain` and `Deregister`, an onError that blocks.
- Key paths, scope prefixes and the codec of `config`: formatting, without decisions that the
  properties depend on. `Put` and `Delete` are one call to Consul each and appear as changes of the key.
- Consul's index going back under `ConfigClient`: the smallest instance in which two Gets and two
  writes meet a restore has more than twenty million states. `StoreWatch` has the same cursor, with restores.
- A sidecar that forgets a service without restarting, so without breaking the stream.
- The request envelope and the texts of errors; only their kinds are kept.
- `core.go` and `src/config.go`: they build the Consul client, in one call, from a record.
- Gets with the cache disabled (no state).

## Plan

Done, most important behaviour first: the replay chain (`Controller`, `WatchReplay`) with its
refinement of `Replay`; the Agent composed with it (`AgentRun`); cache and shared watches
(`ConfigClient`); single-key watches with their refinement of `Feed` and restores (`StoreWatch`);
the SSE reader (`WatchStream`); the construction of the agent (`Registration`); the proofs above, which
cover every safety property of the runs.

Left, in this order:

1. `AgentRun` with two Runs of one Agent and with separate Drain and Deregister calls.
2. A Consul whose index goes back under `ConfigClient`: values by version, epochs as in `StoreWatch`,
   and an instance without the second Get.
3. The composition of `WatchStream` with `WatchReplay`, as a refinement of its source.
4. Key paths and scope prefixes: that the paths of different keys differ.

New questions should be added to the runs above, or merged with them, where the bounds allow it: each
of the larger runs takes a minute or two.

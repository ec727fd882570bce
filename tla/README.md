# Verification of microhelix-server

microhelix-server is an HTTP server whose services are Lua scripts. This directory
holds TLA+ models of it, TLC configurations that check them on small instances, and
TLAPS proofs for instances of any size. All paths are relative to the repository root
(`src/` there is the checkout). Line numbers are those of the commit modelled.

To check: `tlc -config <cfg> <module>` for a run, `tlapm <module>` for the proofs.
`PROJECT.json` lists runs, mutants, the source lines each definition translates,
findings, hazards and theorems.

## 1. The system

| Component | State | Operations | Hard part |
|---|---|---|---|
| `main`, `ConfigManager` (`core/`) | the ini file | load, then `NetworkManager::init`, `ScriptingManager::init`, `run` | the order; widths of the numbers read |
| `NetworkManager` (`network/`) | the web server, its `resource` map | `registerPath`, `getMethod`, `getMethodString`, `run` | unknown methods stand for GET |
| HTTP server (`external/simpleweb`, vendored) | an `io_service` and its pool of threads, connections, timers | accept, read, `find_resource`, send when the response object is released, keep-alive | threads, timeouts |
| `Script` (`scripting/src/script.cpp`) | `states`, `preloadedScripts`, a mutex, one `lua_State` for `service.lua` | `execute`, `registerMethod`, `preloadScripts`, `getStateForThread` | shared by all server threads; a `lua_State` is not thread safe |
| Request handler (the lambda in `registerMethod`) | the Lua stack of the thread's state, the response | push the request, call `onRequest`, choose and write an answer | seven ways out; the stack outlives the request and nothing makes room on it; errors outside `lua_pcall` abort |
| `http_helpers` | the static map of status lines | `sendResponse`, `sendGenericError`, JSON to table and back | the map is written to without a lock |
| Helix Lua API | none | `Helix.success`, `error`, `script`, `utils.json.parse` | |
| `MongoPoolManager` (`plugins/mongodb`) | the map from URI to pool and count, a mutex, a UUID generator | `getPoolForUri`, `releasePool`, `generateRandomUUID` | shared by all Lua states; called from finalisers |
| MongoDB connections, `mongodb.lua` | userdata of clients | connect, disconnect, `withConnection` | errors between steps, a pool of at most 20 clients that blocks |
| MongoDB collections | userdata of collections, each with a client | `getCollection`, close, `withCollection`, `withCollections`; insert, find, count, aggregate, delete, update | a collection outlives its connection; many ways out of an operation, each with things to free |
| `json_utils` | none | table to JSON and back | recursion on a stack shared with the caller; nulls, texts that do not parse, depth |
| ssl plugin | userdata with an RSA key | new, verify, close, collect | close and collector free the same thing |
| `test.lua` | registered tests | `registerTest`, `runTest` | |

A request goes like this. A thread of the pool reads it and `find_resource` calls the
handler registered for the first matching regex and method. The handler asks
`Script::getStateForThread` for the thread's own Lua state of the entry, pushes
`onRequest`, headers, matches and body, calls it, and writes an answer into the response
object, which is sent when the handler lets go of it. The script may call the
mongodb and ssl plugins; the plugins' userdata are finalised by the garbage collector
of that Lua state, on the same thread.

What makes each part correct:

* Script: no two threads execute in one `lua_State`; the vector of preloaded states
  is never empty when a thread takes from it; a handler executes the script of its own
  entry; a thread keeps its state; the mutex is always released.
* Request handler: every request is answered exactly once, with what the script
  asked for; the call finds `onRequest` and its arguments on the stack whatever earlier
  requests left there; the process ends over no request that keeps the contract and finds
  room on the stack.
* Pools: the count of an entry is the number of handles that refer to it; a pool is
  destroyed when and only when the last one goes; a new handle gets a live pool.
* Connections: a client is used by one thread; every client taken is given back however
  a script ends; threads that wait for a client never all wait for each other.
* Collections: an operation works with a client its thread holds; a collection is closed
  before its client goes back, once.
* Operations: the script gets the documents the database delivered, whole and in order, and
  the truth about its writes; its own tables are left alone; what a call allocates is freed on
  its way out.
* Keys: every RSA object is freed exactly once, by `close` or by the collector.

## 2. Modules

| Module | Role |
|---|---|
| `PrivateStates` | abstract specification: threads claim Lua states for good and execute only in their own |
| `ServiceReplies` | abstract specification: every request gets one answer, the one due for it; only a risky request stops the server |
| `SharedPools` | abstract specification: getting and releasing the pool of a connection string are one step each |
| `ClientPool` | abstract specification: a pool hands clients nobody has to threads that wait |
| `ScriptStates` | class `Script`: start-up, registration, `getStateForThread` |
| `ScriptStatesProofs` | theorems about `ScriptStates`, including that it implements `PrivateStates` |
| `RequestHandler` | the handler of one entry, with the Lua stacks |
| `RequestHandlerProofs` | theorems about `RequestHandler`, including that it implements `ServiceReplies` |
| `MongoPools` | the pool manager and the handles of `mongodb.new` |
| `MongoPoolsProofs` | theorems about `MongoPools`, including that it implements `SharedPools` |
| `MongoConnections` | the clients of one pool and the wrapper objects of `mongodb.lua` |
| `MongoConnectionsProofs` | theorems about `MongoConnections`, including that it implements `ClientPool` |
| `MongoCollections` | extends it: the collections scripts open on the clients; every step is one of `MongoConnections` or leaves its variables alone |
| `MongoCollectionsProofs` | theorems about `MongoCollections`, including that it implements `MongoConnections` |
| `LuaJson` | `json_utils`: a JSON document becomes a Lua table, step by step on the Lua stack |
| `LuaJsonProofs` | lemmas about that conversion, for any document |
| `MongoOperations` | extends it: the six operations of a collection |
| `MongoOperationsProofs` | theorems about `MongoOperations` |
| `SslKeys` | the public keys of the ssl plugin and the collector |
| `SslKeysProofs` | theorems about `SslKeys` |
| `MCScriptStates`, `MCRequestHandler`, `MCMongoPools`, `MCMongoCollections`, `MCMongoOperations`, `MCSslKeys` | instances for TLC |

Definitions marked `Mutant:` are plausible mistakes in the definition that follows them.
They are not part of any specification. Putting one in the place of the definition it
is named for makes the property it is listed with in `PROJECT.json` fail.

### ScriptStates

The variables are the members of the class (`preloaded`, `states`, `mutex`), the routes
of the server (`resource`), what `execute` has still to walk (`pending`), and for each
thread its place in the handler (`pc`), the entry it serves (`request`) and the state it
was given (`current`). A Lua state is the pair of the entry it was loaded for and its
number, so it says which script file it ran.

Start-up has one thread: `Execute` or `ExecuteFails` (`service.lua` raises), then
`RegisterMethod`, `SkipEntry` or `PreloadFails` for every entry, then `StartServer`.
`lua_next` promises no order, so entries come in any order that finishes a service before
the next (`NextInWalk`). `getStateForThread` is one action per statement that touches
shared state: `LockMutex`, `LookupHit` or `LookupMiss`, `TakeBack` (`back()`),
`PopBack` (`pop_back()`), `UnlockMutex`; `Finish` ends the handler.

Keys are modelled by what the concatenation does: service and folder are sequences of
parts, joined without a separator. The method string cannot run into them, since it
follows a `-` and is one of six words.

### RequestHandler

One entry, its `consumes` and `produces` settings chosen in `Init`, and several threads
that each keep their own stack. A stack is a sequence of kinds of slots. `Dispatch` pushes
function, headers and matches; `PushPlain`, `PushJson`, `PushJsonPanics`,
`PushJsonUndefined` and `RejectBody` are the outcomes of the body; `CallReturns`,
`CallRaises`, `CallNoFunction`, `CallUndefined` those of `lua_mypcall`; then one action for
every branch that chooses an answer, `LookupStatus` and `WriteAnswer` for the two
functions that write one (two steps, because the map of status lines is shared), and
`Finish`, which pops and hands the response to the server. When a handler is done
the slots it left are marked `stale`, save the function itself, which is the same
value in every request.

`phase` becomes `aborted` for a Lua error outside a protected call and `undefined` for
what the C++ or C API gives no meaning: `MemberBegin` of a document that is no
object (release builds have no assertion), a message handler index below the stack, a
push beyond its slots, a data race on the map. Both are final, because nothing can be said of what follows.

What the script does is an input: an outcome says how `onRequest` ends, with which code
and which kind of content. The JSON text itself is not modelled, only whether it
parses, whether it is an object, how many nulls make `pushJsonValue` push nothing, and how
many slots the conversion needs at most (`room`: one for a member, one for a level). A null
stands for all values without a branch in `pushJsonValue`, such as unsigned numbers above the
largest `lua_Integer`.

Nothing in the program calls `lua_checkstack`, so a stack has the `Slots` that Lua guarantees
(LUA_MINSTACK). `Needs` is what the next step pushes; a thread that has fewer slots left may
take the step all the same, since the stack may happen to be larger, or `Overflow`, after
which `phase` is `undefined`. Slots that earlier answers left and a deep body or answer both
lead there.

Seen as `ServiceReplies`, a request is open from `Dispatch` to `Finish`, risky if its body or
its outcome breaks the contract or needs more slots than are left (`Outgrows`), and its answer is due when the body is rejected or the
script has ended (`openBar`, `riskyBar`, `dueBar`). `Due` says which answer without looking at
the stack: from the entry, the request and the outcome alone.

### MongoPools

`pools` is the map of the manager, `alive` the pools libmongoc has not destroyed,
`handles` the userdata. `NewPool`, `LockGet`, `FindHit` or `FindMiss` and `Create`,
`UnlockGet`, `Store`, `Configure` are `mongodb.new` (with its `setMaxCreableConnections`);
`Collect`, `LockRelease`, `Drop`, `UnlockRelease`, `Forget` the finaliser. `NewPoolRaises`
is the error between metatable and fields, `CollectRaw` the collection of such a
handle. libmongoc is external: a pool is alive from creation to destruction, and a use
of it or of its URI afterwards is undefined (`phase`). So is the pool of a connection string that
`mongoc_uri_new` refuses (`BadUris`, `CreateInvalid`): the code does not test the NULL it returns.

A thread stands for the Lua states it runs. A thread makes and collects one handle at a
time; a collection may happen between any two operations of the script, not within
`newPool`, whose own userdata is the last one it allocates before the lookup.

Seen as `SharedPools`, the users of a pool are the handles between the lookup that
counted them and the release that gives up their count (`usersBar` is `Referring`), and its state
is absent, live or dead (`stateBar`). A dead pool can get users again: that is finding 4.

### MongoConnections

`created` and `idle` are the pool's clients, `conn[t][o]` the `_conn` of a wrapper object,
`scopes` the nested calls of `withConnection` a thread is in. `Connect` with `PopIdle` or
`PopNew` is `connect`: a thread at `pop` with no client left is blocked in
`mongoc_client_pool_pop`. `Disconnect` tests, pushes and resets `_conn`. `Enter`, `Leave` and
`LeaveRaises` are `withConnection`: `Leave` is taken in `run` (the function returned) and in
`raising` (an error, which goes on after the disconnect); `LeaveRaises` is the error of
`disconnect` when the function disconnected the object itself, which nothing in
`withConnection` catches. `Catch` is a `pcall` of the script, or the handler's. `Lose` is the
collection of a connected wrapper: a client's userdata has no finaliser.

`scoped`, chosen in `Init`, says what scripts do: connect only to call `withConnection` on the result, as all
examples of README.MD do, or anything. The pool itself lives on; when it does is the
subject of `MongoPools`. Raising an error, returning and waiting are all a script does
here between two calls of the wrapper.

Seen as `ClientPool`, a thread holds the clients of its connected objects (`heldBar`), and a
client created that is neither idle nor held is lost (`lostBar`), which takes scripts that
are not `scoped`.

### MongoCollections

`coll[t][k]` is the client of an open collection (`mongoc_collection_t` refers to it, not to
the wrapper object), `blocks` the nested calls of `withCollection` and `withCollections`, each
with the number of `withConnection` calls around it, `using` the client an operation of the
thread works with. `EnterBlock` and `LeaveBlock` are the two with functions: `LeaveBlock`
closes all collections it was given, whether the function returned or raised. `Close`
destroys a collection and sets it to NULL; `ClosedAgain` and `UseClosed` are what
libmongoc then does with NULL (`phase` is `undefined` from there on). `Forget`: a collection's
userdata has no finaliser, so one left open stays allocated.

`tidy`, chosen in `Init`, is the set of threads whose scripts do what the examples of
README.MD do: connections and collections are opened to be handed to a with function, and
used inside. The other threads do anything the wrapper lets them. The properties are
about the tidy threads, in the presence of the others.

### LuaJson and MongoOperations

`stack` is the Lua stack of the C function, `heap` the tables, `work` the recursion of
`deserializeObject` and `deserializeArray`: the documents being converted, outermost first,
with the members done. `PushScalar`, `PushNull`, `Open` and `Close` are one member each. A
store (`SetTop`) takes the top slot and puts it in the slot below, whatever these are:
`pushJsonValue` pushes nothing for a null, so the store that follows takes a slot that was
not meant for it. Scalars and names are model values; documents are trees over them. Of the
conversion to text the model keeps what a caller can tell apart: which tables are written as
arrays (`IsTableArray`), which raise an error because a key is no string (`MeetsBadKeys`), and which have more
levels than the stack has slots for (`TooDeep`), tables within themselves among them.

`MongoOperations` runs one call at a time, on the stack of its Lua state. `MakeQuery` and
`MakeUpdate` are `createBSONFromLuaTable`, which accepts or refuses; the database
succeeds or fails at any point (`failed`); a cursor delivers rows (`NextRow`), each
of which is converted (`ConvertRow`) and stored (`StoreRow`), until `EndOfRows`. The text of a
row with a NaN or an infinite double does not parse (`Unparsed`): `NextRowUnparsed` pushes
nothing, no caller tests it, and `StoreNoRow` stores the results into what lies below.
`StackOverflows` is a push beyond the `MinStack` slots above the arguments, and
`WritingUndefined` the walk of a table that is too deep or of a string, which `lua_next` takes
for a table; both end in `undefined`. As in the handler, a push without room may also go well. `live` is
what the call has allocated: the documents, the cursor and the text of a row. `returned` is
what the script gets: values, or an error. `lost` counts the slots that nulls and unparsed rows
have taken. After a call the tables it made are arguments of later calls.

### SslKeys

`rsa[k]` is the field of a userdata, `live` the RSA objects allocated, at places that may be
used again. `NewUserdata` sets the metatable, and with it `__gc`, before the field is
written; `NoString`, `ReadKey` and `ReadNoKey` are the ways `newPublicKey` goes on. `Close`
and `Collect` call the same function, `Free`. `phase` says what was done that has no meaning, and
`culprit` with which key: `FreeUndefined` frees what is not allocated, `VerifyUndefined` uses it,
and `VerifyShort` is `verify` of a signature whose decoded length `calcDecodeLength` gets wrong:
an empty one is read before its start, one that is only padding makes `Base64Decode` write before
its buffer, however sound the key is.

## 3. Runs

| Run | Instance | Shows |
|---|---|---|
| `states` | 2 threads; GET, POST, an Origins table, PATCH in the folder of GET and TRACE in another | the claims about states, plus refinement of `PrivateStates`; unknown names are GET, so entries share a key or a route, in every order of the walk |
| `states_colliding` | 3 threads; two services whose keys are equal | finding: the wrong script runs |
| `handler_benign` | 2 threads, 6 slots; documented use: a flat and a deep body, one that does not parse, 6 outcomes | what the script asked for, the process ends only where the stack is too small, liveness |
| `handler_rough` | 2 threads; nulls 0 to 3, not an object, unparsable, undocumented outcomes | refinement of `ServiceReplies`: one answer, which depends on no other request, and only a broken contract or a stack too small ends the process; the call finds its arguments, exact ledger of the stack |
| `handler_stale`, `handler_error` | 1 thread | findings |
| `pools` | 3 threads, 2 URIs and a refused one, 4 handles | exact counts, a pool destroyed by the last release and never earlier, refinement of `SharedPools` |
| `pools_alive` | 1 thread, 1 URI, 2 handles | finding: a destroyed pool is handed out |
| `collections` | 2 threads with 2 objects and 2 collections, 3 clients, nesting 2; every mix of tidy and other scripts | no client in two places, whatever scripts do; `withConnection` returns every client; no deadlock; tidy scripts close before they give back, close once, and use only clients they hold; refinement of `ClientPool` |
| `operations` | 7 rows (nested, empty, a name given twice, nulls in four positions, one too deep for the stack, one that does not parse), up to 2 rows a cursor, tables of earlier calls and strings as arguments | what scripts get, what each way out leaves allocated, what nulls and unparsed rows do, every call ends |
| `operations_errors` | the rows with nulls, fewer tables | findings: errors of reads are lost, a null makes `find` return an argument |
| `keys` | 3 userdata, 3 places for RSA objects | each key freed once, and in the end, whatever is allocated in its place since; no leak |

The invariants named `IInv`, `CInv` and `JInv` are the ones the proofs use. `IInv` and `CInv`
contain the type invariant of their module (`TypeOK`, `CTypeOK`), and `JInv` contains `IInv`. Those
of `MongoConnections` and `SslKeys` are no part of a run: TLC agreed with them, and theorems
hold for every instance. The same is true of `OnePool`, `OneResponse` and `TidyReturned`.

Deadlock is checked in the `states` runs. There, a server that has exited or has no
handler stutters explicitly (`NoHandlerLeft`). The other runs stop where `phase` says so,
where the stack of a handler reaches its bound, in `operations` where all tables the bound
allows are made, and, in `collections`, where all clients are lost or held by threads that
wait (that this takes scripts that do more than `withConnection` is `NoDeadlock`).

### Bounds

* Two threads meet in every way `getStateForThread` and the map of status lines allow: each
  hazard there is one thread between two steps of another. The proofs remove this bound.
* `MaxStack = 2`: no request is dispatched on a stack higher than two. A request leaves at
  most two slots, so this covers every pair of successive requests, and a call three
  slots below the top (two nulls plus the function) still meets slots of an earlier
  request. Higher stacks repeat the same steps further up: no guard looks more than
  four slots down, but that of `Overflow`, which compares the height with `Slots`.
* Three threads and four handles let two threads hold one URI while a third looks it up and a
  handle for it, or for the other URI, is collected.
* Three clients are the fewest that let two threads hold one and wait for a second without
  both of them waiting: `LargeEnough` is `Threads * (Objects - 1) < Clients`. With two,
  TLC finds the deadlock. Nesting of two (`MaxScopes`) lets a function connect a second
  object, or the same one again, inside `withConnection`, with `withCollection` calls around
  and inside either. The repository's numbers, 8 threads by default and 20 clients, are
  large enough for scripts that use three objects at once, and no longer for four.
  `StrayColls` bounds the collections a script that is not tidy has at once: one, which
  it may close, use, forget and open again. The proofs need none of these bounds.
* `MaxRows = 2`: a row is stored after one that was stored, with nulls in either. Four nulls
  in two rows reach below the four slots of the longest call, so stores that raise
  an error occur too. `MaxTables = 4`: a call with tables that an earlier call
  made, also those that two nulls have made part of themselves.
* `Slots = 6` and `MinStack = 4` stand for the 20 of LUA_MINSTACK. They are limits of Lua, not
  bounds of the model: the code runs into them, and so do the runs. With 6 a flat body fits
  on the stack of a fresh state and not on one where two slots are lost; a deep one never
  does. With 4 a row of two levels converts and one of three overflows.
* A third connection string is the one libmongoc refuses.
* Three keys: one being made while one is closed and one collected, at shared places.
* Symmetry is used for threads, URIs, handles, objects and clients in runs without liveness, over sets of
  model values no definition tells apart.

### Fairness

`ScriptStates!Fairness` is weak fairness of each thread inside the handler: the
operating system runs every thread that can run. A thread that waits for the mutex
may lose every race for it (`std::mutex` is not fair), so `SomeHandlerRuns` promises that
some waiting thread gets on, not each. That a script returns is assumed (`Finish`).
`RequestHandler!FairSpec` is the same for its handler. Nothing is assumed of clients: no
request need ever arrive. `MongoOperations!FairSpec` is weak fairness of the running call: its
thread runs and the database answers, with success or failure; cursors end because
`MaxRows` does. `SslKeys!FairSpec` is weak fairness of the collector for every key: the Lua
state goes on to allocate. `MongoPools`, `MongoConnections` and `MongoCollections` have safety
properties only: a script may keep its client as long as it likes.

## 4. Findings

Each is a run that violates one property; `PROJECT.json` has the quotation.

1. `OwnScript`: keys without separators, `script.cpp:208`. `/a` with folder `bc` and
   `/ab` with folder `c` share states; the later entry's script serves both.
2. `HeadersArrive`: a null in a JSON body takes a slot of the call (`http_helpers.cpp:243`),
   and a rejected body leaves two behind (`script.cpp:409`); a body with two nulls after a
   rejected one has `onRequest` called with the headers of the rejected request.
3. `ErrorArrives`: two faults in one trace. `Helix.error` sends the code in place of the text,
   `script.cpp:118`; a code without a description gives an empty status line,
   `http_helpers.cpp:131`.
4. `NewPoolIsAlive`: the entry of a destroyed pool stays, `luamongo.cpp:498`.
5. `ErrorsReported`: `mongoc_cursor_next` ends the loop of `find` and `aggregate` at the end of the rows
   and for an error alike, `luamongo.cpp:307`, `374`, and a null in a row shifts what is returned,
   `json_utils.cpp:110`. In the trace a row holds a null and the cursor fails: README.MD promises
   the documents, or `nil` and a string, and the script gets its own argument back.

Some more are stated by properties that hold, or are steps of a model:

* A string that `onRequest` returns is answered with 500 (`script.cpp:445`; README.MD:203 allows
  it): `RefuseValue`.
* `count` returns -1 for an error (`luamongo.cpp:344`; README.MD:310 promises `nil` and a string): `Count`.
* A null in a row, or a row whose text does not parse, makes `find` return one of the arguments of
  the call in place of the results, and the rows go into the script's own table: `RowsDisplaced` says which
  argument, `DocumentsFound` and `ArgumentsKept` what holds without these.
* A document is never freed when the database refuses the write, when the other document of an update is refused,
  or when a row raises an error: `LeakLedger` says what stays, way out by way out.
* The stack of a Lua state grows by a slot or two for most answers, and nothing makes room:
  `StackLedger`, `Overflow`.
* `verify` of a short signature: `VerifyShort`. A connection string that does not parse:
  `CreateInvalid`. A collection its function has closed itself: `ClosedAgain`.

## 5. Proofs

All theorems hold for any values of the constants that satisfy the assumptions the
modules name: finitely many threads (handles, for the pools), and sentinels that are not
among the values they are told apart from.

**ScriptStates.** `Exclusive` and `NeverDry` are not inductive: they say nothing of what
is left in the vectors. `IInv` adds: who holds the mutex (`MutexInv`), that nothing runs
during start-up (`BeforeServing`), what each place of the handler knows (`HandlerInv`),
where states come from (`Provenance`), that a state is in one place, a position of a
vector or a thread, except between `back()` and `pop_back()` (`OnePlace`), and that a
vector holds exactly one state for every thread not yet served (`Enough`). `Enough` is
the point of `numThreads`: the same number goes to server and scripts in `main`.
From it `NeverDry` follows, since a thread about to take is not served; from `OnePlace`,
`Exclusive`. `RunsOwnScript` has the hypothesis that equal keys name the same script
file, exactly what `states_colliding` lacks. `ImplementsPrivateStates` maps `TakeBack` to
`Claim`, `UnlockMutex` to `Enter`, `Finish` to `Leave`, everything else to a stutter.

**MongoPools.** `CountIsHandles` is inductive together with who holds the mutex
(`MutexInv`), what a thread knows of the handle it works on (`PtrInv`, which says that no
entry appears between the miss and the creation), what a handle says about the
map (`HandleInv`) and `OnePool`. `Referring(u)` is defined from the places of the
threads, so each step adds or removes one handle and the proofs are about
cardinalities of sets that differ by one. For `DestroysUnused`, a count of one means
that the set of referring handles is the handle being released, so no other
handle, and no thread between lookup and store, refers to the pool. With it,
`HandlesKeepPoolsAlive` follows by a case analysis of how a handle gets usable: only by
`Configure`, which saw the pool alive. That is why `releasePool` may read the URI of the
handle it releases, although a new handle may get a dead pool (finding 4): using it is
undefined at once, so no such handle gets as far as its finaliser.

`ImplementsSharedPools` says when getting and releasing a pool take effect, although each is
several steps and the entry is read through a reference after the mutex is released:
`FindHit` or `Create`, and `Drop`. Every other step must leave the users and states of all pools as
they are: from the lookup to `Drop` a handle counts as a user at every place its thread can be
(`PtrInv`), and at none after. `Create` makes a new pool because an entry and a pool come
and go together (`OnePool`). `Drop` destroys the pool if the count is one, the abstract
release if the handle is its only user: `CountIsHandles` makes these the same condition.

**MongoConnections.** `ClientExclusive` needs only types and the places of the threads
(`TargetInv`: a thread that waits has not connected its target). `NothingLost` is inductive
with `ScopeInv`: with `scoped`, a connected object is in the scope of a `withConnection`
call or about to be. Popping a scope keeps that because the object popped is disconnected by the
same step, or was not connected. `SomeThreadReturns` is a pigeonhole argument: if every
thread with a client waited, each client would be at an object other than the one its
thread connects; exchanging that object for a fixed one maps clients one to one into
threads times the other objects, and there are more clients than that.

`ImplementsClientPool`: `Connect` is `Ask`, `PopIdle` and `PopNew` are `Take`, an object that is
disconnected is `Give` and one that is collected is `Lose`. That a client taken is free needs
`ClientExclusive`: one with an object is created and not idle. That a client given back leaves
its thread needs it again, as two objects might share the client. That none is lost with `scoped`
needs `ScopeInv`: an object that can be collected is in no scope, so it is not connected.
`BlocksWhenNoneFree` closes the gap a refinement leaves, since a thread that never gets a
client refines any pool: `mongoc_client_pool_pop` has none exactly when the abstract pool
has none. `CollectionsKeepThePool` and `ReturnsAll` carry both to scripts with
collections; the latter says more than `ClientsReturned`, because the scripts on other threads may
do what they like.

**MongoCollections.** `KeepsConnections` says that its steps are steps of `MongoConnections`, so
`IInv` holds there too. `CInv` is proved for each tidy thread: a step of another thread
leaves everything `TidyInv` speaks of alone (`StillTidy`). Its parts: the objects in `scopes`
are connected and different (`ScopesInv`), so giving back the innermost client leaves
the others with theirs; a with function lies inside the connections of its
collections, and deeper calls are inside more connections (`BlocksInv`), so when
`withConnection` ends, every collection of its client is closed; an open collection is about to
enter a with function or in one (`OpenInv`). `UsesItsOwnClient` follows with `ClientExclusive`:
the client in use is held by an object of the thread, and no client is held twice. Close
cannot meet NULL because the collections of nested with functions are disjoint.

**RequestHandler.** `IInv` says for every place of the handler what its stack looks like
(`FlowInv`: one predicate per label). The slots below `height` are what earlier requests left
and nobody relies on; from there up the slots are those pushed so far, less one for each null.
`RespondsOnce`, `OnRequestIsCalled` and `LedgerHolds` each read off one label. For
`SurvivesContract`, a branch that aborts is only open to a request that breaks the contract,
the call has all four slots otherwise, and `Overflow` takes more slots than are left above
`height`, which is what `Outgrows` says. So earlier requests can harm one that keeps the
contract by the slots they left, and in no other way; `LedgerHolds` counts these.

`ImplementsServiceReplies` compares two ways to an answer: the code's, through the stack and the
branches of the handler, and `Due`, which knows entry, request and outcome only.
`DueInv` says they agree at each label after the branch, so what other requests left on the
stack, or do meanwhile to the map of status lines, cannot change an answer
(`DueIsChosen`). `Arrive` is `Dispatch`, which settles at once what is due for a body that does
not parse; the ways out of the call are `Settle`; `WriteAnswer` is `Reply`, which needs that nothing was written before, so `RespondsOnce` is
part of the refinement. A step that ends the process must be a `Stop`, and is one only if a request
under way breaks the contract or outgrows its stack: in `LookupRace`, possibly that of the other thread.

**LuaJson and MongoOperations.** `JsonInv` relates the stack to the recursion: frame `i` fills
the table `i` slots above the base as long as there was no null (`FramesInv`), and the members
done are in it (`Faithful`); every table finished is the whole of its value. With nulls only
counting remains: one slot fewer for each (`StackEffect`). `ConvertKeeps` shows it for any
document that parses, without induction over documents: each step is one member. It says nothing of
a conversion that has run out of slots, which ends in `undefined`.
For the operations, `IInv` adds where each label leaves the arguments (`CursorInv`: they and the
results, less the slots `lost` to nulls and to rows that do not parse, lie below the row), which tables existed when the row was
begun (`GivenInv`, `RowsInv`), and what is allocated at each label (`LiveInv`, from which `LeaksCounted`
follows). In a reply the database never puts a null, an assumption on `ReplyJson`.

**SslKeys.** `IInv` adds that a field never written belongs to the userdata being made, or to
one an error left unreachable. A field that holds a place holds one that is allocated, and
no two fields hold the same: that is why reuse of a freed place does no harm. `FreesOnce`
says what is freed or used wrongly, if anything is; it is no claim about signatures.

Only model-checked: liveness (`SomeHandlerRuns`, `Answered`, `CallsReturn`, `KeysAreFreed`), which
the prover does not reach.

## 6. Not modelled, and what is left

* The two converters of `http_helpers` and `json_utils` are copies but for `isTableArray`: the
  former takes an empty table for an array. Only `json_utils` is modelled as a conversion;
  of the other, `RequestHandler` has the effect on the stack and the errors.
* A row holds a null or does not parse as `Rows` and `Unparsed` say; the reply of the last write is
  assumed to exist, to parse and to hold no null. Of a key of a table that is a number and one
  that is the same number as a string, the model knows only that the number raises an error.
* In `verify`, the hash, and the base64 text but for the signatures of `VerifyShort`. Scripts that call the mongodb plugin without the
  wrapper, and `cleanup`, which does nothing.
* `skip` and `limit` are cut to 32 unsigned bits; README.MD says nothing of negative ones.
* The UUID generator all threads share without a mutex: a race in a library.
* `test.lua`: a sequential loop (`runTest` tests the global `test` where it means `testName`).
  `ConfigManager`: three numbers read at start (the port as a signed 16-bit number, so
  that ports above 32767 are refused; with a pool size of 0 the server stops at once).
* Parsing of HTTP and JSON text, regular expressions, timers and keep-alive of
  simpleweb, its TLS variants and its client, rapidjson, the build.

Left for later: `ScriptStates`, `RequestHandler` and `MongoPools` composed, so that stacks belong to
Lua states and handles to the scripts that run in them. Their abstract specifications,
`PrivateStates`, `ServiceReplies` and `SharedPools`, are what such a composition would be built from.

# remarkable2notion: models, model checking and proofs

remarkable2notion puts a "Send to Notion" screen on a reMarkable tablet. A small
daemon on the tablet keeps the Notion accounts and talks to Notion; a broker on
the network carries out the OAuth dance between a phone and Notion and hands the
token to the tablet. This directory holds TLA+ models of the parts of that code
in which order, concurrency and failure matter, the TLC configurations that
check them, and TLAPS proofs.

Source paths are relative to `src/`. Short names: *broker* = `server/src/broker.js`,
*memory store* = `server/src/store-memory.js`, *store* =
`app/daemon/internal/store/store.go`, *bridge* =
`app/daemon/internal/bridge/bridge.go`, *overlay* = `app/qmd/send-to-notion.qmd`.

## 1. Inventory

| Component | State | Operations | Talks to | What makes it correct |
|---|---|---|---|---|
| Broker handlers (`broker.js`) | the local variables of each request in flight | POST /pair, GET /pair/{code}, GET and POST /go/{code}, GET /callback | store (awaited calls), Notion's token endpoint | a token reaches only the tablet whose QR code was scanned; nothing stays after the handoff; who was told "Connected" was not told so in vain |
| Memory store (`store-memory.js`) | pairings, pointers from user codes, buckets; lost on restart | mint, resolveUser, pending, complete, claim, take; each reaps first | broker | one token per device code at most, inside a window; reaping is invisible |
| Rate limiter (`take` of both stores) | one token bucket per client | take | POST /pair | never more than a bucket plus the refill; refusals are free |
| Durable Object store (`worker.js`) | one object per code, with an alarm | init, pending, complete, claim, point, resolve, take, alarm | broker | the contract of the memory store, with storage awaits and an alarm in between |
| Codes, pages, Node host (`codes.js`, `pages.js`, `node.js`) | none | random codes, HTML, request adaptation | broker | codes are fresh |
| Pairing client (`pair/pair.go`) | none | Start, Poll | broker | delivers what the broker handed over |
| Account store (`store.go`) | `accounts.json`, its temporary file, two files of the single-account format | Accounts, TokenFor, AddAccount, SetWorkspace, RemoveAccount, RemoveAllAccounts | bridge; a second process (`-set-token`) through the files | one atomic list; nothing acknowledged is lost; the old format is taken over once |
| Bridge (`bridge.go`) | none of its own; handlers in flight | status, pair.start, pair.poll, targets.list, targets.refresh, send, logout | account store, Notion client, pairing client, notebook files | forgets only what was revoked or logged out; one account is one workspace; a failing account hides no other |
| Notion client (`notion/client.go`) | none | Search, BotInfo, ChildPageOrder, UploadFile, AttachFile | Notion | follows cursors to the end or the limit; reports 401 as such |
| Socket server (`socket/socket.go`) | listener, connections in flight | Start, Close, one request per connection | bridge | every request is answered; Close waits for the ones in flight |
| Entry point (`cmd/notion-bridge/main.go`) | none | daemon, `-call`, `-set-token` | all of the above | |
| Notebook reader (`xochitl/xochitl.go`) | none | Document, PagePath, ParsePageRange | bridge | a range denotes the pages it names, each once |
| `.rm` parser (`rm/`) | a scene tree while it parses | Parse, assemble, collect | bridge | every line is drawn once |
| Renderers (`render/`) | none | SVG, PDF | bridge | geometry |
| Overlay (`send-to-notion.qmd`) | mode, selection, device code, timers | open, dismiss, deferred actions, poll timer | bridge through `notion-bridge -call` | what is sent is what was picked, in the session it was picked in |
| Packaging, installer, CI | files | run once | | |

How they interact: the overlay calls the daemon synchronously over a Unix socket,
one request per connection, and the socket server gives every connection a
goroutine, so two handlers of the bridge can be in flight. They share the account
store, whose mutex covers one operation, not a handler. The bridge calls Notion
and the broker over HTTP, up to 120 s per handler. In the broker, handlers run
without interruption between awaits. The tablet and the broker share nothing but
the device code; the phone carries the user code, as the OAuth `state`.

What is hard to test in this code (the list with lines is `hazards` in
`PROJECT.json`): callbacks that overlap, complete late or are reloaded; expiry that
happens lazily; responses lost after a claim; restarts with QR codes on screen;
a crash or an error between two file accesses; a second process on the same files;
401 answers that arrive after the account was paired again; names used as
identities; one of several accounts failing; deadlines that do not add up;
partially delivered sends.

## 2. Modules

    Maps                          maps as functions: Put, Without
    MintLimiter                   the token bucket
    DurableLimiter                the same in a Durable Object (EXTENDS MintLimiter)
    Pairings                      vocabulary of a pairing
    PairingContract               abstract: what a pairing store promises
    PairingBroker                 handlers over the memory store (EXTENDS MintLimiter;
                                  INSTANCE PairingContract)
      PairingBrokerProofs         theorems of these five
    DurableStore                  handlers over Durable Objects (INSTANCE PairingContract)
      DurableStoreProofs          its theorems
    Accounts                      vocabulary of the account store
    AccountList                   abstract: the atomic list of accounts
    AccountStore                  the files (INSTANCE AccountList)
      AccountStoreProofs          its theorems
    Bridge                        concurrent handlers over the atomic list
      BridgeProofs                its theorems
    TargetTree                    the picker's pages: Search, arrangePages
      TargetTreeProofs            its theorems
    PageRange                     ParsePageRange
    Send                          a send, file by file (EXTENDS PageRange)
      SendProofs                  theorems of PageRange and Send
    RmFields                      payloads of .rm blocks, whole and cut off
    Scene                         Parse and assemble (EXTENDS RmFields)
      SceneProofs                 its theorems
    Overlay                       the overlay's screens, timers and calls
    SocketServer                  connections, deadlines, the daemon's life
    Device                        Overlay, SocketServer and what handlers answer, composed
      DeviceProofs                its theorems
    MC*                           instances for TLC (symmetry sets)

A definition whose comment starts with "Mutated form" is a plausible mistake in the
definition that follows it. It is used by no specification; it is there so that one
can replace the real definition by it and see the property fail.

### MintLimiter

`buckets` is the map of the memory store. `TakeAdmitted` and `TakeRefused` are the two
answers of `take`, `ReapBuckets` is the reaping that every store operation starts
with, `LimiterRestart` loses everything. The code's 0.2 tokens per second and
fractional tokens become integers by counting in the refill of one tick. The history
variable `spent` sums what an address was charged since the process started.

### DurableLimiter

The bucket of `worker.js`: no reaping, but an alarm that an admitted take pushes back
(`DurableTake`) and that wipes the object (`BucketAlarm`). It uses the variables and
the bound of MintLimiter.

### PairingContract

The comment at the top of the memory store as a state machine: a device code is
unused, pending, ready (a token is held), handed over or expired; `given` is what its
polls were answered.

### PairingBroker

One action per stretch between awaits; `reqs[r]` is a handler's local state between
them (`pc` names the await it is about to continue from).

| Code | Actions |
|---|---|
| POST /pair (broker.js:40-52) | `PairTake`, then `PairMint` |
| GET /pair/{code} (54-63) | `Poll` |
| GET, POST /go/{code} (65-92) | `GoResolve`, then `GoAnswer` |
| GET /callback (94-146) | `CallbackResolve`, `CallbackCheck`, `ExchangeSucceeds` / `ExchangeFails`, `CallbackComplete` |
| the user at Notion (external) | `Consent` |
| clock, process | `TimePasses`, `Restart` |

The store's operations are operators inside these actions (`Resolved`, `IsPending`,
`ReapedPairings`, ...), because an in-memory call is not interrupted. Codes are fresh
by construction: they are 128-bit or longer random strings. A `Grant` is one consent,
with its authorization code and the token it is exchanged for; reloading the callback
page repeats the request with the same grant. `consents`, `redirected` and `redeemed`
are Notion's side; `minted`, `handed`, `told` are history.

### DurableStore

The same handlers over `worker.js`. Every device code and user code has an object of
its own; `objects[d]` is a pairing's storage with its alarm, `pointers` the objects of
user codes. A handler calls them one by one.

| Code | Actions |
|---|---|
| POST /pair: `mint` (worker.js:35-38) | `MintInit`, `MintPoint` |
| GET /pair/{code}: `claim` (114-122) | `Claim` |
| POST /go/{code}: `resolve`, `pending` (131-134, 103-107) | `GoResolve`, `GoCheck` |
| GET /callback | `CallbackResolve`, `CallbackCheck`, `Exchange`, `CompleteCheck`, `CompletePut` |
| `alarm()` (158-160) | `PairingAlarm`, `PointerAlarm` |
| platform (external) | `Vanish`, the deaths in `MintInit` and `Claim`, `TimePasses` |

What is assumed of the platform is said in the module: an object takes no other event
while it awaits its storage, and does while it awaits anything else, so a call is one
step except `complete`, which reads the body of its request between `alive()` and
`put()`; an alarm fires at its time or later, never earlier; a handler may end at any
of its calls (`Vanish`). A dying object is possible where two storage calls follow
each other and the state in between differs (`MaxCrashes` bounds it). An object that
was wiped is as one that never was. GET /go, which changes nothing but an object past
its window, the credentials of the broker and the confirmation page are left out; the
consent at Notion is merged into the redirect, as only the callback tells when it
happened.

### Accounts, AccountList, AccountStore

`AccountStore` has one action per file access. `pc[p]` is the access process `p` is
about to make, under its mutex, so a process runs one operation at a time; `accs[p]`
is the slice it loaded. `LoadList`/`LoadLegacy` are `loadAccounts`, `Write` and
`RenameFile` are `writeFileAtomic`, the `Decide...` actions are what each method does
with the list, `Unlink` and `Clear...` the removals. `FailKinds` says which accesses
may fail in a run, `Crash` ends a process at any access and may tear the file being
written, `SetTokenOnly` names processes that are a `notion-bridge -set-token`.
`os.WriteFile` is one step: for a single process that is exact; with two processes it
leaves out behaviours (writing through a renamed file), so two processes can be used
to look for a counterexample and for nothing else. A crash is the death of the
process; what a power cut does to unsynced files is not modelled.

`AccountList` is the promise: operations take effect at one instant between call and
answer, an error changed nothing (`RemoveAllAccounts` excepted, which says so in its
loop), the legacy account is adopted once. The refinement maps the file to the list,
and the pair of legacy files, as long as there is no `accounts.json`, to `legacy`.

### Bridge

The handlers that keep or drop accounts, one action per call to the store, Notion or
the broker. The store is the atomic list that `AccountStore` is shown to implement;
accounts are a map, so where `AddAccount` takes the first record of a name, the model
takes any. `NotionAnswers` is one outcome for the whole exchange (a search with its
pages, an upload with its attachments): a 401, success, or any other failure.
`StoreFails` is a store that cannot write: the error is the answer of `pair.poll` and
`logout`, and nobody looks at it after a 401 or a new name. The last check of
`accountClient` (bridge.go:86-91) is left out: identifiers are drawn afresh, so a token
found under one that was not in the list read before is none.
`listed` remembers which account a picker showed for which workspace. Workspaces begin
with different names, and `Rename` may make two alike.

### TargetTree

What `targets.list` does for one account: `SearchCall` is one call of `Search`
(client.go:177-203) with its cursor and the size it asks for, `SearchFull` its limit;
`ChildPageOrder` is the call for one parent, in the order Go goes over the map, that is
any; it may as well fail (then the parent is left to the order by title); `Arrange` is the
rest of `arrangePages`
(bridge.go:255-317): roots, sorted children, and the walk, a recursive function of a
page and the levels it has left. `OnlyIn` and `Joined` are the code's loops over a slice,
`StableSort` its `sort.SliceStable`. Notion is external: it may answer with fewer entries than asked for,
a cursor is the entry the next call starts with, `Edit` moves an entry to the front
between two calls, and `ChildPageOrder` may know any part of a parent's children in any
order. A title is a number, as only its place in the alphabet matters.

### PageRange and Send

`PageRange` walks over the parts of an expression as `ParsePageRange` does
(xochitl.go:94-136): `StartRange`, `NextPart`, `NextPage`. A part is a pair of numbers or
`Malformed`; splitting and `Atoi` are not modelled.

| Code | Actions of `Send` |
|---|---|
| handleSend: checks and account (bridge.go:336-358) | `Press` |
| render: `Document` (xochitl.go), `ParsePageRange` | `ReadDocument`, `ParseRange` |
| render: a page is found and parsed; the files | `RenderPage`, `RenderFiles` |
| deliver: `UploadFile`, `AttachFile` (bridge.go:433-448, client.go) | `CreateUpload`, `SendUpload`, `AttachFile`, `Delivered` |

Each call to Notion is answered, refused (by a 401 perhaps, which drops the account), or
carried out and answered by an error all the same, as when the answer is lost. The user
may press Send again after any answer. `page` and `content` are Notion's side, `before`
is how many blocks were there when Send was pressed. An answer to an attachment may name
no block; the link is then that of the page, `PageURL`. A rendered file is the list of
pages in it; its name is the page number it carries.

### RmFields and Scene

`RmFields` builds the payload of each block as `writer.go` writes it: a sequence of
tagged fields, some of which hold fields themselves. `Cuts` are the ways such a payload
can end early; a scene item's value may also be an empty subblock (`EmptyValue`).
`Read(fs, k, i, t)` is what `reader.go` does with the k-th field. `Scene`
has one action per kind of block (`Groups`, `TreeNodes`, `LineItems`, `RootTexts`,
`ParseOther`, in `ParseBlock`) over every payload, whole or damaged, `ParseFails` for a
file that is refused, and then `assemble` and `collect` (parse.go:423-478) as a walk with
an explicit stack. `order` is the order nodes were first named in, which the code uses
for what it does not find in a child list. A line is the number of its points.

### Overlay, SocketServer, Device

`Overlay` has one action per thing a user can tap and per timer, and one operator per
function that continues with an answer (`GotStatus`, `GotCode`, ...). `rmnCall` is
synchronous, so the overlay does nothing else while `call` is not `"none"`; what timers and
taps have queued meanwhile runs after it in any order. `pending` is the one action
the shared timer will run, `polling` the other timer.

`SocketServer` has a connection per request in `conns`, which says what is served: a
method somebody waits for, one whose client has gone (`"unwatched"`), or a client that
sends nothing. That one is closed by its deadline (`ReadTimesOut`); `Close` waits for all.
Time is not counted. `Outlives` says which handlers may take longer than the 180 s their
client waits: `targets.refresh`, with two contexts of 120 s (bridge.go:225, 180), and
`send`, which reads, parses and renders before its context begins (bridge.go:360-365),
under no deadline. `GiveUp` is their client giving up; the handler goes on, as the
300 s of `requestDeadline` end reads and writes only.

`Device` composes both: `Dial` hands the overlay's call to a connection, `HandlerReturns`
ends the handler and hands over one of the answers that handler can give (`StatusAnswer`,
`PairPollAnswer`, `TargetsAnswer`, ...), changing `accounts` accordingly; `pairing` is the
code at the broker. A handler nobody waits for may still drop an account that was revoked
(`DropsUnwatched`); what a `send` still attaches to its page is not in this model.
`DaemonKilled` ends the process under any call, which may have done its work already
(`Unanswered`). `Bridge` and `Send` have the same handlers in detail.

## 3. Runs

| Run | Instance | Shows |
|---|---|---|
| `mint_limiter` | the bucket of either store, 2 clients, burst 5, cost 2, 10 ticks | `MintRateBounded`, `OnlyMintsCost`, `WipedBucketIsFull`. The bounds let a bucket empty, refill in part, idle past the limit and be reaped. |
| `pairing_broker` | 2 device and user codes, 2 consents, 2 requests in flight, window 1, clock to 2, one restart | `TokenGoesToItsQR`, `NothingLeftAfterHandoff`, `ConnectedIsNotLost`, `HandoffInWindow`, and the refinement `ImplementsContract` |
| `pairing_broker_live` | 1 pairing, 2 consents, 2 requests | `ConnectedReachesPoller` under fairness |
| `durable_store` | 2 device and user codes, 2 consents, 2 requests in flight, window 1, clock to 2, one dying object | `TokenGoesToItsDevice`, `ConnectedHasToken`, `QRLeadsToPairing`, `LeftTokenIsUnreachable` and the refinement `DurableImplementsContract` |
| `account_store` | 1 process, 3 identifiers, 2 tokens, named and unnamed workspaces, failing writes and removals, one crash | `AcknowledgedIsKept` and the refinement `ImplementsAccountList` |
| `account_migration` | one process on a device of the old format, 3 identifiers, 2 tokens, 1 name, failing reads and writes, one crash | `MigrationRunsOnce`: once, and once more for each crash at most |
| `bridge` | 2 handlers, 2 accounts, 2 workspaces, one rename, revocation at any time | `ForgetsOnlyRevoked`, `RemovedStaysRemoved`, `FailureHidesNoOther`; until a workspace is renamed, `AccountKeepsItsWorkspace`, `SendsToPickedWorkspace` |
| `send` | 3 notebooks of up to 3 pages (a deleted page in the middle, the old page list, all pages deleted), every part over 0..4, every pair of parts in 1..3, 7 kinds of request, Send pressed twice | `SelectsWhatItNames`, `InOrderNamed`, `SendsInOrder`, `SuccessIsWhole`, `NamesTellApart` |
| `target_tree` | 4 pages and a database, every parent relation, answers of 1 or 2 entries, limit 4, depth 2, one edit | `SearchMissesNothing`, `EveryPageOnce`, `RowsNestInOrder` |
| `device` | 1 account, 2 connections, a daemon that closes, is killed and starts again at any time | `SendsAsPressed`, `NeverSendsToRemoved`, and under fairness `OverlayMovesOn`, `CloseReturns` |
| `scene` | a root and 3 nodes, up to 3 blocks, each whole or cut off at any field | `EachNodeDrawnOnce`, `DrawnInItsLayer`, `LinesAsWritten`, `SkippedLeavesNothing` |

Every state machine has a type invariant (`BrokerTypeOK`, `TreeTypeOK`, `DeviceTypeOK`,
...; in Send it is `RangeTypeOK` with `SentTypeOK`). They hold on
the instances above and are part of the inductive invariants where there is a proof; the
runs list the properties that say more.

Why these bounds: the interesting schedules need two of a thing (two callbacks for one
code, two devices whose tokens could be swapped, two accounts, two handlers), a clock
that can pass a window, and one crash or restart. The proofs of the broker and of the
bridge remove those bounds altogether. Two tokens in `bridge` are one account paired again
or two accounts, not both at once; three are beyond what TLC does in minutes.

* `send`: three pages are the fewest with a page between two others, and two parts the
  fewest that overlap, repeat or come in reverse; 0 and 4 are just outside the notebook.
  The second press meets what a failed first one left. The proofs cover any notebook, any
  expression and any number of presses.
* `target_tree`: with `MaxDepth` 2 in place of 8, four pages make a chain too deep, a
  cycle of two or three with a page hanging off it, and siblings with equal titles; with
  `PageSize` 2 and `Limit` 4 in place of 100 and 300, a search takes several calls,
  stops in the middle of an answer, and ends at or before the limit. The first two
  properties are proved for any number of pages, any sizes and any depth.
* `device`: a single account is removed, refused, connected again and stays selected,
  which is all the selection can tell; a second connection is needed for the
  handler whose client has gone and for the client that sends nothing. The two safety
  properties are proved for any number of both.
* `scene`: three blocks make a node shared by two parents, a node that is its own
  ancestor, a cycle off the root, and a layer that is also a child; seven points are
  168 bytes in the old encoding, which is a multiple of the new one's 14 as well. All
  four properties are proved for any page.

One run finds the code doing something else than a comment says:

| Run | Property | What happens |
|---|---|---|
| `bridge_late_401` | `ForgottenIsRevoked` | A 401 for a replaced token removes the account that was paired again. |

What the passing runs exclude, because the property does not hold there:

* Two callbacks for one code that overlap: both phones see "Connected", the later
  completion wins and the tablet gets its token (broker.js:139, store-memory.js).
  `ConnectedIsNotLost` says what remains true: a token of somebody who was told so waits.
* An alarm or a claim between the two halves of `complete` leaves the token in an object
  that no alarm wipes (worker.js:109-111). `LeftTokenIsUnreachable` says that no poll is
  handed it.
* `account_store` lets writes and removals fail, not reads. A list that cannot be
  read counts as empty (store.go:67), and the next operation writes that back, so
  with `"read"` in `FailKinds` `AcknowledgedIsKept` fails. So it does with a second
  process in `Procs` (`-set-token` beside the daemon, store.go:34): each writes back the
  list it loaded, and the later one wins.
* A crash between saving the migrated list and removing the old token file leaves both
  (store.go:84-85), and once the last account is removed the old one is taken over again,
  although store_test.go:107 checks that a migration is not repeated. `MigrationRunsOnce`
  grants each crash one such repetition: `migrations <= 1` alone fails with
  `MaxCrashes = 1`.
* `account_migration` lets no removal fail. A token file that cannot be removed is as good
  as one a crash left, and `RemoveAllAccounts` may stop at it, the list gone and the token
  still there (store.go:202): its caller is told of the failure, and the next operation
  takes the account over again. Nor does it check `AcknowledgedIsKept`: a migration that
  cannot be saved answers with an identifier drawn in that call (store.go:84).
* `FailureHidesNoOther` of `bridge` is about an account whose pages arrived. When all of two
  or more accounts fail, `targets.list` answers without an error, although the comment above
  the condition says "Every account failed: that is a real error, not an empty picker"
  (bridge.go:213): `len(groups)` counts the accounts. `FinishLoop` has the condition as it
  is.
* The two properties of `bridge` about workspaces say nothing once a workspace was
  renamed: the store recognises a workspace by a stored name (store.go:149), and a
  workspace that takes a name stored for another replaces that one's token.
* `EveryPageOnce` excepts pages in a cycle of parents and pages deeper than the walk
  goes, which are left out of the picker without a word (no property covers these), and
  searches during which a
  page was edited and therefore listed twice.
* `SendsInOrder` is about one attempt. Nothing remembers what a failed one attached, so
  pressing Send again attaches those files once more.
* Not every client is there when its handler ends. `-call` gives up after 180 s, and a long
  send or a slow `targets.refresh` may take longer. The overlay then shows an error for a
  send that may still succeed, and who presses Send again has the pages twice. No
  property says otherwise; what holds is that the overlay goes on (`OverlayMovesOn`).
  The comment of `requestDeadline` (socket.go:23) says it bounds how long a connection
  may occupy the daemon; it does not end a handler.
* `SkippedLeavesNothing` is about lines, children, parents and text. A skipped TreeNode
  block still names its node (parse.go:152), and where no group lists the layers, their
  order is that of the names.
* `OverlayMovesOn` counts an error screen as moving on: one poll that fails abandons a
  pairing that is open at the broker. The model also shows, without a property for
  it, that a deferred action runs after the overlay was dismissed, and that tapping
  "Done" and "Add account" before the 60 ms timer fires leaves the poll timer running
  behind the picker.

Fairness is assumed in two runs. In `pairing_broker_live`, a handler that has begun runs
on (`WF` of its continuation): JavaScript promises settle and a fetch answers or throws;
the tablet polls every three seconds while it shows the QR code (overlay, 215-221):
`WF` of `Poll` per device code. Nothing is assumed of users, Notion's consent page, the
clock or restarts; the window closing is an outcome the property allows. In `device`
(`FairDeviceSpec`):

| Assumed | Because |
|---|---|
| `SF` of `DeferFires`, `WF` of `PollFires` | timers of the event loop; a call blocks the loop and its return lets a timer that is due fire, before or after others, so `DeferFires` is enabled again and again rather than always |
| `SF` of `Call` | a call that was begun dials; the daemon may come and go meanwhile, so either there is a listener or there is none |
| `WF` of `HandlerReturns(c)` for some `c` | what a handler asks of others has a deadline of 120 s (bridge.go:28), and the pages a send reads and renders first are finitely many; a handler that hangs is excluded, not shown absent |
| `WF` of `ReadTimesOut`, of `Closed` | the deadline of a connection, 5 minutes (socket.go:28), and `Wait` returning |
| `WF` of `Expire` | the broker's window closes |

Nothing is assumed of the user, the phone, signals, or the daemon being started.

## 4. Proofs

All theorems hold for every value of the constants under the named assumptions of the
modules: `LimiterAssumption` (a bucket fills no slower than it is reaped: 50 s against
10 min in the code), `PairingsAssumption` and `BrokerAssumption` (None is no token).

* **The limiters** (in PairingBrokerProofs). `LimiterCorrect`: the inductive invariant
  `LimiterInv` is typing and `BudgetKept`: what was charged plus what is left is at most a
  full bucket plus the time since the start. `MintRateBounded` alone is not inductive, as
  it says nothing of a bucket's level. `ReapIsHarmless` is the lemma that uses
  the assumption: a bucket idle long enough to be reaped was full. `MintRateIsBounded`
  and `OnlyMintsCostHolds` follow.
  `DurableLimiterCorrect`: `LimiterInv` together with
  `FullWhenDue`, that a bucket will be full when its alarm is due. It is needed because
  refused takes move `seen` but not the alarm; what they leave is still the level the
  bucket had, so the time an admitted take has set remains enough.
  `WipedBucketsAreFull` and `DurableMintRateIsBounded` follow.
* **The contract** (in PairingBrokerProofs). `ContractCorrect` (typing with `AtMostOnce`
  and `HeldOnlyWhileReady`) and `ContractAtMostOnce`. The contract has no run of its own:
  these theorems say what `ImplementsContract` is worth.
* **The broker** (in PairingBrokerProofs). `BrokerCorrect` proves `BrokerInv`. What the store says of
  a pairing is not inductive without what the handlers carry: a callback
  between its exchange and `complete` still holds the device code it resolved
  earlier, so `HandlersAgree` says that it remains the one minted with its
  user code, `TokensInOnePlace` that its token is nowhere else, `PointersAgree` and
  `PairingsAgree` that map entries match what was minted in this epoch of the process.
  From it: `TokensGoToTheirQR`, `NothingIsLeftAfterHandoff`, `ConnectedIsNeverLost`,
  `HandoffIsInWindow`. Most actions are "quiet": they reap and move one handler;
  `QuietStepKeepsStore` and `QuietStepInv` deal with them together, and the ones that
  mint, complete, claim or restart have lemmas of their own.
  `BrokerImplementsContract` shows each step to be a contract step or a stutter under
  `PhaseOf` and `HeldFor`, lazy reaping included: a step of the clock is a
  `ContractExpire`. `BrokerMintRateBounded` is the limiter's bound as a theorem of the
  broker: each of its steps is one of the limiter or leaves the buckets alone
  (`BrokerStepIsLimiterStep`).
* **DurableStoreProofs.** `DurableInv` has, like `BrokerInv`, what the handlers carry
  (`HandlersAgree`), where a token is (`TokensInOnePlace`) and what maps hold
  (`PointersAgree`, `ObjectsAgree`, `HandedAgree`), and three clauses the memory store does
  not need. `AlarmlessIsUnknown`: an object with a window and no alarm is one that died
  while it was minted, and as no QR was shown nobody knows its user code; without it, the
  `put` of a `complete` could renew such a pairing. `OpenUntilOver`: a window closes
  early only for a handoff or a death. `ToldAgree`: the same of the token of a phone
  that was told so, which is `ConnectedHasToken` for tokens in whichever object. From it
  `TokensGoToTheirDevice`, `ConnectedMeansToken`, `QRsLeadToTheirPairing` and
  `LeftTokensAreUnreachable`. `DurableKeepsContract` takes each action to the contract:
  a `put` after an alarm or a claim is no step of it, since `HeldFor` counts a token only
  while its object has a window. With `ContractAtMostOnce` it gives `DurableAtMostOnce`.
* **AccountStoreProofs.** `ListInv`: the file is whole and its identifiers distinct
  (`DiskAgrees`), the list in memory is the one on disk until the operation has decided,
  and then what that operation makes of it (`ListAgrees` with `Outcome`); a migration
  agrees with the old files at each of its five accesses (`MigrationAgrees`); what an
  answer tells is on disk (`AnswerAgrees`). `AcknowledgedIsKept` alone does not say what
  `rename` is about to put in place. From it `AcknowledgedAccountsAreKept`, and the
  refinement `StoreImplementsAccountList`: the operation takes effect where
  `accounts.json` changes (`RenameFile`, `Unlink`, `ClearAccounts`), or where it decides
  that there is nothing to save, and every other step, a crash included, is a step of the
  abstract list too or a stutter. The hypotheses are where the properties hold at all:
  `OneProcess`, since two lose accounts, and no failing read (section 3 says what happens
  otherwise). Writes, removals and crashes stay free. On a device with the old files
  (`LegacyStoreImplementsAccountList`) nothing may fail. `MigrationHappensOnce` has its
  own small invariant, which counts a token file behind a list against the crash that left
  it there; it allows failing reads and writes and any number of crashes, and assumes that
  removals work.

* **BridgeProofs.** `BridgeInv` has three parts. `StoreOK` relates the store to what
  was ever held: every account's token is one its identifier has stood for. `NamesOK`
  holds until a rename: no two workspaces have one name, an account's stored name is
  that of the workspace of all its tokens, and what a picker lists is the account's
  workspace. `HandlersOK` is what makes them inductive: a handler that read an account
  before it was removed or paired again still carries a token of that account
  (`HoldsOK`), knows only the right name (`KnowsOK`), and has pages of no account once it
  failed (`FailsOK`). History only grows (`Grows`), so one handler's step keeps what the
  others hold. From it: `NoFailureHidesOthers`, `AccountStandsForOne`, `SendsWherePicked`
  and `OnlyRevokedAreForgotten`; `RemovedIsNotBroughtBack` needs only what each step does
  to the domain of `accounts`. `BridgeTypeCorrect` adds to `BridgeInv` the types of the maps
  (`MapsTyped`) and of the handlers (`Typed`). `BridgeTypeOK` says that a handler about to
  go to Notion has an account that was there, and that takes knowing where it had the
  identifier from: the list it read, a page some picker shows, or the only account.
* **SendProofs.** `RangeInv`: the walk keeps to the notebook (`WalkInv`), and has
  collected just the pages of the parts and of the piece of a part it has passed
  (`PassedInv`); without the latter, `SelectsWhatItNames` at the end does not follow from
  the step before. From it `RangeSelectsWhatItNames`, `RangeKeepsOrder` and
  `RangeSelectsOnce`. `SentInv` for `DeliveryIsInOrder`: an upload is shown by one block at
  most and not before it is sent (`UploadsInv`), the number of blocks says where
  `deliver` is (`CountInv`), and the bytes of the file about to be attached have arrived
  (`ArrivedInv`). `FinishedInv` adds what a send that is over rests on: an accepted range
  selects a page (`SelectsSome`), an upload's bytes are sent once (`ContentInv`), and the
  files in delivery are those of the pages and range that were read, as many of them
  delivered as there are new blocks (`WholeInv`). From it `FilesAreToldApart` and
  `SuccessPutsAllThere`, whose statement is a recursive function over the new blocks: that
  it lists the pages selected is shown block by block with `TurnByTurn` (below).
* **SceneProofs.** `SceneInv` for `EachNodeIsDrawnOnce`: what `assemble` has seen is what
  it has drawn, but for the root, which is seen from the start and drawn with the
  orphans (`SeenIsDrawn`), and what is known and not seen is still to be looked
  at by the orphans' loop (`OrphansToCome`). No assumption is made of the blocks, so it
  holds for cycles and shared nodes of any size. `SkippedBlocksLeaveNothing` follows from
  each block parser by itself. `TreeInv`: children are nodes that were named, lines have
  the points of some block. `LinesKeepTheirPoints` follows from it and from what
  `PointSize` makes of a length. `LayerInv` for `NodesAreDrawnInTheirLayer`: a child of a
  node that was seen is seen, unless a frame of the walk is still to come to it
  (`ChildrenSeen`); the layers before the one at work are seen with all that is under
  them, and the frames on the stack are under the one at work (`LayersTaken`), so what
  this one draws is under no earlier one; when the orphans' turn comes nothing under a
  layer is left (`LayersDone`). `DrawnRight` is the property by the number of the layer.
* **TargetTreeProofs.** `SearchInv`: what stands before the cursor was found, is no page,
  or was edited and so moved there, and without an edit what was found is what
  `collectPages` makes of just that beginning of the list (`SearchingInv`). The property
  speaks of searches that are over and says nothing of a cursor. `AnswerAdds` is the step
  of one answer, of any size; `PicksOfParts` says that picking pages answer by answer is
  picking them from the whole list. `SearchesMissNothing` follows. `ArrangedInv` says that
  the rows are `Joined(Roots, Rows[MaxDepth])`; `PagesAreListedOnce` is a theorem about
  that expression: `SortSorts` (the ranks of `StableSort` are a permutation, by
  cardinalities), `KidsListed` (a page's children are listed once each), `JoinedList`
  (lists of disjoint sets, one after the other, list their union), and by the levels left,
  `WalksList`: the walk below a page lists just the pages it is above of. `OneDepth`: a
  page is at one level. `TreeCorrect` needs all of it for the type of the rows.
  `RowsNest` is by what a piece of the rows is. `IsTree`: a page and the rows under it;
  `IsForest`: such trees at one depth, in order. Which row a row stands under is a fact
  about positions, which shift at every level of the walk, so `Under` and `Siblings` speak
  of a row and those before it back to its parent, and `RowsInRows` carries them into a
  longer list. `TreeOfForest` puts a page before the forest of its children,
  `TreeBehindForest` a tree behind its elder siblings, `JoinedForest` does so for all of
  them, `WalksNest` for all levels. `KidsInOrder` says that the children come in order, by
  `SortedKeys` (a stable sort keeps equal keys in place). It needs `OrderAsked`, the
  inductive part: Notion was asked for the order below pages that were found, no others.
* **DeviceProofs.** `SendIsAsPressed` from `PressedInv`; `NothingIsSentToRemoved` from
  `RemovedInv`, which needs that the rows on screen are never of a removed account, or
  are about to be replaced; `DeviceTypeCorrect` takes the types of the screen, of the
  world and of the connections (`ScreenTyped`, `WorldTyped`, `ConnInv`) and `RemovedInv`,
  which has that a logout removes an account, and not None.

The assumptions of these are `BridgeAssumption`, `AccountsAssumption` and
`NothingAssumption` (None and NoName are no identifiers, names, workspaces or answers),
`StoreAssumption` and `DurableAssumption` (None and Torn are no lists, codes or times),
`OverlayAssumption` (None is no account), `RangeAssumption` (numbers are integers, Malformed
is no pair), `SendAssumption` (the shape of notebooks, ranges and requests),
`SceneAssumption`, and `TreeAssumption` (finitely many entries, each shared once; sizes
and limits are positive).

Loops. The library's induction theorems take a predicate as a parameter, which these
provers cannot instantiate, but its well-foundedness of the natural numbers takes a set.
`TurnByTurn` uses it: what holds before a loop's first turn and survives each turn holds
after its last, where the set is that of the turns at which it holds. `LoopRuns` uses that to
show that a recursive function over 0..n exists at all, so that its equation may be used.
The proofs about `KeptUpTo`, `PagesUpTo`, `ChildrenClaimingRoot`, `OnlyIn`, `Joined`, `Rows`
and `Ancestor` rest on these two.

Only model-checked:

* liveness, as `ENABLED` and fairness are out of this prover's reach:
  `ConnectedReachesPoller`, `OverlayMovesOn`, `CloseReturns`;
* `SceneTypeOK` as a whole: the types of `parent`, `visible` and `text` come from values
  several payloads deep, each of which may be cut off. What the proofs need of the other
  variables is in `TreeInv` and `StackInv`.

## 5. Plan

Done, in this order: MintLimiter, PairingContract and PairingBroker with their proofs;
AccountList, AccountStore, Bridge; DurableLimiter with its proofs, DurableStore; PageRange
and Send; TargetTree; Overlay, SocketServer and Device; RmFields and Scene; the proofs of
Bridge, Send, Scene and Device; then those of DurableStore with its contract, of
AccountStore with its list, of what a finished send has put there, of the layers of a
scene, and of the page picker, how its rows nest included. Every safety property of a
passing run has a theorem, under the hypotheses named in section 4.

Left, should the project go on:

1. `PairingSystem`: Device over PairingBroker itself in place of `pairing`, with the
   liveness of a pairing from the QR code to the stored account. Both halves are checked
   (`ConnectedReachesPoller`, `OverlayMovesOn`); their product is beyond TLC with the
   present bounds.

## 6. Not modelled

* The renderers (`render/`): floating-point geometry and the text of SVG and PDF. They
  keep no state and have no order of events; golden and round-trip tests cover them.
* In the `.rm` parser: the bytes of a varuint, a float or a string, the header line,
  colours, tools and coordinates. A field is there, cut off, or absent.
* In Notion's client: the JSON of requests and answers, the version header, titles.
* In the notebook reader: finding the documents, and the JSON of `.content` and
  `.metadata`. Reading them is a step that may fail.
* In the overlay: layout, styling, the search text, the page range field.
* Malformed requests to the socket, and the Node host's adaptation of requests: they are
  answered before any state is touched. HTML, page texts, headers, logging, the QR image.
* `recents.json`, which is only ever removed.
* Packaging scripts, the installer and workflows, which run once.

# Verification of clob-rust

TLA+ models of a client that follows a prediction market's order books over a
WebSocket and shows their top on a web page, the TLC runs that check the models
on small instances, and TLAPS proofs of the invariants that matter most.
Paths are relative to the repository: `src/src/session.rs` is the crate's
`session.rs`.

1. [The system](#the-system)
2. [Modules](#modules)
3. [What is checked](#what-is-checked)
4. [What is proved](#what-is-proved)
5. [Findings](#findings)
6. [Not modelled](#not-modelled)
7. [Plan](#plan)

## The system

One process, three binaries. `main` (live), `capture` and `replay` share the
library. In `main`, two tasks run on one single-threaded runtime: the session
and the HTTP server; they share a broadcast channel of top-of-book snapshots.

```
exchange <--socket--> SessionRunner --callbacks--> OrderbookObserver --broadcast(16)--> run_http_server <--TCP--> page
                        |  ^                          |
                 events v  | effects                  v  apply_snapshot / apply_price_change
                     SessionState                Orderbooks: BasicOrderbook | FastOrderbook | SkipOrderbook
```

| component | state | operations | called by | hard behaviours | what makes it correct |
|---|---|---|---|---|---|
| `fast_orderbook.rs` | per side: node pool, free list, doubly linked list in price order, map price -> node | `apply_snapshot`, `apply_price_change`, iterators | observer in `main` | hand-made index structure; bulk reclaim and refill; pool limit | list, map and free list agree at every step; the side is a map from price to size, read in price order |
| `basic_orderbook.rs` | per side: sorted `Vec`; `Orderbooks`: map asset -> book | the same (`OrderbookLike`) | tests (reference) | duplicate and zero-size levels | the same |
| `skip_orderbook.rs` | as fast, with four lanes in place of one list, and a generator of heights | the same | observer in `replay`, tests | positions carried from lane to lane; upper lanes across a reclaim | each lane is its nodes in price order; the same promise as the others |
| `state.rs` | phase, backoff attempt | `handle_event`: event -> effects | session | events in phases that have no arm for them | no event the runner sends is dropped |
| `session.rs` | the state machine, the socket, the shutdown future | `run`, `run_with_shutdown`, `dispatch` | `main`, `capture` | awaits in dispatch, loss, refusal and shutdown at any await, attempt counter never reset | callbacks in order; losses and shutdowns are resolved |
| `observer.rs` | books, broadcast sender | `on_json_message`, `handle_book`, `handle_price_change`, `build_top_snapshot` | session, `replay` | publishing decided from a level's place, message by message | what readers were last sent is what the books show |
| `main.rs` | `latest_snapshot`, receiver, listener | `run_http_server`, `shutdown_signal`, the page's script | runtime, browser | a receiver that is overrun, silent connections, overlapping polls | the newest snapshot comes to be served, every request answered |
| `bin/capture.rs` | a `BufWriter` over a file | `on_json_message` (value, then newline), `on_disconnected` (flush), drop | session | a run that ends in an error or is killed; writes refused by the disk, in part or whole | what can be read back is a prefix of what was received |
| `bin/replay.rs` | position in the file | one line at a time to the observer | - | torn and joined lines | messages reach the books in order, none twice |
| `config.rs`, `pin.rs`, `lib.rs` | none | parsing, one system call, re-exports | binaries | - | - |

The session calls the observer directly and synchronously, so within the
process only three things interleave: the session's task (at its awaits), the
server's task (at its awaits), and answers being written, each in a task of its
own. The exchange, the operator's signals and the browser interleave with all
of them.

Two places where the documents and the code part, neither about behaviour a
property could judge: `ARCHITECTURE.md` has `replay` use
`FastOrderbook`, the code uses `SkipOrderbook`; and it names a "resubscribe"
effect that `Effect` does not have (the subscription is sent by `run_inner`).

`PROJECT.json` lists the hazards at their lines. The worst of them: pointer
writes at the ends of the linked list; nodes leaked or freed twice by the bulk
reclaim; effects carried out one by one across awaits; a loss during shutdown
and a shutdown during a backoff; a publishing test that looks at one level
only; a receiver overrun by its channel while the server waits for a silent
connection; books that outlive the connection they came from; a file cut off
within a value.

## Modules

| module | models | state and actions |
|---|---|---|
| `LevelLists` | what the levels of a message do to a side | operators: `Overlay` (a list of levels laid over a book), `OverlayWithin` (over one that has room for so many more), `WithLevel` (one change) |
| `BookLevels` | price levels and `comes_before` | constants, with what is assumed of them; `Ranked` (what an iterator yields) |
| `BookSide` | the promise of `OrderbookLike` for one side | abstract specification: `book`, a function from price to size with at most `MaxLevels` prices; one step per call |
| `FastBookSide` | `FastBookSide<IS_BID>` | `nodes`, `free_head`, `head`, `tick_to_node` as in the code; `pc`, `cur`, `node`, `rest` are the local variables of `apply_levels` and `link`. One action per loop iteration; straight-line code is one action |
| `BasicBookSide` | `BookSide<IS_BID>` of the reference | `levels`, the sorted `Vec`; one action per call |
| `SkipBookSide` | `SkipBookSide<IS_BID>` | as `FastBookSide`, with lanes; `update`, `lane`, `cur` are the locals of `find_update`, `link` and `unlink`. One action per loop iteration; a node's height is any height |
| `FastDuplicates` | `FastBookSide` under book messages that quote a price twice | that module's state and actions; `Ghosts`, the nodes on the list that the map has forgotten |
| `SessionState` | `state.rs` | `HandleEvent(s, e)`: the new state and the effects, one `CASE` arm per match arm |
| `SessionRunner` | `run_inner`, `dispatch`, `shutdown_signal` | `pc` is the await the task is at (`send`: a heartbeat or a pong on its way); `todo` the effects `dispatch` still has to carry out, `back` where it returns to. One action per stretch between awaits or effects |
| `Observer` | message handling of `OrderbookObserver`, `Orderbooks` | `books`, `published`; `inbox`, `changes`, `looping`, `should_print` are the loops' locals. One action per message and per change |
| `Dashboard` | `run_http_server`, the broadcast channel, the page's polling | `sent`, `next` (channel and receiver), `latest`, `pc`, `backlog`, `conn`, `shown`. One action per await |
| `LiveSession` | `async_main`: the three above as instances, and the exchange | their variables, side by side; `log`, the published snapshots that `Dashboard`'s numbers stand for; of the exchange `xbook`, `link`, `snapped`, `wire` (the messages in flight). `Forward` hands the message that `dispatch` forwards to the observer, `Publish` puts what the observer publishes on the channel, or drops it when the server could not bind; `After` is what the messages in flight will make of a book |
| `Replay` | the lines of a file, and `run_replay` | operators: `LineOf` (a value written), `IsLine`, `Parses`, `Replayed` (where the lines that parse begin), `Values` (what they yield) |
| `Capture` | `CaptureObserver`, its `BufWriter` | `file`, `buf`; `todo`, what `on_json_message` has yet to write. One action per write |
| `MC...` | small instances of the module of that name | constants only |
| `...Proofs` | theorems about the module of that name; `SkipBookSideProofs` has those about `BasicBookSide` too | - |
| `BookLevelsProofs` | lemmas the others rest on: how one change moves the first levels of a ranked side; what is left of a message after its first level; counting (`LeastNat`, `UpTo`) | - |

How they meet: `FastBookSide`, `SkipBookSide` and `BasicBookSide` are each
shown to implement `BookSide`, and `Observer` uses books at exactly that level of abstraction
(the operators of `LevelLists` and `BookLevels`), so what holds of its books holds whichever
book is chosen. `SessionRunner` uses `HandleEvent` as the code does.
`Dashboard` sees of the observer only that snapshots are published;
`LiveSession` puts `SessionRunner`, `Observer` and `Dashboard` together, each of
its actions a conjunction of theirs, so nothing is modelled twice. The observer
is called from `dispatch` and returns before anything else of the program goes
on (`Idle`); the exchange and the operator do not wait. `Capture` takes the
observer's place in the same session: its environment is what `SessionRunner`
may do, calls in any number and an end of any kind.

Abstractions. Prices and sizes are integers: books compare prices, test sizes
for zero and sum sizes for display, nothing else. Text is told apart only as
`handle_event` does (heartbeat of either case, JSON, anything else). Messages
carry `parses` instead of their text: the code drops a message (or a change)
whose fields are missing or whose numbers do not parse. Snapshots on the
channel are numbered; `latest = 0` is `None`. Labels and asset ids of a
snapshot are the domain of a function, an absent spread or best price the empty
sequence. In a capture file a value is two pieces, enough to be torn.

Operators with a suffix (`Splice_OneWay`, `Lost_Silent`, ...) are bugs a
maintainer could make, one for each property; with such a bug in place TLC
refutes the property. No specification uses them. For `LiveSession` these are
the bugs of the modules it is made of, and one of its own.

## What is checked

| run | properties | what it shows |
|---|---|---|
| `fast_bids` | `TypeOK` `ListInv` `FreeListInv` `IterIsRanked` `CallsReturn` `ImplementsBookSide` | four prices and a pool of three nodes: between any two iterations the list is the mapped nodes in price order, the free list the others; calls return; and the side does what `BookSide` says, which includes that a level is dropped only when it is new and the side is full |
| `basic_bids` | `RankedByPrice` `BasicImplementsBookSide` | the reference keeps one level per price, best first; levels of size zero aside it implements the same `BookSide` |
| `basic_zero_sizes` | `YieldsReference` (refuted) | finding 3 |
| `skip_asks` | `LaneInv` `UpdateInv` `FreeListInv` `IterIsRanked` `CallsReturn` `ImplementsBookSide` | two lanes, any heights, the other order, four prices and three nodes: between any two iterations each lane is its nodes in price order and `find_update` has found the place in every lane it has left, so `unlink`'s guard never fails; nodes come back with another height; and the side does what `BookSide` says, at the limit too |
| `fast_duplicates` | `PoolPartition` `ListOrdered` `GhostsOnlyFromBooks` | asks, without `DistinctSnapshots`: a price quoted twice by a book message costs no node and no order, but its second level stays quoted, whatever price changes say, until the next book message |
| `session_release` | `TypeOK` `PhaseFits` `CallbackOrder` `StopsOnlyOnRequest` `NoEventLost` `BackoffGrows` `LossResolved` `ShutdownCompletes` | runner, state machine and observer agree through losses, reconnections and signals at every await; a loss is resolved, and a signal ends the run, unless an await on the exchange never completes; of an overlong shift both outcomes, the debug build's panic and the release build's wrap |
| `session_refused` | `LossRestored` (refuted) | finding 1 |
| `session_killed` | `SignalsHandled` (refuted) | finding 2 |
| `observer_top` | `TypeOK` `PublishedIsCurrent` `PublishedWhole` `SnapshotReplaces` | the publishing test misses no change of the visible top; what is published is all the books as they are, between two messages; a book message that counts leaves exactly its levels, sizes included, and nothing else makes or removes a book |
| `dashboard_live` | `SkippedOnlyIfOverwritten` `NoOlderAnswer` `SnapshotsServed` `RequestsAnswered` | the server, overrun by the channel and polled by overlapping connections, skips only what was overwritten, answers no poll with something older than the page had, serves the newest in the end and answers every request, unless it waits for ever for a connection that stays silent |
| `live` | `InSync` `EndToEnd` `NoMixture` `Converges` | the whole program across a loss, with an exchange that may also send changes before a book: what is in flight always turns the observer's book into the exchange's; a book is the old connection's until the new one's replaces it, unless a change came first; with nothing in flight the page is given the exchange's book; and it comes to that when losses cease |
| `capture_file` | `ReplayedInOrder` `LossBounded` `DisconnectionIsDurable` | whatever the disk refuses and whenever the process is killed, replay hands on messages in order and none twice; while the disk takes every write, a prefix, complete up to the last disconnection, or to the end when the run ends by itself |

### Bounds

- `FastBookSide`: four prices, sizes 0..2 and three nodes give every list of up
  to three nodes, so a node at the head, in the middle, at the tail and alone,
  and the pool at its limit, with a level that finds room only because another
  one left; six snapshots cover both link orders, insertion in the middle, a zero
  size, the empty one and one too many. The proofs lift the bound for everything
  but `CallsReturn`, here and for `SkipBookSide`. `NONE`, `u32::MAX` in the
  code, is 3: it enters comparisons with the number of nodes only.
- `SkipBookSide`: the same prices and nodes, sizes 0..1 (a size update touches no
  link), two lanes of four: no, one or several nodes in the upper lane, before,
  behind and between those that are only in the lower one. The loops over lanes
  have one body for all of them; with three lanes and two nodes the same
  properties hold, with three and three the instance is too large to keep.
- `BasicBookSide`: four prices, since its operations are not split into steps.
- Session: `ShiftBits` 4 for 64 and a cap of 4 s for 16 s, so that the delay
  reaches its cap before the attempt reaches the width, as in the code; six
  losses (`MaxAttempts`) go past both. One signal: a second one changes nothing
  the model has.
- Observer: `DISPLAY_DEPTH` 2 for 5 with three prices, so that levels move in
  and out of the visible top; two labelled assets and one without label;
  messages that do not parse, come before the first book, name no side, carry
  two changes, or come as arrays.
- Dashboard: a channel of 2 for 16 and 4 snapshots, so the receiver is overrun
  twice over; two connections, so polls overlap. `MaxPublished` also means that
  publishing pauses in the end: a receiver overrun for ever would report
  nothing but lags, and `SnapshotsServed` would not hold.
- `FastDuplicates`: three prices, a pool of four nodes and messages of two to
  five levels, side by side and apart, so that ghosts stand before, behind and
  between other nodes and the pool's limit is met with ghosts in it.
- `LiveSession`: one loss (`MaxAttempts`), two messages in flight (`MaxWire`), two
  changes or repeated books (`MaxUpdates`) beside the books a subscription
  brings, so that a change can be lost with a connection, happen between two,
  or overtake the book; one asset with a visible top of one level of two and a
  channel of one snapshot, so that changes stay below the top and snapshots are
  overwritten. Several assets are in
  `observer_top`, the page's connections in `dashboard_live`.
- `Capture`: five values of three pieces each, a buffer of four, which ends
  within a value at every place, and two refused writes, each after any part.

### Fairness

- `FastBookSide`, `SkipBookSide`: weak fairness of the loops. A call runs to
  its end; nobody has to make one.
- `SessionRunner`: weak fairness of what the task does by itself, callbacks and
  the sleep of the backoff; strong fairness of the shutdown branch, as `select!`
  polls its branches in random order and the socket may keep another branch
  ready. None of connecting, sending and closing (`AtExchange`): `connect_async`
  does the TCP, TLS and WebSocket handshakes with no timeout and a send waits
  for room, so an exchange that falls silent can keep the task in either. What
  then stays unresolved is a disjunct of the properties: `LossResolved` holds
  unless the task remains in `connect_async`, `ShutdownCompletes` unless it
  remains where it waits for the exchange. None of the operator.
- `Dashboard`: weak fairness of the server's straight-line steps; strong
  fairness of the two `select!` branches, for the same reason; weak fairness of
  writing answers, which succeeds or fails; and `accept` does not fail for lack
  of descriptors for ever. None of the page: a connection may stay silent for ever, and
  since the read has no timeout, the server then receives no snapshot and
  accepts no other connection. That is a disjunct of both liveness properties
  (`[]Silenced`): they say that it is the only thing which stops the server.
- `LiveSession`: the above for the session's and the server's steps, without
  shutdown, whose completion `ShutdownCompletes` has. Its exchange, unlike
  `SessionRunner`'s, is a responsive one, since `Converges` is about what a
  working feed leads to: it answers or refuses every attempt to connect, takes or
  fails every send, sends the books it is subscribed to, and a connection it has
  ended is seen to have ended. None of this is the code's doing, which has no
  timeout for any of it.
- Deadlock is checked except in the session, dashboard, live and capture runs,
  which end.

## What is proved

TLAPS proves, for all values of the constants, every invariant and every action
property that a passing run checks, and every refinement.

Assumptions. Those on constants are named in the modules that declare them:
prices and sizes are integers and a message's levels a sequence
(`BookLevelsAssumption`), the null index is a natural number
(`FastBookSideAssumption`, `SkipBookSideAssumption`), and so on. Two more are
stated with the theorems that need them. `DistinctSnapshots` and, for the
observer, `DistinctFrames`: no book message quotes a price twice. The code relies
on the feed for that; what it does otherwise is the subject of `FastDuplicates`.
And, for the reference book's refinement only, `IsFiniteSet(Price)`: `Decimal`s
are finitely many, so a side has a largest number of levels.

**`FastBookSideProofs`.** Any number of prices, any pool limit, both sides,
any sequence of calls. With `DistinctSnapshots`:

- `IInvHolds`: the inductive invariant
  `IInv == TypeOK /\ ListInv /\ FreeListInv /\ RestInv` holds always;
  `TypeOKHolds`, `ListInvHolds`, `FreeListInvHolds`, `RestInvHolds`: its parts.
- `PoolGrowsOnlyWhenFullHolds`: the pool grows only when all its nodes hold
  quoted levels; so nothing leaks.
- `IterIsRankedHolds`: between calls the iterator yields the quoted levels, best
  first.
- `ImplementsBookSideHolds`: every step is one of `BookSide`'s or changes no
  `Book`.

No part of `IInv` is inductive alone. `link` writes into the node it got from
`alloc_node`: that this node is not on the list is `FreeListInv`. That a freed
node is not still linked is `ListInv`. That a level being entered is not on the
map already, without which `link` would orphan a node, is `RestInv`. The heart
of `ListInv` is stated without induction along the list: each linked node's
`next` is its immediate successor *in price order among the linked nodes*, and
`prev` inverts `next`; a splice or an unlink changes this for two neighbours
only. The free list is an enumeration of the free nodes; pushing and popping
extend and cut it (`FreePush`, `FreePop`). While nodes are being reclaimed, the
linked nodes are those from the cursor on; while `link` walks, those but the
one being placed. One lemma per action (`ReclaimKeeps`, `FillInsertKeeps`,
`LinkBeforeKeeps`, ...), collected in `NextKeeps`.

For the iterator, `Yields` says that some enumeration of the list from `head`
has the levels of `Ranked`: the enumeration is by position, and the node in each
position leads to the one in the next because it leads to the next price.
For the refinement, an insertion and a snapshot take effect at their first step
(`Book` has the levels in `rest` laid over those on the map), and the room that
`alloc_node` finds, pool limit or free list, is the room `BookSide` counts.

Without `DistinctSnapshots`, whatever the feed sends:

- `ChainInvHolds`: the inductive invariant `ChainInv`. Some chain `at[1..n]` of
  distinct nodes starts at `head`, is doubly linked and in price order, equal
  prices allowed; all other nodes are free or the one being placed; every node
  the map finds is on it.
- `PoolPartitionHolds`, `ListOrderedHolds`, `GhostsOnlyFromBooksHolds`.

Here a node's neighbours no longer follow from prices, so the chain is there as
a witness: a splice inserts a position in it, an unlink or a reclaim takes one
out. What a walk reaches (`Reached`) is then the chain (`ListIsChain`): a walk
that ends elsewhere would leave it at a first place.

**`SkipBookSideProofs`**, with `DistinctSnapshots`. The same, and any number of
lanes, any heights.

- `InvHolds`: the inductive invariant `IInv`, i.e. `TypeOK`, `Control` (which
  node `link` or `unlink` is at, and that it is on the map or not yet),
  `LaneInv`, `UpdateInv`, `FreeListInv` and `RestInv`.
- `LaneInvHolds`, `UpdateInvHolds`, `FreeListInvHolds`, `IterIsRankedHolds`,
  `ImplementsBookSideHolds`.

A lane is the set of nodes that belong in it, and each one's pointer leads to
the first of that set behind it (`First`). `find_update` is right in a lane when
it stands at the last node before the place (`Last`). The lemmas on `First` and
`Last` are about a set, an order and nothing else, and are used once per lane: an
insertion or removal in a set changes the pointer of the last node before the
place only (`SplicedIn`, `CutOut`). What makes it possible to go down is that a lower
lane has all nodes of the upper one, so that the last node before the place is there too and
not behind it.

**`SkipBookSideProofs`** also has the theorems about the reference book, with
`DistinctSnapshots`.

- `BasicInvHolds`: `levels` are a sequence of levels, best first, no price twice.
- `RankedByPriceHolds`, `BasicImplementsBookSideHolds`.

`sort_by` is defined by choice: a level's position is the number of levels
before it, and a sequence with distinct prices has one ascending arrangement
only.

**`SessionRunnerProofs`**, from `SessionRunnerAssumption`. Any cap, any width,
any number of losses, with and without shutdown.

- `InvHolds`: the inductive invariant `Inv`, i.e. `TypeOK` and `InStep`.
  `PhaseFits` speaks of the places between calls of `dispatch`; `InStep` adds
  what is true within one: which effects are left, with them where `dispatch`
  returns to, the phase, and what the observer was told last.
- `TypeOKHolds`, `PhaseFitsHolds`, `CallbackOrderHolds`,
  `StopsOnlyOnRequestHolds`, `NoEventLostHolds`.
- `BackoffGrowsHolds`: from the invariant that the delay in force is the one
  computed for the attempt before. Powers of two are counted (`2^n` is the
  number of subsets of `1..n`), which gives that they grow without induction.

**`DashboardProofs`**, from `DashboardAssumption`. Any capacity of the channel
from 1 up, any number of connections and of snapshots.

- `DInvHolds`: the inductive invariant
  `DInv == TypeOK /\ SkippedOnlyIfOverwritten /\ NothingNewer /\ NoOlderAnswer`.
- `TypeOKHolds`, `SkippedOnlyIfOverwrittenHolds`, `NoOlderAnswerHolds`.

`NoOlderAnswer` needs `NothingNewer`: what the page shows, and every reply, was
served at some time and so is no newer than `latest_snapshot`, which never goes
back because the receiver's next snapshot is newer than it, lagging or not.

**`ObserverProofs`**, from `ObserverAssumption` and, but for `PublishedWhole`,
`DistinctFrames` (so that a snapshot's list and the book it makes
have the same levels). Any assets and labels, any frames, any `DISPLAY_DEPTH`
from 1 up.

- `OInvHolds`: the inductive invariant `OInv`: `TypeOK`, the frame under way is
  a frame the feed may send, and every book has finitely many levels.
- `TypeOKHolds`: from `OInv`.
- `SnapshotReplacesHolds`: from `OInv` and `BookMessageLaid`: laid over an empty
  side, a message that quotes no price twice leaves its levels with their sizes
  (`Held`, `Levels`). A book message that counts is next, so no step but
  `HandleBook` can be (`DueIsHandled`); and only `HandleBook` and `ApplyChange`
  touch a book, the latter one that is there.
- `PublishedIsCurrentHolds`: from `PInv`, which adds that `should_print` is set
  only within the loop.
- `PublishedWholeHolds`: the two actions that publish build the snapshot from the
  books as they leave them, and changes are pending within the loop only.

The point of it is `TestIsEnough`: when the changed level is in the visible top
neither before nor after the change, the visible top has not changed, though
`handle_price_change` compares no other level. `BookLevelsProofs` has the
argument. A level's place among the ranked ones is the number of levels before
it (`At`, `Ahead`), whatever `Ranked` does to sort them. A level outside the
first `n` places has at least `n` before it, so setting or removing it leaves
the number of levels before any of the first `n` as it was
(`FirstPositionsKept`). Cumulative sizes follow from the visible levels, best
prices and spread from the first one on each side, which is visible because
`DISPLAY_DEPTH` is not 0.

**`CaptureProofs`**, from `CaptureAssumption`. Any capacity of the buffer, any
number of messages and of refused writes.

- `ReplayedInOrderHolds`: from `OrderInv`, which orders the pieces: whatever the
  disk has dropped, what is written, then what is still to be written, are
  pieces in ascending order of message, then place within it, and
  the lines of such a file that parse are in order too.
- `LossBoundedHolds`, `DisconnectionIsDurableHolds`: from `LinesInv`. While no
  write was refused, file, buffer and what is still to be written are together
  the lines of the messages received, three pieces each; what the file has is a
  prefix of that, and which of its lines are whole follows by counting.

**`LiveSessionProofs`**, from `LiveAssumption`. The whole program: any number of
assets, any books and changes, any number of losses, updates and messages in
flight, any depth of the visible top, any capacity of the channel.

- `InSyncHolds`, `NoMixtureHolds`, `EndToEndHolds`: from the inductive invariant
  `LiveInv == Typed /\ Synced /\ Announced /\ Channelled`.
- `SessionIsARunner`, `ObserverIsAnObserver`, `ServerIsADashboard`: a run of the
  program is, for the variables of each part, a run of that part's module, so
  what is proved there of every run is true here. (`LiveSession` makes it so for
  the steps it takes over as they are; what has to be shown is that the observer
  is only ever handed messages that `Observer` allows, and that handing them
  over, or holding the session up meanwhile, is nothing else to either.)

`Synced` is `InSync` itself together with: no book was sent on a connection that
is not subscribed. What keeps it is that every step of the observer carries out
the first message in flight, or the first change of it (`FirstArrival`,
`FirstChange`), and leaves what all of them make as it was (`ObserverKeepsPace`),
while every step of the exchange does to its book what the message it appends will
do (`LastArrival`). The run of messages is a recursive function, about which
nothing can be proved by the library's induction; that there is such a run, and
only one, is shown by way of the least number at which it would fail to be
(`LeastNat`), and from there on it is taken one message at a time. `SetToSeq`
puts the levels of a book message in some order; laid over an empty book they
make the exchange's in any order (`LevelsOfSide`). `Typed` has the invariants of
`Observer`, among them that what is published is current (`PInv`), and what kinds
of messages there are.

`NoMixture` needs `Announced`: of an asset that awaits its book and has no early
change, every change in flight is behind a book; `Preceded` is what a message
taken from the front, or appended, leaves true. `EndToEnd` needs `Channelled`:
the snapshot last put on the channel is what the observer published last,
`latest` the last one before the receiver's place. With nothing left to take,
the page is given what was published; with nothing in flight, the observer's
book is the exchange's (`InSync`); and what is published is current.

**Only model-checked.** Liveness (`CallsReturn`, `LossResolved`,
`ShutdownCompletes`, `SnapshotsServed`, `RequestsAnswered`, `Converges`): it rests on
fairness and on when actions are enabled, which the prover does not handle. And
`Replay`'s reading of a file is proved for the files that `Capture` writes, not
compared with an independent parser.

## Findings

1. `session_refused`. `ARCHITECTURE.md:70` says the session owns the
   "reconnection loop, and backoff". After a loss, `connect_async(..).await?`
   (`session.rs:79`) returns the error of the first refused attempt: one
   refusal after a loss ends the run.
2. `session_killed`. `main.rs:34` says "Handle SIGTERM on Unix (e.g. Docker
   stop)". The signal handlers are installed when `shutdown_signal` is first
   polled, in the select loop (`session.rs:99`): a SIGTERM while the first
   connection is being made kills the process.
3. `basic_zero_sizes`. `ARCHITECTURE.md:116` calls `BasicOrderbook` "the
   correctness reference in tests". `from_levels` keeps a snapshot's levels of
   size zero and yields them, even as best; the other books skip them.

Beside these, what the code does and a reader may not expect: the attempt counter is
never reset by a successful connection, so the 65th loss of a run panics in a
debug build and waits one second in a release build; a failed send ends the run
without `on_disconnected`; `connect_async` and the sends have no timeout, so an
exchange that accepts a connection and then says nothing holds the session there,
and a SIGTERM meanwhile, once the handlers are in place, has no effect at all
(`session.rs:79`); a change that precedes the book on a new connection
is applied to the old connection's book, since the check for a missing book
(`observer.rs:197`) sees one there (`NoMixture` makes an exception for it, and
`InSync` shows that the book, when it comes, makes up for it); the page says
"Feed: live" (`main.rs:542`) whether or not there is a connection, above the
books of the last one; and when the newline after a captured value cannot be
written, the error is logged and the next value, though written without an
error, is lost to replay with the line they share (`capture.rs:55`).

## Not modelled

- `random_height`'s generator: a node's height is any height.
- `config.rs`, `pin.rs`, `lib.rs`, arguments: no state. Everything they produce
  is a constant of the models.
- `format_books_text` and the page's layout: computed from what `AssetBook`
  holds, with no state of their own.
- Decimal parsing and rounding: `parses` stands for whether it succeeds.
- A level of a book message that breaks the contract otherwise than by quoting
  a price twice: negative sizes and prices are numbers like others to the code.
- Of the capture file: power loss (what `write` was given counts as on disk;
  there is no `fsync`), a file that `File::create` truncates when a capture is
  restarted with the same output, and a file cut off within a character, which
  makes `read_to_string` refuse the whole file. Messages are ASCII.
- Connections to the exchange that fall silent once subscribed without being
  closed: no code looks for them. (One that falls silent while the task connects
  or sends is modelled.)
- Time: delays are counted, not waited for, and the sleep just ends.
- An `accept` that fails with the connection left waiting (no descriptors): it
  changes nothing, so `AcceptError` has it as a step that leaves all as it is.

## Plan

Done, in this order: `BookLevels`, `BookSide`, `FastBookSide` and its proofs;
`SessionState`, `SessionRunner` and its proofs; `Observer`; `Dashboard` and its
proofs; `BasicBookSide`; `SkipBookSide`; `LiveSession`; `Replay` and `Capture`;
`FastDuplicates`; the proofs of `Observer`, `BasicBookSide`, `SkipBookSide` and
`Capture`, the refinements, the proofs about `FastDuplicates`, and those about
`LiveSession`. Left:

1. `LiveSession` takes its books at the level of `BookSide`. That the program
   with `FastBookSide` in that place implements it follows on paper from
   `ImplementsBookSideHolds`, call by call; a module with both would say so.
2. The refinements of the three books assume, as the feed promises, that no book
   message quotes a price twice; a specification of what the fast book does
   promise without it (`FastDuplicates` has its invariants) would be weaker than
   `BookSide`.
3. The invariants of the parts that only the parts' own `Spec` is proved to have
   (`PhaseFits`, `CallbackOrder`, ...) could be restated of `LiveSession` from
   `SessionIsARunner`.

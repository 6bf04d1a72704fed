# vxmon in TLA+

Specifications, model-checking runs and machine-checked proofs about `vxmon`, a terminal
monitor for Linux network namespaces, bridges, VRFs and VXLANs. The program has no tests.
Its hard part is `internal/store`: a single event loop that is fed by netlink subscriptions,
timers, tickers and the user interface, and that keeps an in-memory copy of the kernel's
tables with metadata that makes rows fade when they change. The user interface
(`internal/app`) reads that copy under several locks, and keeps cursors, windows and
highlights of its own over rows that come and go.

Paths below are relative to the repository's root; modules and configurations are in this
directory. `PROJECT.json` maps every definition that models code to its lines.

## Inventory

| component | state | operations | interacts with | hard behaviour | modelled |
|---|---|---|---|---|---|
| event loop, reload scheduler (`store/event_loop.go`, `store.go`, `messages.go`) | `eventCh` (1024), `reloadState.ns` (dirty, dueAt, pending, refreshedAt), running timers | one handler per `storeEventKind`, `enqueueEvent`, `collectNamespaceReloadLocked`, `applyDueNamespaceReloadLocked` | listener and UI queue events; sends messages to the UI; calls sync, reload, Advance | full queue, late and disordered stamps, timers that outlive their entry, lock released for the dumps, failing syncs and dumps | `EventLoop`; its messages in `Screen` |
| records (`store/reconcile.go`, `fade.go`, `keys.go`) | `topology[ns]` rows and five `*Meta` maps | `reconcile`, `Advance`, pruning | event loop calls it; UI reads it | two maps edited separately, stamps going backwards, a key that returns during its fade | `Records` |
| reload (`store/reload.go`, `netlink_snapshot.go`) | none of its own | `ReloadAll`, `collect*`, `apply*` | event loop; netlink | a failed dump applied as an empty one, a handle that is not there | `EventLoop`, `Records`, `Namespaces`, `Rates` (parsing not) |
| netlink listener (`store/netlink_listener.go`) | `subs`, one goroutine per subscription | `resync`, `startNamespaceSubscription` | reads the inventory, queues events | works on a copy of the inventory; goroutines that end and stay in `subs`; partly failed subscriptions | `Listener`, its promise in `Feed`, and as environment of `EventLoop` |
| namespaces (`store/namespaces.go`) | `namespaceState` with netlink handles, `namespaces` list | `discoverNamespaces`, `syncNamespaces`, `pruneNamespaceCaches` | event loop calls it, listener and views read it | handles closed once, reuse or reopen, paths that change before they are opened, mounts that hide one another | `Namespaces`; the effect of a sync on rows in `Records` and `Screen` |
| reference maps (`store/references.go`) | four maps, a hold time per interface | `rebuildReferenceMaps`, `buildCompactHold` | event loop; top view | a hold that ends without an event | `Screen` (which rows make a reference not) |
| processes (`store/runtime_snapshot.go`, `process_history.go`) | `processPrev`, `prevTotalCPU` | `reloadProcesses`, `updateProcessHistory` | FetchLatest | a pid used again, first sample of a process, readings that fail, two clocks read apart | `Rates` (reading /proc not) |
| link rates (`types/LinkHistory.go`) | ring of samples | `Push`, `AverageBps` | `parseInterfaceRaw` | ring indices, minimum interval, window, counters that start again | `Rates` |
| UI model (`app/model.go`, `selection_memory.go`, `keys.go`) | cursors, filters, viewports, modes, fade clock, tick flag | one case of `Update` per message | requests fetches; reads the store | one chain of ticks, cursors over changing rows, several locks per frame, what happens behind the help | `Panes` (keys), `Screen` (messages) |
| views, table (`app/*_view.go`, `ui/table.go`) | none | which rows are shown, `fitColumnWidths` | UI model | ranges of rows in a window, width arithmetic | `Panes`, `Screen`, `Layout` (text not) |
| colours, entry point, debug log, helpers, types | flags, a file | I/O, formatting | all | none | left out |

What makes each correct:

- *event loop*: no update is lost that is not recorded as lost; reloads are throttled and
  not starved; entries and timers stay consistent; the store converges once the kernel is
  quiet.
- *records*: rows and metadata agree; what is shown as present is the last dump; highlights
  tell what happened and end; removed rows stay visible for their fade.
- *listener*: no change of a namespace is missed while its subscription is intact, which is
  what the store relies on; every known namespace comes to have a live subscription.
- *namespaces*: every open descriptor has one owner, and leads to its owner's namespace
  unless the path it was opened by did not; attempts that failed come right.
- *references and UI messages*: a screen that differs from the store in what a fingerprint
  covers is about to be told; one tick chain while something fades, none afterwards.
- *UI keys*: selection and cursor stay in their windows whatever the lists become.
- *processes, link rates*: what is shown is traffic, or CPU time, that there was.
- *table layout*: widths fit when they can, and what is cut is the right thing.

The hazards this code is exposed to are listed in `PROJECT.json`, each with the property
that covers it or the reason why none does.

## Modules

### Records — rows, metadata, fading

One kind of record (interfaces, neighbours, FDB entries or routes: the code is the same).
`rows` is `topology[ns].<kind>`, `meta` is `recordState.<kind>Meta`, `known` the namespaces
of the inventory. `last` and `since` are history variables: the last dump applied for a key,
and the time since its state changed.

An action is one handled event, in the form `Update(nss, work, dump, lag)`: the inventory
becomes `nss` and everything of other namespaces is pruned, the dumps of the namespaces in
`work` are reconciled, Advance runs. `FetchLatest`, `NamespaceSync`, `ReloadDue` (netlink
events), `ScheduledReload` and `FadeTick` say which of these a handler does. The loop
goroutine is the only writer, so a handler is one step here; that readers may see the
inventory between the pruning and the dumps, when the lock is free, is covered by the same
invariants, since pruning alone is the step `NamespaceSync`.

Time: ages and stamps are relative to the clock. A handler works with the stamp `at` of its
event, `lag` behind the clock, so stamps of successive handlers may go backwards. Row
contents are abstract values with a fingerprint; two values may share one, as two states of
an interface do for `linkFingerprint`.

Properties: `RowsMetaAgree`, `LiveRowsAreLastDump` (invariants), `HighlightFollowsDumps`,
`RemovedRowStays` (steps), `HighlightsEnd` (liveness).

### EventLoop — events, scheduling, dumps, inventory, subscriptions

`queue` is `eventCh`, `entry` is `reloadState.ns`, `timers` the running `AfterFunc`s, `busy`
the handler whose dumps are running (what it has collected per namespace and kind). `known`
is the inventory, `found` what a discovery would return, `subscribed` and `targets` are the
listener's `subs` and its copy of the inventory, `notify` holds netlink messages not yet
received, `current` the pairs of namespace and kind whose rows are what the kernel would
answer. `lost` is history.

A handler is split where the lock is released: the part before the dumps (`HandleReload`,
`HandleFadeTick`, `HandleScheduledReload`, `HandleFetchLatest`, and their variants with a
failing sync), a start and an end of every dump (`StartDump`, `FinishDump`, `CollectFails`),
and `ApplyDumps`. FetchLatest keeps the lock during its dumps and applies each at once;
nobody else writes and the result at the end is the same, so it shares these steps.
`KernelChange` may come between any two of them and makes rows, and dumps begun or done, out
of date. A dump takes several requests (a list of links first), hence its two steps.

The listener's `Resync`, `Subscribe` and `Receive` run in goroutines of their own and act on
the inventory as it was read. Which message the loop sends to the user interface is in
`Screen`.

Time: `due` is dueAt minus the clock, `refreshed` the clock minus refreshedAt, `lag` the
clock minus a stamp. A zero dueAt is `NotDue`, a zero refreshedAt, or one so old that it can
throttle nothing any more, is `Never`. A missing entry and a zero one behave alike. The
nanosecond that the timer's stamp adds to dueAt is below the clock's unit.

Properties:

- `EntriesConsistent`: an entry is dirty exactly while it waits with a due time, and never
  while its own dumps run.
- `NoLostUpdate`: a row of a subscribed namespace that is out of date is covered by a
  message, an event, a waiting reload or a dump not overtaken. Four things may break this,
  and `lost` names the pairs: an event dropped by a full queue, a dump that failed, a change
  that a subscription did not hear because a stream of it has ended, and a namespace that a
  sync brings back before the listener has noticed that it had gone (its old subscription
  makes the listener skip it, and `applyNamespaceSync` schedules nothing).
- `ReloadsAreThrottled`, `ReloadsAreNotPostponed`: the throttle holds by the stamps, though
  these may go backwards, and a burst never puts a waiting reload off.
- `WaitingReloadsHappen`, `StoreConverges`: liveness, below.

### Listener — subscriptions

`subs` is the map of ListenNetlink, here from namespaces to slots, the identities of done
channels; `slot` holds the subscriptions, `todo` the new targets a resync has not set up
yet, `setup` the one it is setting up. `inventory` gives each known namespace its mount
point and `at` the namespace a path really leads to, which may be another one by now.
`unseen` names the changes of which no event has told the store; the event loop's part, from
the event on, is `EventLoop`, which has this listener in two steps (`Resync`, `Subscribe`).

A subscription opens its streams one by one (`Begin`, `OpenStream`) and may fail at each
(`BeginFails`, `OpenStreamFails`). `Start` starts the goroutine, enters it in `subs` and
sends the message that asks for a first reload; the three touch nothing another goroutine
reads in between other than through the event queue. `Resync` up to the list of new targets
is one step for the same reason. The goroutine forwards (`Forward`) and returns (`End`); a
select with several ready cases takes any. The library's streams end when told
(`StreamStops`) or by themselves (`StreamBreaks`).

Properties:

- `InOneHand`: a subscription in use is in `subs` under its own namespace, being set up, or
  told to end; hence no done channel is closed twice, which would panic.
- `NoGap`: while a subscription is intact, a change made at any time, also between the
  opening of its streams, is known to the store or has a message on its way.
- `NamespacesAreHeard`, `SubscriptionsEnd`: liveness, below.
- `EveryDiscoveredNamespaceIsHeard`: what the comment at the top of the file says, which
  does not hold. A goroutine whose stream ended returns and stays in `subs`, so that the
  next resyncs skip its namespace; only the fetch every 5 s still updates it. In `EventLoop`
  such changes are in `lost`, and `StoreConverges` holds with them.

### Feed — what the store is promised by the listener

The abstract specification of the listener, as `EventLoop` relies on it: a set of watched
namespaces, the changes the store has not been told of, and the messages on their way. A
change in a watched namespace leaves a message in the same step, and a namespace is read as
a whole when it begins to be watched; subscriptions, streams, paths and goroutines are gone.

`Listener` defines what the store sees of it (`Heard`, `unseen`, the messages pending in the
streams of intact subscriptions) as `FeedView == INSTANCE Feed WITH ...`, and
`ImplementsFeed` states that this is a behaviour of `Feed`. It would fail if a subscription
were counted on before all its streams are open, or its first reload asked for too early.

### Namespaces — discovery, and the life of handles

`inventory` is `namespaceState`, `listed` the copies in the list the views show, `next` the
states of a running sync and `todo` its items still to come. `opened` is the kernel's side:
the open descriptors and the namespace each leads to.

`mounts` is what the table of mounts says of each, and `at` where opening each path leads.
The two may disagree: `discoverNamespaces` takes a mount's namespace from its line in
mountinfo, which it does not open, and of several mounts on a path, or below another mount,
only the last is seen. Other processes change both at any time (`Remount`, `Retarget`), also
between the discovery (`BeginSync`) and the opening of an item. `astray` (history) names the
items whose path does not lead to them, from the discovery on or since, and `strayed` the
namespaces that were opened while they were.

The sync is split item by item, as `reuseNamespaceState` and `openNamespaceState` do it:
`Keep` a state, `Retry` one without a handle, `Open` a new one after closing what it
replaces; `FinishSync` closes the rest, prunes, and runs what is due. `newNamespaceHandle`
is `Opened`, with every call of it that may fail, for lack of permission, of descriptors, or
otherwise (`Failed`).

Properties:

- `DescriptorsHaveOneOwner`: what is open is held by exactly one state that is in use, so
  that nothing leaks and nothing is closed twice or used after it was closed.
- `HandlesLeadHome`: a handle leads to the namespace it is filed under, unless that was
  opened by a path that did not. As the code checks no inode after opening, it leaves two
  windows: a path that changes between discovery and opening, and a mount that is hidden,
  for which no path has to change. A handle that leads elsewhere is kept for as long as the
  namespace is found under the same path.
- `ErrorsAreShown`: the copies in the list follow the states, which are updated in place.
- `HandlesOpenInTheEnd`: liveness, below.
- `NamespacesWithoutPermissionAreLeftOut`: what the README's limited permissions suggest,
  which does not hold. FetchLatest skips a namespace without a handle, but a scheduled
  reload marks every namespace that is new, and when that is due its links are asked for
  through a nil handle (`store/event_loop.go:262`).

### Rates — link rings and process samples

One number, an interface index or a pid, and what counts under it: `meter` is what the
kernel answers, `sent` what was counted in all, at each clock unit (history). The number may
be used again (`Vanish`, `Appear`) by something that starts from zero or has been counted
elsewhere. `ReloadLink` is what `parseInterfaceRaw` does with the ring, with late stamps,
over rows that fade and still lend their ring. A scan of `/proc` reads the process
(`ScanProcess`) or misses it; the namespaces are synced with what it found, and only then is
`/proc/stat` read (`ReadProcess`, with `ReloadProcess` for `updateProcessHistory`). Up to
`MaxSkew` passes in between, a different time in each scan; the process may count, vanish or
be replaced meanwhile, the sync may fail (`SyncFails`), and so may the reading. `Pushed` and
`Average` are `LinkSampleRing.Push` and `AverageBps`. A counter is taken modulo `Modulus`.

Properties:

- `RingIsHistory`: the ring, walked backwards, is the last samples that were a minimum
  interval apart, told from everything pushed.
- `NoTrafficIsMadeUp`: a rate is of traffic that there was in a span within the window,
  though counters start again, samples are overwritten and stamps come late. The exception
  is a number that something counted elsewhere took over: its ring is inherited.
- `SpacedSamplesGiveARate`: two samples an interval apart and within the window give a rate.
- `LoadIsPossible`: a process never shows more CPU time than it had since the scan before,
  out of a time that is what passed between the two scans, give or take `MaxSkew`; unless
  that scan missed it or it came from elsewhere: its first sample is compared with zero. The
  allowance is what the code leaves open: when the second `/proc/stat` follows its scan more
  closely than the first did, the load shown may be more than the time that passed.

### Panes — keys, cursors and windows

`m` is the fields of `app.Model` that keys change. An action is a key, click, resize or
message: what the case of `Update` does, then the end of the handler, where the bottom
window follows its cursor, then the way it draws (`refreshTopAndBottom`, `refreshBottomOnly`
or nothing). A refresh reads whatever lists the store has by then, any of `Lists` and
`RowCounts`. What the top pane shows is kept as numbers (`topRows`: how many rows, which is
selected, how many children follow, which of them a filter picks).

Properties:

- `SelectionIsVisible`: the selected row, and the child a filter picks, are in the top
  window.
- `LayoutIsCurrent`: the panes are laid out for the size the terminal has, or the help hides
  them and closing it will do it.
- `BottomModeIsRemembered`: a top mode comes back with the bottom mode last chosen under it.
- `BottomKeysShowCursor`: a key that moves the bottom cursor leaves it in the window,
  wherever refreshes and resizes, which do not look at that window, had left it.

### Screen — messages, refreshes and highlights

Composes three parts: the store (`row`, `held`, `summary`) as the event loop's handlers
change it, with the message each of them ends in (`loop`, `bumped`); the Model (`ui`) as it
takes messages, timers and keys; and time. A handler that dumps gives the lock up in the
middle (`Prepare`, `Complete`), and a refresh takes its locks one after the other
(`Reading`, `FinishRefresh`), so that the store may change within both. `held` is the
compact hold of `references.go`; `marks` are the Model's own highlights in the top pane,
`ticks` the animation ticks on their way.

A row has contents with a fingerprint, and `items` and `rows` are the contents as the Model
read them. `reconcile` replaces contents under an equal fingerprint and reports no change
(`store/reconcile.go:52`), as with the state, address and rates of a link; so `Bumped`
compares rows without them. The list of namespaces, and what it counts, is reported by
nobody either: `ui.outdated` says that it has changed since it was read.

Properties:

- `OneTickChain`: a tick is on its way exactly while `fadeTickActive` is set, and never two.
- `NothingIsMissed`: the interfaces listed in the top pane and the rows of the bottom pane
  are those the store has, and agree with it in all that a fingerprint covers, or a message
  is still to come, or the help hides them and closing it will read them again. Two things
  are left out because the code does not promise them: contents outside the fingerprint, and
  an interface that was held when it was read. (When Advance deletes a faded row and the
  refresh comes within the hold, no event follows the end of the hold, and the interface
  stays listed until the next change or key.)
- `ScreenSettles`: liveness, below.

### Layout — column widths

`fitColumnWidths`, one step a turn of its loops: `Trim` towards the average of the cells,
the most uneven column first, then `Shrink` towards the minimum, the longest first. The
tables are small sets of columns, given by the width of their cells.

Properties: `Fitted` (natural widths if they fit; else the pane exactly filled with no
column below its minimum if the minimums fit; else as little overflow as one character a
column leaves), `OutliersGoFirst` (no column is cut below its average while another still
has more than its own).

## Runs

| run | instance | size | question |
|---|---|---|---|
| `records` (MCRecords) | 2 namespaces with a key each, 3 contents of which 2 share a fingerprint, FadeDuration 2, MaxLag 1 | 4 093 states | the properties of Records, under fairness |
| `event_loop` (MCEventLoop) | 1 namespace that comes and goes, 2 kinds of dump, aggregation 1, throttle 2, queue of 2, MaxLag 1 | 3.3 million states, 2 min | safety of EventLoop |
| `event_loop_live` (MCEventLoopLive) | the same with 1 kind | 201 372 states, 1 min | liveness of EventLoop |
| `listener` (MCListener) | the program's namespace and another, a path that leads to either or nowhere, 2 streams, 2 slots | 928 122 states, 2 min | safety of Listener, and that it implements Feed |
| `listener_live` (MCListenerLive) | the same with 1 stream | 62 208 states, 40 s | liveness of Listener |
| `listener_claim` (MCListenerClaim) | as `listener_live` | counterexample | the comment at `store/netlink_listener.go:15`, violated |
| `namespaces` (MCNamespaces) | the namespaces of process 1 and of vxmon and a third, two mounts on one path, of the third and of process 1's, and a process in the third; 6 descriptors, all may be entered | 419 491 states, 2 min | safety and liveness of Namespaces |
| `namespaces_claim` (MCNamespacesClaim) | the same, all may be entered or none | counterexample | the README's limited permissions, violated |
| `rates` (MCRates) | a ring of 3, interval 2, window 4, counters modulo 8, MaxLag 1, MaxSkew 1, 6 clock units, 2 lives, a stranger with a count of 2 | 9.3 million states, 2.5 min | the properties of Rates |
| `panes` (MCPanes) | heights 0 and 11, top panes of 30 and 50 percent (50 at first), an empty list and lists whose first or second item has children, 0 or 3 bottom rows | 583 808 states, 2 min | the properties of Panes |
| `screen` (MCScreen) | 1 interface, 3 contents of which 2 share a fingerprint, a fade of 1, refreshes due after 1, 3 changes | 237 241 states, 80 s | safety and liveness of Screen |
| `layout` (MCLayout) | all tables of 1 to 3 columns of 9 kinds, 10 widths of the pane | 44 570 states, 5 s | the properties of Layout |

Why these bounds are enough to be of interest.

*records.* Two keys in two namespaces let a dump of one namespace be wrong about the other;
a fade of two units and a lag of one let a stamp fall on each side of the end of a fade.

*event_loop.* A queue of two fills up, so that events are dropped; a throttle longer than
the aggregation makes both branches of the due time happen, on either side of a fetch; one
unit of lag makes stamps go backwards and a timer late. Namespaces do not interact in the
event loop other than by filling the queue and sharing a handler, and two of them are too
many states for TLC: the proofs cover any number. The aggregation is at most the throttle,
as 50 ms and 200 ms are.

*listener.* Two slots are one fewer than there may be subscriptions (two, and one that is
told to end): then a new one waits for a slot, which no property depends on, and while the
other namespace has none, both incarnations of a namespace's subscription do exist at once.
Two of the three streams already give a stream opened before a change and one opened after
it.

*namespaces.* The third namespace comes and goes and is found under a mount or a process;
the second mount hides the first behind the namespace of process 1, which exercises both
windows of `HandlesLeadHome`. Six descriptors are what three states hold: none is ever
lacking, and calls fail by choice.

*rates.* Six units go round a ring of three with an interval of two, leave the window, and
have room for three scans with a delay of one each or none; a modulus of eight is as far as
a stranger's count can get. Rates are kept as an amount and a time, without the division.

*panes.* Of ten rows under the status line the top pane gets three or five, hence one or
three rows inside its frame, and the lists have up to five rows, so that children fit in one
and not in the other; a bottom pane of two to four rows is shorter and longer than three.
Height 0 is what the Model starts with.

*screen.* One interface is enough for every pair of steps that disturb each other, as the
code treats all alike and a message tells only that something changed (the proofs are for
any number). Three changes are a row that comes, goes and returns, that changes twice, or
that goes while the screen is read. A fade is as long as a hold; a longer one is in
`records`.

*layout.* The kinds are columns with even cells, with one long, with empty ones, with none,
and with the minimum and the maximum that the panes' tables use; the widths are from no
limit over less than one character a column to more than enough.

Bounds in the models themselves: `MaxLag`, how far behind an event is handled, a timer fires
or a handler ends (the loop keeps up: `Tick` waits for it); at most one fade tick, one fetch
and one namespace sync are queued at a time (they come from tickers of 100 ms, 5 s and 5 s);
two timers of one namespace with the same due time are one; `MaxSkew`, `MaxClock` and
`MaxLives` in Rates, `MaxChanges` in Screen; one reading per clock unit in Rates.

Deadlock is checked except where a run ends: the program ends after the nil handle of
`namespaces_claim`, the clock of `rates` has an end, and so have the loops of `layout`.

### Fairness

*EventLoop.* The loop goroutine takes an event whenever there is one and no handler runs,
and its dumps end, with a result or an error: weak fairness on handlers, dumps and
`ApplyDumps`. The Go runtime fires timers and tickers: weak fairness on `TimerFires` and
`FadeTicker`. Time passes: strong fairness on `Tick`, which has to wait while the loop is
momentarily behind. Nothing is assumed of the listener, and `WaitingReloadsHappen` needs no
fetch. `StoreConverges` states its own premises: the kernel becomes quiet, dumps stop
failing, syncs that would find something new stop failing, and not every one of the user
interface's endless requests for a fetch finds the queue full.

*Listener.* The ticker asks for resyncs and the netlink library's calls return (weak
fairness on `Resync` and `Setup`), Go's select, which chooses at random, does not pass a
ready case over for ever (strong fairness on `Stop` and `End`), and a stream whose done
channel is closed ends. `NamespacesAreHeard` has as premises that no stream breaks, that no
path comes to lead to another namespace before the inventory knows, and that attempts stop
failing: the first two are what the code does not recover from.

*Namespaces.* A sync is asked for again and again (FetchLatest, every
`RuntimeRefreshInterval`, that is 5 s, and the listener's ticker) and a handler that has
begun goes on: weak fairness on `Sync`, `Step` and `FinishSync`. `HandlesOpenInTheEnd` has
as premises that paths stay, that calls stop failing (`calm`), and that the program still
runs.

*Screen.* The event loop goes on, the fade ticker never stops, time passes and a refresh
ends: weak fairness on `Complete`, `FetchLatest`, `FadeTick`, `Pass` and `FinishRefresh`.
Messages, timers and keys reach the Model through one channel whose senders wait in line, so
that none is overtaken for ever, though keys may come in between: strong fairness on
`Updated`, `PeriodicUpdated`, `AnimTick` and `ClockTick`. Nothing is assumed of keys.
Without the periodic fetch `ScreenSettles` would fail: a highlight that a key press lists
starts no tick, and nothing announces a change of the namespaces' list.

*Layout.* Weak fairness on its single loop.

Every property of a passing run has a mutant: an altered definition, next to the original in
its module and marked "Mutated form", that a plausible bug would give and for which the run
finds the property violated.

## Proofs

Proved with TLAPS, for every value of the constants that satisfies the named assumptions of
the modules (TLC evaluates them in every run):

| module | assumptions | theorem | states |
|---|---|---|---|
| `RecordsProofs` | `KeysAssumption`, `ValuesAssumption`, `FingerprintAssumption`, `FadeAssumption`, `LagAssumption` | `RecordTypes` | `Spec => []TypeOK` |
| | | `RowsAndMetaAgree` | `Spec => [](TypeOK /\ RowsMetaAgree)` |
| | | `DisplayIsLastDump` | `Spec => []LiveRowsAreLastDump` |
| | | `HighlightsFollowDumps` | `Spec => HighlightFollowsDumps` |
| | | `RemovedRowsStay` | `Spec => RemovedRowStays` |
| `EventLoopProofs` | `KindsAssumption`, `TimeAssumption`, `QueueAssumption` | `SchedulerTypes` | `Spec => []TypeOK` |
| | | `EntriesStayConsistent` | `Spec => [](TypeOK /\ EntriesConsistent)` |
| | | `UpdatesAreNotLost` | `Spec => []NoLostUpdate` |
| | | `Throttling` | `Spec => ReloadsAreThrottled` |
| | | `NoPostponing` | `Spec => ReloadsAreNotPostponed` |
| `ListenerProofs` | `SelfAssumption`, `StreamsAssumption`, `NoneAssumption` | `ListenerTypes` | `Spec => []TypeOK` |
| | | `SubscriptionsAreInOneHand` | `Spec => [](TypeOK /\ InOneHand)` |
| | | `NoChangeIsMissed` | `Spec => []NoGap` |
| | | `ListenerImplementsFeed` | `Spec => ImplementsFeed` |
| `NamespacesProofs` | `IdsAssumption`, `FilesAssumption`, `PathsAssumption` | `NamespaceTypes` | `Spec => []TypeOK` |
| | | `NoDescriptorLeaks` | `Spec => []DescriptorsHaveOneOwner` |
| | | `OnlyStrayPathsMislead` | `Spec => []HandlesLeadHome` |
| | | `ErrorsReachTheViews` | `Spec => []ErrorsAreShown` |
| `RatesProofs` | `RatesAssumption` | `RateTypes` | `Spec => []TypeOK` |
| | | `RatesAreOfRealTraffic` | `Spec => []NoTrafficIsMadeUp` |
| | | `LoadsAreOfRealTime` | `Spec => []LoadIsPossible` |
| | | `RingKeepsHistory` | `Spec => []RingIsHistory` |
| | | `SpacedSamplesShow` | `Spec => []SpacedSamplesGiveARate` |
| `PanesProofs` | `PercentAssumption`, `BoundsAssumption` | `PaneTypes` | `Spec => []TypeOK` |
| | | `SelectionStaysVisible` | `Spec => []SelectionIsVisible` |
| | | `LayoutStaysCurrent` | `Spec => []LayoutIsCurrent` |
| | | `BottomModeStaysRemembered` | `Spec => []BottomModeIsRemembered` |
| | | `BottomKeysFollow` | `Spec => BottomKeysShowCursor` |
| `ScreenProofs` | `ScreenAssumption` | `ScreenTypes` | `Spec => []TypeOK` |
| | | `TicksComeInOneChain` | `Spec => []OneTickChain` |
| | | `NoChangeStaysUnseen` | `Spec => []NothingIsMissed` |
| `LayoutProofs` | `ColumnsAssumption` | `TablesFit` | `Spec => []Fitted` |
| | | `AveragesAreSpared` | `Spec => []OutliersGoFirst` |

*Records.* The inductive invariant is `TypeOK`, `RowsMetaAgree` and `LiveRowsAreLastDump`
with `AgeBound`: the age of a mark exceeds the time since it was set by at most the lag of
the event that set it. Without it the last disjunct of `RemovedRowStays` (a removed row may
go once `FadeDuration - MaxLag` has passed) does not follow. Since the code edits every key
alike, the proof first shows what one `Update` does to one key (reconcile, then Advance),
and every action is an instance of it.

*EventLoop.* The inductive invariant adds two parts. `ThrottleInv`: a waiting reload is due
no earlier than a throttle interval after the last one, and the same still holds of the
entry's stamp and the handler's while its dumps run; this carries the throttle from the
moment of scheduling over the take-up to the stamp that `ApplyDumps` writes. `StaleInv`: a
dump overtaken by a change is of rows that were made out of date by that change, so that
applying it loses nothing that a message or event does not cover; without it `NoLostUpdate`
is not inductive over `ApplyDumps`. `EntryInv` is the part about one entry; lemmas say how
collecting an event, taking an entry up and passing time preserve it, `ScheduleOK` what the
scheduling half of any handler does, and each action has a lemma that it preserves the
invariant and puts no waiting reload off.

*Listener.* `InOneHand` is inductive with `SetupInv`: what is still to be set up has no
subscription yet, and each namespace is to be set up once; otherwise `Start` could overwrite
an entry of `subs` and leave its subscription in no hand. `NoGap` follows step by step.
Steps of goroutines, streams and the kernel share one lemma (`SameHands`), the two ways to
close done channels another (`Leave`).

*Feed.* The invariant of Listener maps every step to a step of Feed or a stutter. One lemma
per step of Feed says what has to change for it (`ChangeIs`, `TellIs`, `ReadIs`, `WatchIs`,
`UnwatchIs`); then `Start` watches, a stream that ends and a resync that closes
subscriptions unwatch, a message that is forwarded tells if its subscription is intact and
reads otherwise, and what happens to subscriptions that are being set up, or told to end,
stutters: nobody relies on them yet, or any more.

*Namespaces.* The three properties are inductive together with what the sync knows of its
items (`ItemsOK`: they are what was discovered, and their paths lead to them or they are
astray) and with `Truthful`: a state has an error exactly if it has no handle. The states in
use are those of the sync and those of the inventory that it has not come to. What
`newNamespaceHandle` returns, whichever calls fail, is one lemma (`Gives`): either nothing
and no descriptor more, or one or two new ones. The last mount and the first process that
lead to a namespace exist by well-founded induction, whose library theorem for least
elements takes no operator.

*Rates.* At the centre is `Bounds(bytes, at)`: unless something from elsewhere took the
number over since, the meter exceeds a sample by at most what was counted after it was
taken. It holds of every sample in use, also after the meter started again from zero, of
the process's sample if the last scan took it, and of the ticks a scan under way has read
(`ScanOK`), which are kept until `/proc/stat` is read. `TotalOK` puts the total between the
scan it belongs to and `MaxSkew` later; the difference of two such is what passed, up to
`MaxSkew` on either side. The ring's slots in use are the first ones or
all of them, and going back `i` slots stays among them: the modular arithmetic is in lemmas
of its own, as the SMT solver has to be told quotients. `Shown`, a rate as it was when it
was worked out, carries `NoTrafficIsMadeUp` over later steps.

The ring and the history of everything pushed are related by `RingInv`. `RingIsHistory` says
where each kept sample is; it is not inductive, since it does not say that the other way
round each slot in use holds a kept sample, nor what the ring of a row that is gone holds,
from which the next row would start. `Remembers(r, p)` is both directions for any ring and
any history, so that one lemma about `Pushed` (`PushRemembers`) serves every step: a sample
too soon replaces the newest in ring and history alike (`KeptMoves`), any other moves all
kept ones one further back (`KeptGrows`, `PushShifts`), and going back more than `Depth`
finds none of them. `Ordered` turns stamps that run forwards from one sample to the next
into an order of any two, which is what `SpacedSamplesGiveARate` needs of the loop in
`AverageBps`: it stops at the first sample outside the window.

*Panes.* `RefreshIs`: a refresh from any well-typed model, whatever its cursors, puts the
top window where the selection is and lays it out for the height. So a key has only to hand
over a well-typed model whose modes are those chosen (`Modes`), and a key that does not draw
the top pane has to leave alone what that depends on. The bottom window needs no invariant:
the end of the handler moves it to the cursor from wherever it was.

*Screen.* `TypeOK`, `OneTickChain` and `NothingIsMissed` are inductive together. A handler
ends with a message whenever a row came or went or a fingerprint or highlight changed, and
keeps the change in mind over a lock given up; a row whose print differs from the one before
has such a change, and one that has none prints as before; what a refresh reads is the store
at that moment, so it has only to be shown that a change between its two reads is announced.
Only a tick that is handled ends the chain.

*Layout.* A sum over columns is the function of the number of columns added so far, as the
code's loops add them. What the proof needs of sums (`SumChanges`: cutting one column by an
amount cuts the sum by it; `SumGrows`: no column larger, no sum larger) follows by induction
on that number; the library's induction takes an operator, so `Upwards` states it for a set
of numbers. A step never takes more than the overflow (`CutIs`), so a table is too wide
until it fits exactly. While trimming, no column is below its target, and those already
looked at with uneven cells are at it (`TrimOK`); so when the pass ends either the table
fits with every column at its target or more, or all uneven columns are down to it, and
shrinking, which only makes columns narrower, cannot break `OutliersGoFirst` any more
(`ShrinkOK`). When the second pass ends with an overflow left, every column is at its
minimum; the minimums then do not fit. The orders of the passes do not matter to either
property, only that each turn takes a column of those that are left (`TurnsAreOfTheRest`),
which needs the order to have a first one.

Only model-checked: the liveness properties (`HighlightsEnd`, `WaitingReloadsHappen`,
`StoreConverges`, `NamespacesAreHeard`, `SubscriptionsEnd`, `HandlesOpenInTheEnd`,
`ScreenSettles`), as liveness under fairness is out of the prover's reach. Every invariant
and every property of steps that a passing run checks is proved.

## Not modelled

Parsing of netlink and /proc data, sort orders, formatting and colours, the debug log, the
entry point: pure functions or I/O. Which rows make a reference (unicast neighbours, next
hops, ports of FDB entries) and the comparison of whole reference maps; `Screen` has any row
refer to its interface. Goroutines and sockets the netlink library leaves behind after a
failed subscription. Several record kinds at once: they share no state but the namespaces'
pruning. Characters wider than a column in `Layout`. The identity of rows behind cursors,
which are indices in the code: that another row is selected after a list has changed is what
it means to do.

Some behaviours of the code that the models show or leave room for, and that no property
calls wrong:

- Changes are reloaded up to every 200 ms, but a sample less than 1 s after the newest
  replaces it. A link whose namespace changes more than once a second for longer than the
  window has no older sample left in it, and a rate of zero.
- `processPrev` keeps the samples of processes that are gone until their namespace goes, and
  a process that enters another namespace is compared with zero.
- An interface that takes over the index of one that fades inherits its ring.
- A refresh after a key may light highlights without starting ticks, so that they stand
  still until the next message of the store, at most 5 s later; the fade clock does not move
  either while no tick runs.
- The text of a link that its fingerprint leaves out (state, address, rates) changes without
  a message: what is shown is as old as the last refresh, which the namespace view has every
  5 s and the other only with other changes, keys and highlights.
- A namespace whose mount is hidden by another is opened by a path that leads elsewhere, and
  the rows of the other are shown under its name.
- A load may exceed what one CPU can do in the time between two scans, by the difference of
  the delays between the walk of `/proc` and the reading of `/proc/stat`.
- A sync that finds a namespace of which nothing can be read changes the list without a
  message: it shows at the next refresh.
- The bottom window is not adjusted when rows go or the pane shrinks, only at the next key.
- `parseRouteList` (`store/netlink_snapshot.go:306`) reads the mask of a route's destination
  also where it is nil.

## Plan

Done, in this order, each with its run and, where the prover reaches, its proofs: `Records`,
`EventLoop`, `Listener`, `Namespaces`, `Rates`, `Panes`, `Screen`, `Layout`, and `Feed` with
the refinement that connects the listener to it.

Left, should the models grow:

1. `EventLoop` with the listener replaced by `Feed`, which would leave room for two
   namespaces in its run.
2. An abstract store (rows that are current, or announced as pending) refined by `EventLoop`
   and read by `Screen`, so that the two share one specification instead of each having a
   small version of the other.
3. Which rows make references, if the top pane's list is ever to be checked against the
   kernel's tables.

# hrdx in TLA+

hrdx is a terminal multiplexer for coding agents: a terminal interface (TUI) with workspaces,
tabs and split panes, whose programs live in a separate *session holder* process so that they
outlive the interface. This directory holds TLA+ modules of the parts of hrdx where several
goroutines or processes have to agree, TLC configurations that check them on small instances,
and proofs, checked by TLAPS, of the invariants that matter most for every value of the constants.

`PROJECT.json` lists components, runs, mutants, findings, hazards and theorems, and maps every
definition to the lines of source it models.

    tlc -workers 2 -config MCHolder.cfg MCHolder     # one run
    tlapm HolderProofs.tla                           # one proof module

## The system

Paths are relative to `src/`.

| component | source | state it keeps | operations | who it talks to |
|---|---|---|---|---|
| session holder | `internal/holder/server.go`, `ring.go`, `protocol.go` | sessions (PTY, process, running, detached buffer), current client, subscriptions | start, attach, resize, kill, fg, list, shutdown; one pump goroutine per session | clients, over a unix socket; programs, over PTYs |
| holder client | `internal/holder/client.go` | pending calls, output sinks, exit handler | call, readLoop, ConnectOrSpawn, Spawn | holder; update loop (exit messages); panes (Feed) |
| holder management | `internal/holder/manage.go`, `cmd/hrdx/stop.go` | the list shown to the user | list, confirm, list again, shut down | holder |
| pane | `internal/term/pane.go` | emulator, `updates` channel, exited, input queue, scroll offset, selection, keyboard modes | Feed, reader, Write, TryWrite, MarkExited, Close, Detach | holder client or PTY; update loop |
| terminal emulator | `internal/vt` | screen, cursor, modes | Write | pane |
| update loop | `internal/ui/model.go` and the rest of `internal/ui` | spaces, tabs, panes, focus, attention, settings | one message at a time | everything, by commands run in goroutines and messages |
| layout, persistence | `internal/ui/split.go`, `persist.go`, `internal/state` | split tree; state file | split, close, move; snapshot, restore; save, load | update loop |
| plugin runtime | `internal/plugin/runtime.go`, `watch.go` | status and generation of each plugin, its process and pending calls | start, stop, restart, reload, activate, call, revoke | plugin processes, update loop |
| control socket | `internal/api` | subscribers, waits | dispatch, subscribe, waitForState | update loop, by request and reply channels |
| durable agents | `internal/ui/continuous*.go`, `internal/continuous` | bindings of panes to remote conversations, pool of connections, managed host processes | prepare, poll, apply, retry, attach; get, drop; start, stop | zot hosts, panes, control socket |
| self update | `internal/update` | binary on disk | check, download, replace | - |

### What is hard, and what makes each part correct

* **Holder.** A client subscribes while the pump forwards output; connections come and go; a
  write to a client that has gone is found out late; calls time out and are answered anyway.
  Correct when output reaches the screen in order and without a hole, what is buffered is only
  given up for a client or for newer output, and an exit is told, after the last output.
* **The socket.** Launches, stops and ending holders all remove or create one file. Correct when a
  holder has one terminal at a time, a running holder with sessions can be found, and a stop kills
  what the user saw.
* **Pane lifecycle.** Starting a pane takes several requests in a goroutine; the pane may be closed,
  its program may end, hrdx may quit or die meanwhile; saved session ids outlive the holder they
  belong to. Correct when no session is lost or shown in the wrong place, and none that is shown is
  killed.
* **Input.** The writer and `FlushInput` sleep on one condition variable. Correct when nothing
  queued is left, reordered or counted wrong, and the bound on automation input holds.
* **Redraw.** Output leaves one token in a channel of capacity one, which is also closed to announce
  the end. Correct when the last output is drawn and no send meets a closed channel.
* **Plugins.** One process per plugin, started and stopped by the user, the socket, reloads, a file that
  changes on disk, and itself, while the interface follows through a queue that drops. Correct when there is never a
  second process, a revoked approval takes the process down, what a plugin put on the screen goes with it,
  and quitting does not hang.
* **Control socket.** A request waits for the update loop with a time-out, and the loop answers it anyway. Correct
  when an answer never goes to the wrong question, a slow subscriber costs nobody else an event, and the finish of
  an agent is noticed once it stays idle.
* **Durable agents.** A binding is prepared in several remote steps that fail, time out after having been carried
  out, and are retried; polls come back late. Correct when independent agents stay apart, a view shows the
  conversation its pane is bound to, and a late observation never undoes a newer one.
* **Managed host.** Several processes of hrdx meet at a lock, a pid file and a mark; commands share one connection that
  they dial without the lock. Correct when no connection is lost, a stop on purpose holds, and polls come back after a loss.
* **Layout.** Trees, lists, selections, menus and the state file change in every operation. Correct
  when they stay in step, a launch shows what was saved, and a menu only acts on what it was opened for.
* **Emulator and view.** Cells of wide glyphs, saved cursors, two screens, a bounded scrollback that the user looks at.
  Correct when the cursor stays inside, glyphs stay whole, the window stays on its lines, and a full-screen program
  leaves the shell's screen and keyboard alone.

## The modules

| module | models | abstract specification |
|---|---|---|
| `Holder` | the serve loop, pumps, sockets, and clients | `OutputStream`, by `HolderRefinement` and `HolderProofs` |
| `HolderSocket` | who listens at the path: launches, stops, holder processes | |
| `PaneLifecycle` | panes of a TUI and their sessions over launches, quits, crashes | |
| `InputQueue` | the input queue of a pane | |
| `ScreenUpdates` | output on its way to the screen | |
| `Pane` | both together, over one `MarkExited` | `InputQueue` and `ScreenUpdates`, by `PaneProofs` |
| `PluginRuntime` | the process of a plugin, its registration, its approval file, its watcher, its requests | |
| `PluginHost` | the interface beside it: events, what plugins contribute, commands, quitting | |
| `ControlSocket` | connections, requests, waits, subscribers, the busy state and the finish of agents | |
| `DurableAgents` | panes bound to remote conversations | |
| `HostPool` | the shared connection to a host | |
| `ManagedHost` | starting, stopping, finding and polling a managed host, over the pool | `HostPool`, by `ManagedHostProofs` |
| `SplitTree` | the layout tree as an algorithm: edits, saved form, geometry | |
| `Workspaces` | workspaces, tabs, panes, menus and the state file, over the tree | |
| `Emulator` | what each sequence makes of a terminal, as functions of it | |
| `PaneView` | the emulator, the keyboard modes, the scrolled window and the selection of a pane | |
| `HolderProofs`, `HolderSocketProofs`, `PluginProofs`, `ControlSocketProofs`, `DurableAgentsProofs` | theorems about one module each | |
| `PaneProofs`, `ManagedHostProofs` | theorems about a module and the one composed over it: `InputQueue` and `Pane`, `Emulator` and `PaneView`, `HostPool` and `ManagedHost` | |
| `PaneLifecycleProofs` | theorems about `PaneLifecycle` and, apart from it, `Workspaces` with `SplitTree` | |
| `MC...` | instances for TLC | |

They meet at narrow places. `PaneLifecycle` reduces the holder to its table of sessions and relies on
`Holder` for what attach, kill and exit events do; `Holder` relies on `HolderSocket` for how a
connection comes about; `ScreenUpdates` starts where `Client.readLoop` calls `Feed`; `InputQueue` ends
where its writer calls `Client.Write`. `Workspaces` takes a pane for its place in the layout and
`PaneLifecycle` for its session: both save in the step of the handler. `ControlSocket` keeps only which panes there
are and whether an agent works in them. `DurableAgents` takes a command over a connection as a step that works or
fails, and `ManagedHost` says what may happen underneath. `PaneView` begins where `Feed` hands bytes to the emulator,
with its lock held; `ScreenUpdates` is about who holds the lock when.

### Holder

Variables carry the names of the fields of `Server`, `session` and `Client` (`sessions`,
`running`, `ring` for `buffer`, `client`, `attached`; `sink` for `outputs`). `pc` is where the serve
loop is in one request: reading the request and acting on it is one step where the code holds its
locks throughout, `AttachReadsRunning` is a step of its own because `running` is read after both
locks are released, and so is `ServeReplies`. `pump[s]` is where the goroutine of session s is:
between `PumpRead` and `PumpForward` it holds a chunk and no lock. Chunk n is the number n.

*Abstractions.* A chunk is what one `pt.Read` returns, and the buffer holds `RingCapacity` chunks
instead of one megabyte. A socket write is done at once or fails because the peer has closed; a write
that blocks on a full socket is not modelled (see Hazards). `TIn` frames change nothing here.
`ProcessExits`, the end of a program, is the only action with no code.

`OutputStream` says what a holder is for, without requests, locks or sockets: a stream has at most
one viewer; without one its newest chunks are kept; a viewer that opens is given what was kept and
then everything; a viewer that leaves loses a suffix of what was on its way. The mapping takes as
*view* the screen of a client followed by what is on the wire for it, unless its sink is gone.

### HolderSocket

`path` is the holder process whose socket file the path names, running or dead. `pc[p]` is the line a
launch (`connectOrSpawn`, `Spawn`) or a stop (`stopHolder`) is at. A handshake or a request and its
answer are one step, possible when the holder serves p; the deadline that every wait has makes it
fail at any time. `Old` holders speak another protocol. Only one of the two socket locations that
`socket_paths.go` knows is modelled, and a second launch of the same TUI is a new `Begin`.
`CloseListener` and `RunReturns` are apart because closing the listener and the deferred `os.Remove`
are two steps that each unlink by name. A holder that was told to stop goes back to `Accept` and may take a connection that waited
before another goroutine closes its listener; it serves it like any other, and ends when that connection does.

### PaneLifecycle

`cmd[p]` is the command of `startHolderPane`: list, start, attach, one step per request, each in the
command's goroutine. Each may fail, also after the holder has carried it out (a call waits ten seconds): a session whose start was
not answered, or whose attach failed, stays in the holder, and no pane knows it. `abandoned` is the history of those. `PaneStarted`, `PaneFailed` and `StartedTooLate` handle its message. `exits` and
`kills` are sets, since exit events and kill requests run in goroutines of their own and may
arrive in any order. `saved` is the state file, as far as session ids go; every handler that
persists writes it in its own step. A launch kills what no saved pane refers to, unless it cannot list the sessions. At `Quit` any part of the kills under way has been written
before the connection closes; at `Dies` too, and nothing is saved. `HolderRestarts` stands
for a crash, a reboot or `hrdx stop` between two launches.

*Left out:* layout, tabs, durable panes, panes without holder (`--persist=false`), retries.

### InputQueue

What runs between `Lock` and `Unlock` or `Wait` is one step. `waiters` is the queue of the condition
variable; a goroutine that was woken is at `"enter"` and looks again. `Offers` and `Push` are apart
because `Write` reads `exited` under another lock before it queues. `accepted` and `written` are
history. Chunks have lengths, so that the bound and the counter mean something.

### ScreenUpdates

`updates` is the channel: empty, with a token, closed, closed with a token. `Feed` is the critical
section, `Notify` the send after it. `MarkExited` is two steps, setting `exited` and closing the channel,
in the feeder of a local pane and in the update loop of a holder pane. `kind` chooses between
the two at the start.

### Pane

`Pane` composes `InputQueue` and `ScreenUpdates`: they share `exited`, and `MarkExited` goes through all its
three steps, the flag, the channel (`Shut`) and the queue (`Closing`), in whichever goroutine calls it.
`ended`, of the input's side, follows the child and the mark of the screen's side (`Seen`). The update loop does one
thing at a time: it does not draw or close in the middle of a `Write` (`LoopWrites`) nor of a `MarkExited`
of its own (`LoopMarks`), and types only into a pane that is in the layout (`Typing`).

### PluginRuntime and PluginHost

`session[g]` is the g-th process of the plugin (`session` in `runtime.go`), with the stage its loop `run` is in;
`last` is `r.sessions[id]`, `entry` and `status` are the registration and the status. Each section under `r.mu` is one
action; `Restart`, `Reload` and `Activate` are goroutines (`client`) that leave the lock between stopping, reading the
session, waiting and starting. `file` and `package` are on disk: `hrdx plugins` and the settings window change them
at any moment; an approval is given, disabled, enabled again and revoked. `WatchTick` compares a copy and `WatchRevoke` acts on it later. In `PluginHost` `uiPc` is "apply" between the
authorization of a request and what it does, `contrib` says which generation each text, view, pane and subscription on
the screen belongs to, and events are dropped when the queue is full.

*Left out:* frames and their limits, several plugins (they share only the queue), the content of views.

### ControlSocket

`pc[c]` is where the goroutine of a connection is: reading, handing its request to the update loop (`Take`), awaiting the reply,
sleeping in `pane.wait`, or writing events to a subscriber. Between `Take` and `Handle` the time of the request runs;
`reply[c]` is the channel with room for one answer that is made anew for each round trip. `busy` is what a screen shows,
`wasBusy`, `soundSeq` and `confirms` are what the update loop keeps about it; `unseen` is history. `DeadlinePasses`
may happen at any time.

*Left out:* what queries return; the methods of plugins and durable panes, which are in their modules.

### DurableAgents

`commands` are the goroutines of `prepareDurable` with the calls they have made, `pane[p]` the pane with its binding
and view, `saved` the state file. The host is external: `OpensRoot` gives a workspace key its conversation, at most
once. Any call may fail before or after it took effect. A quit or a crash restores from `saved`, also on another store
that knows none of the conversations. Polls carry what they read (`snap`) and are applied later.

*Left out:* menus of conversations, messages, answers and files: commands to the host whose result only changes what a poll reads.

### HostPool and ManagedHost

`get[c]` is the line of `Pool.Get` a command is at, with the connection it saw and the one it dialled; the lock is not
held in between. `cmd[c]` is the command above it: probing, spawning, recording the pid, waiting, or stopping by pid.
`Shells` are `hrdx continuous start` and `stop`, whose connections are not the pool's. The zot host is external:
it takes the writer lock or ends at once. `ManagedHost` EXTENDS `HostPool` and uses its actions; every other step
leaves its variables alone.

### SplitTree and Workspaces

`SplitTree` has the operations of `split.go`. A tree is the list of its nodes in the order of `walk`, a split before its
two children; since every split has two, the list determines the tree, and where the tree of a node ends (`End`) is found by
counting leaves and splits. So `removeAt` takes a leaf and its split out of the list, and the sibling, however large, is in the right
place. A tree as nested records would need recursive operators, which cannot be reasoned about here. `FallbackLayout` and
`LayoutNode` are the one list, and the one function, that the code's loop and recursion come to. In `Workspaces` a handler of the update
loop is one step, with the removal of panes, workspaces and menus it entails and its `persist`. `menu` is a menu that stays open while
the socket, plugins and exits go on; `fresh` a workspace of the command line not yet in the file; `Relaunch` restores `file`, also
in the middle of a drag. A drag of a workspace or a divider is its press, any number of motions that change the layout and save nothing (`Moving`), and
the release that saves. A menu that opens meanwhile takes the motions and the release; the drag then goes on, or a new press replaces it. The split
that a divider belongs to may be of any tab by then. `moved` is history: a motion has changed what no save has seen. A menu of a tab is told by
the tab's workspace, and what its "close" does depends on the workspace that is current when it runs (`TabClosed`).

*Left out:* zoom, names, folds, the width of the sidebar. Focus by direction selects some pane of the tab.

### Emulator and PaneView

`Emulator` maps a terminal (cells, cursor, saved cursor, region, modes, tab stops, both screens, history) to the
next. Cells only tell blank, narrow and the two halves of a wide glyph apart. `PaneView` feeds it one whole sequence
per step, with the second parser of `pane.go` that reads the keyboard protocol from the same bytes, and interleaves
the user: scrolling, selecting, resizing.

The properties stand at the end of `PaneView`, beside the operators they are about, because `PaneProofs` proves them; `MCPaneView`
adds the screens a run starts from.

*Left out:* colours, titles, tables, operating system commands, answers; sequences cut by a read.

## The runs

| run | configuration | bounds | states |
|---|---|---|---|
| `holder` | `MCHolder.cfg` | 2 connections, 1 session, 3 chunks, buffer of 2, 2 requests per connection | 1 252 491 |
| `holder_exit` | `MCHolderLive.cfg` | 2 connections, 1 session, 1 chunk, start, kill, query and attach, 2 requests per connection | 573 889 |
| `holder_socket` | `MCHolderSocket.cfg` | 1 launch, 1 stop, 3 holders (one old), 1 crash | 236 222 |
| `panes` | `MCPaneLifecycle.cfg` | a kept and a floating pane in two directories, 2 launches, 2 sessions, 1 new holder | 158 099 |
| `pane` | `MCPane.cfg` | both kinds of pane, 3 chunks of input of length 1 or 2, bound 2, 1 flushing goroutine, 2 pieces of output | 235 842 |
| `plugins` | `MCPlugin.cfg` | 2 revisions of the package, 1 command at a time, 1 request, 2 processes, queue of 1, 1 change on disk, every kind of contribution, quota 1 | 265 830 |
| `api` | `MCControlSocket.cfg` | 1 connection with 2 requests of 9 methods, 2 panes, 1 close by the user | 71 744 |
| `finish` | `MCControlSocketFinish.cfg` | 2 agents, 2 turns, 2 subscribers with a queue of 1, 1 close | 188 528 |
| `durable` | `MCDurableAgents.cfg` | 2 panes, 2 keys, 2 conversations, 1 turn | 1 274 930 |
| `hosts` | `MCManagedHost.cfg` | 1 goroutine, 1 process and the poll, 3 connections, 2 host processes, 2 commands, 1 fault | 682 342 |
| `layout` | `MCWorkspaces.cfg` | 3 panes, 2 workspaces, 2 tabs each, one ratio besides one half, drags among at most 2 panes, 48 by 17 cells | 137 622 |
| `view` | `MCPaneView.cfg` | 3 by 2 and 4 by 3 cells, history of 2, stack of 2, arguments 1 and 2, 4 steps from a fresh and a used screen | 366 660 |

*Why the bounds are enough.* `holder`: sessions share only the client slot and the subscriptions, and
one that is attached beside another is affected by it only as by a lost client; two connections are what
it takes for one to take over from another. Three chunks overflow a buffer of two, and leave one to be
forwarded after a replay. The connections are interchangeable, which the run uses as a symmetry; runs
with a liveness property use none. `holder_socket`: a launch that replaces an old holder, the holder it
spawns, and one more after a crash are three. `panes`: ids start again with a new holder, so two
launches and one new holder are what it takes to meet a stale id; a floating pane
differs from a kept one in what is saved and what is done at quit. `pane`: three chunks
go past the bound of two bytes in several ways, and let one be written while one waits and one is
offered; one flushing goroutine and the writer are two that a signal can go to, and `PaneNoLostWakeup`
holds of any number; two pieces of output are a token and a piece behind it. `plugins`: two processes are one
and its successor, and only the last one is ever looked up; a queue of one drops events at once; a change to the file
and one to the package have the same effect on verification, and enabling again what was disabled is not counted as one. `api`: two requests are one that times out and one
that could take its answer; requests of other connections act like the user's closes. `finish`: a second agent shows
that a confirmation is its pane's own, a second subscriber that a full queue is its owner's. `durable`: two panes are
two that want the key of the workspace. `hosts`: two processes are the winner and the loser of the lock, three
connections one that is shared, one that is dialled and one that is ending; the theorems hold of any number.
`layout`: three panes make every shape of tree up to a split within a split; the area has room for three panes side by side, not for more; a drag of a
divider needs one split, and one of a workspace two of them, so two panes, and a third that is open already stays apart from drags.
`view`: a wide glyph, its neighbour and an edge take three columns; the used screen starts with a full scrollback, so that
every step after it meets the cap.

`Deadlock` is not checked: every one of these systems may stop for good (no user, no output,
all bounds used up). Instead liveness says what may not get stuck.

What the properties say:

* `RingIsNewest`, `InOrder`: the buffer is the newest consecutive part of the output; live output never overtakes a
  replay and nothing comes twice.
* `PromiseKept`: `Holder` implements `OutputStream`. With it a subscribed client has all from its first chunk on,
  and a chunk leaves the buffer for the wire or for a newer one.
* `ExitAfterOutput`, `ExitEventuallyKnown`: the exit of a session reported running comes after its
  output, and it does come, whenever attach, kill and exit meet.
* `Exclusive` (`OneTerminal`, `KillsAsListed`), `LaunchEnds`: one terminal or stop per holder, also one that is stopping; a stop
  kills what it listed as long as it is the same holder (for another one, see `KillsOnlyReviewed` below); launches and stops end.
* `NeverWrongWorkspace`, `ShownPaneSaved`: a pane shows a session of its own directory, and
  the state file names it before a crash can matter.
* `SessionsMatchPanes` (`NoLostSession`, `ShownNotKilled`), `UnwantedEnds`: a running session belongs to a pane, to one
  that starts, or is about to be killed, but for those a call without an answer left since the launch; never both shown and about to be
  killed; an unwanted one ends.
* `InputComplete` (`WrittenInOrder`, `BytesCounted`), `NoLostWakeup`, `FlushWaits`, `KeysArrive`: the queue.
* `OutputDrawn`, `LocalNeverPanics`: the screen. `MarkedIsReleased`: a pane that is marked, by whichever goroutine,
  has its channel and its queue closed and its writer gone in the end.
* `OneGeneration`, `AuthorityEnds`, `UiFollows`: one process per plugin and a status that
  is not of an old one; a process whose approval was changed, disabled or revoked ends, unless the file is changed back in time; what a plugin put on the screen goes with it although
  notices are dropped; quitting ends although requests wait.
* `AnswersOwnRequest`, `ConnectionsMoveOn`, `NoNeedlessLoss`, `FinishNoticed`: the control socket, its subscribers, and the finish of an agent.
* `DistinctAgents`, `ViewsShowBinding`, `AttachUnderWay`, `ObservationsForward`: the bindings, the requests that wait for them, and the polls.
* `NoConnectionLost`, `StoppedStaysOff`, `PollsReachHost`: the shared connection, a stop on purpose, recovery after a silent connection or a new host.
* `LayoutsComplete`, `PanesTile`, `RestoresAsShown`, `MenusCloseTheirSpace`: every pane in one leaf and selections in their lists; rectangles
  that tile, of lists that are trees; a launch that shows the same, but for the ratio or order a drag moved that nothing has saved yet; menus of
  workspaces and tabs that close nothing of another workspace.
* `CursorInside`, `GlyphsWhole`, `ViewStays`, `AltLeavesShell`: the terminal and the window on it.

Every property of a run has a mutant in `PROJECT.json`: a definition named in its comment as a mutant of
another, with which TLC finds the property violated. The type invariants (`TypeOK`, `PoolTypeOK`, `PaneTypeOK`) and `OnlySubscribed` hold within the same bounds; no run spends its time on them, and naming one
in a configuration checks it.

### Where the code does something else than it says

These properties state what a comment or a document says and are violated by what the code does.
They are marked "Expected to fail" where they are defined, and no run lists them. To see the counterexample, use the
configuration named here, or put the property in place of the `INVARIANT` and `PROPERTY` lines of the one named.
`PROJECT.json` quotes the line of documentation or comment for each.

| property | configuration | what happens |
|---|---|---|
| `NoSessionsOrphaned` | `MCHolderSocketLaunches.cfg` | two launches find no holder; the second removes the socket the first one's holder listens on |
| `KillsOnlyReviewed` (invariant) | `MCHolderSocket.cfg` | the holder is replaced while `hrdx stop` waits for its user; the new one's sessions have the ids, commands and directories reviewed |
| `EndsOnlyWhenAsked` (property) | `MCHolderSocket.cfg` | a holder that was told to stop accepts a waiting terminal; what that starts ends with the process when it quits |
| `FreshOnlyIfVanished` (property) | `MCPaneLifecycle.cfg` | an attach that gets no answer is followed by a fresh start; the old session runs on unseen |
| `ExitedPaneCloses` | `MCPaneLifecycleExit.cfg` | a program ends after attach and before `paneStartedMsg`; its exit message finds no terminal and the pane stays |
| `NoSharedSession` | `MCPaneLifecycleShared.cfg` | after the holder was replaced, a stale saved id names the session another pane of the same directory just started |
| `FloatingGone` | `MCPaneLifecycleFloat.cfg` | at quit the connection is closed before the goroutine of `Kill` has written |
| `NoSendOnClosed` | `MCScreenUpdatesDetach.cfg` | `Detach` closes `updates` between `Feed`'s unlock and its `notify`, while the connection still reads |
| `ChannelCloses` | `MCScreenUpdatesClosed.cfg` | the exit message of a pane that was closed no longer finds it; its channel and goroutines stay |
| `RunsAsRegistered` (invariant) | `MCPlugin.cfg` with `MaxEdits = 2` | a start between the end of the old process and the last step of a reload keeps the old approval; the reload reports success |
| `BusyAnnounced` (property) | `MCControlSocketFinish.cfg` | an agent that pauses for less than the confirmation is announced idle and not busy again |
| `AttachAlwaysAnswered` (property) | `MCDurableAgents.cfg` | a pane closed before it is bound leaves the client that waits for it to its time-out |
| `ServiceRecorded` (invariant), `StopStaysMarked` (invariant), `LoserFindsWinner` (property) | `MCManagedHost.cfg` with `MaxFaults = 0` | the pid file names a host that lost; a start under way removes the mark of a stop; the loser of the lock probes once, too early |
| `MenusCloseTheirPane` (property) | `MCWorkspaces.cfg` | the menu of a pane whose workspace is no longer the current one closes another pane |
| `MenusCloseTheirTab` (property) | `MCWorkspaces.cfg` | "close" in the menu of a tab, run while another workspace is current, ends the tab's programs and takes no tab away |
| `DragsAreSaved` (invariant) | `MCWorkspaces.cfg` | a menu takes the release of a workspace drag; the next press forgets that the order has changed, and no release saves it |
| `FullScreenAgrees` (invariant), `KeysMoveNothing`, `GlyphsAlwaysWhole`, `ResetClears`, `SelectionStays` (properties) | `MCPaneView.cfg` | leaving a screen one is not on; keyboard sequences that restore the cursor; glyphs cut by inserting and resizing; a reset that clears rows for columns; a selection that moves when the scrollback is full |

## Fairness

Weak fairness of goroutines that can run: pumps, the serve loop, read loops, commands, the writer,
the update loop's handling of a message it has. It is weak because each waits for a condition that, once
true, stays true until that goroutine acts; Go's scheduler and Bubble Tea's message channel run
all of them. A launch or a stop is fair as a whole (`LaunchStep`, `StopStep`), because every one of
its waits has a deadline, after which it goes on. In `InputQueue` the child is assumed to read
(`WriteReturns \/ WriteErrs`): `KeysArrive` is about the queue, and a child that never reads is never
written to. In `Pane` the update loop as a whole is fair (`Looping /\ S!LoopStep`): it takes its messages in
turn, and every one is handled since the bounds leave it finitely many. In `panes` the messages `KillArrives`
and `HolderExit` are fair, as goroutines of a living connection. In `PluginHost` the stages of `run` end by
their timers (`SessionEnds`), requests by their ten seconds (`RequestEnds`), the watcher ticks, and the interface
takes its messages; its own tick is strongly fair, since it stands in the same channel as the other messages, which
is served in the order of arrival. In `ControlSocket` the hand-over to the update loop is strongly fair (`Take`) for the
same reason: the loop is free again and again, and senders on a Go channel are served first come, first served. Deadlines
pass. In `DurableAgents` commands over the network end, with success or not, because each has a time-out; in
`ManagedHost` likewise, host processes that start come up or end, and a read loop notices that its connection was
closed. A connection gone silent is noticed only by a poll that runs into its time-out (`PollStep`). Nothing is assumed
of users, programs (that they end, print or ask), plugins or crashes. `view` and `layout` have no liveness to state.

## What is proved

Every theorem is about the specification with any values of its constants that satisfy the module's `ASSUME`: the
bounds of the runs are gone, and so are the small sets. Each module of theorems begins by saying why the property is
not inductive and what its invariant adds. The invariants hold in TLC's runs, too: naming one in a configuration whose module extends the module of theorems checks it.

| specification | theorem | states | inductive invariant |
|---|---|---|---|
| `Holder` | `TypeInvariance` | `TypeOK` | itself |
| | `OutputOrderInvariance`, `RingInvariance` | `InOrder`, `RingIsNewest` | `OrderInv` |
| | `ExitComesLast` | `ExitAfterOutput` | `ExitInv` |
| | `HolderKeepsPromise` | `PromiseKept`, the refinement of `OutputStream` | `PromiseInv` |
| `HolderSocket` | `UsedAlone` | `Exclusive` | `UseInv` |
| `PaneLifecycle` | `PanesStayInTheirWorkspace`, `StateFileNamesThePanes`, `SessionsFollowPanes` | `NeverWrongWorkspace`, `ShownPaneSaved`, `SessionsMatchPanes` | `LifecycleInv` |
| | `SharedOnlyByAnotherHolder` | `SameHolder => NoSharedSession` | `LifecycleInv` |
| `Workspaces` | `SpacesStaySound`, `LayoutsStayComplete` | `SpacesInv`, `LayoutsComplete` | `SpacesInv` |
| | `MenusStayWithTheirSpace` | `MenusCloseTheirSpace` | `SpacesInv` |
| | `LaunchShowsTheSame` | `RestoresAsShown` | `SpacesInv` |
| | `PanesAlwaysTile`, `CellsAlwaysTile` | `PanesTile`, and `CellsTile` of every cell | `SpacesInv` |
| `InputQueue` | `NoLostWakeupInvariance` | `NoLostWakeup` | `WakeupInv` |
| | `InputAccountedFor`, `FlushInputWaits` | `InputComplete`, `FlushWaits` | `InputInv` |
| `Pane` | `PaneImplementsParts` | the refinement of `InputQueue` and `ScreenUpdates` | |
| | `PaneNoLostWakeup`, `PaneInputComplete`, `PaneFlushWaits` | the same three of a pane | by the refinement |
| | `PaneLocalNeverPanics` | `LocalNeverPanics` | `LocalInv` |
| | `UndrawnIsPending` | `RedrawPending`, the safe half of `OutputDrawn` | `RedrawInv` |
| `PaneView` | `CursorStaysInside` | `CursorInside` | `ViewInv` |
| | `ShellIsLeft`, `GlyphsStayWhole`, `WindowStaysPut` | `AltLeavesShell`, `GlyphsWhole`, `ViewStays` | `ViewInv` |
| `PluginHost` | `PluginTypes`, `OneProcess` | `TypeOK`, `OneGeneration` | `PluginInv` |
| `ControlSocket` | `AnswersAreOwn` | `AnswersOwnRequest` | `SocketInv` |
| | `NoEventIsLostNeedlessly` | `NoNeedlessLoss` | `QueueInv` |
| `DurableAgents` | `AgentsStayDistinct`, `ViewsAreOfTheirPane`, `AttachesAreWaitedFor` | `DistinctAgents`, `ViewsShowBinding`, `AttachUnderWay` | `DurableInv` |
| | `ObservationsOnlyAdvance` | `ObservationsForward` | `DurableInv` |
| `HostPool` | `PoolLosesNothing` | `NoConnectionLost` | `PoolInv` |
| `ManagedHost` | `HostImplementsPool`, `HostLosesNoConnection` | the refinement of `HostPool`, and `NoConnectionLost` by it | |
| | `StopHolds` | `StoppedStaysOff` | `StopInv` |

A proof that a step keeps an invariant has one lemma per action, or per class of actions with one effect (a step that only
moves a command, one that only closes a connection), and under it one step per conjunct that the action can disturb.

**Order of output** (`HolderProofs`). `InOrder` alone is not inductive: nothing in it prevents a pump from forwarding a chunk to a
client while older ones are in the buffer, which would then be replayed behind it. `OrderInv` is `TypeOK`, `RingIsNewest`, `InOrder`
and `SubscribedNothingKept`: as long as the client's end is open, the buffer of a subscribed session is empty. That is what the
order of subscribing, replaying and emptying under the two locks in `handle` establishes. `RingIsNewest` is needed because
it gives the numbers in the buffer: a replay is above all that was sent before.

**Exits** (`HolderProofs`). An exit event is written when the pump of its session is done, so only a replay could write output behind
it. The answer to that replay's attach says what `running` is afterwards, which is false by then (`PumpInv`); and the client
has not been told otherwise before, because it attaches to a session once. `AskedOnce` follows that one request from the wire
through the serve loop into the answer. Which client a pump writes to is the one being served (`ClientServed`).

**The promise** (`HolderProofs`). Every step of the holder is a step of `OutputStream` or none, one lemma for each kind. What a viewer was
given is its screen and then what the wire carries, the concatenation (`Carried`) of what each frame carries. Its lemmas (a frame appended, the
first one taken) are proved by the least natural number at which they would fail, since the library's induction cannot be instantiated.
`PromiseInv` takes `OrderInv` and `ExitInv` and adds two parts. `ConnInv`: the client is a connection the holder has not closed, and those in
the backlog are open, different and not the one being served (`Dialled`); so a connection the holder closes, or gives up, has no viewer left. `SubInv`:
output of a session goes to, and a sink is open for, those who asked for it only (`OnlySubscribed`); so who subscribes has been given nothing yet.

**The socket** (`HolderSocketProofs`). That two processes never use one holder needs that whoever got an answer and is still
connected sits in its only slot (`SlotInv`), in a holder that is stopping, too. That a stop kills what it listed needs that the sessions it compared are still those of
the holder at the shutdown (`KillInv`), which holds because of the slot: who would change them is not served meanwhile.

**Panes and sessions** (`PaneLifecycleProofs`). The four theorems share `LifecycleInv`. `HolderInv`, `Phase` and `Command` say what the
stages of a pane and of its start command imply about its session: that it was started, in the pane's directory, and
ended if the command was told so. `SavedInv`: the state file is a snapshot of the layout, because every handler that changes it
saves in the same step. `SameInv`, as long as the holder is the one the saved ids belong to: everything that refers to a
session (the pane, what its command wants, what it has got, the file) refers to one of its own directory that nobody is about to
kill, and no two panes refer to one session. Without the last part a session could be lost by the first of two panes that closes. What a call without an answer left is known by `abandoned`; the rest
of what runs (`Sought`) is what somebody will still look for.
`SharedOnlyByAnotherHolder` says that the finding `NoSharedSession` has no other cause than a new holder.

**Workspaces and layouts** (`PaneLifecycleProofs`, second part). `LayoutsComplete` is not inductive. Closing a pane takes it out of the tab that
has it, so no other tab or workspace may have it (`SpacesSound`); a pane that is closed stops floating, and another pane must not be
affected (`Fits`); a launch restores the file, so what is in the file must be lists without duplicates that share no pane (`FileSound`), while
a tree in it need not be complete, since `restore` falls back to another. `TabSound` says that the tree of a tab shows the panes that do
not float, each once (`Shows`). For each operator of `SplitTree` a lemma says what the tree it makes shows: `InsertedShows` (the split leaf
is found, so no new pane is lost in `insertAtSide`), `RemovedShows`, `FallbackShows`, and so on. They rest on lemmas about `FlattenSeq`, `RemoveAt`
and `InsertAt`: which places of the old list the new one has, in which order (`Selects`, `Chosen`), proved by the least length at which
they would fail. `MenusCloseTheirSpace` follows because a menu's target is a workspace's id, found again before anything is closed, and the menu of a tab
closes a tab only when the current workspace is the one it was opened in.

`RestoresAsShown` is an equation between lists of lists of trees, with tabs and workspaces left out on both sides. Two selections of the same places
of two lists go side by side (`PairedWithout`), so it is enough that each side leaves out the same: a saved tab has no pane exactly if its tree shows
none. A tree that is saved and restored with the panes it shows is the same tree (`TreeKept`): every index is the place of the leaf's pane, and a ratio is between
one tenth and nine. So a save makes the equation true (`SavedLook`), a launch keeps it whatever it selects (`LaunchLook`), and a handler that does not save leaves
what is shown alone (`LookSteps`), but for the motions of a drag. Those change a ratio (`DragRough`) or the order of the workspaces (`MoveRough`), and the panes
each tree shows stay the same (`Rough`); so do they, as long as nothing is saved, in comparison with the file (`RoughShape`).

That panes tile takes two steps. The first: every layout is a tree (`IsTree`, a part of `Shows`). A list of nodes is a tree if it has one leaf more than splits, and no
shorter beginning of it has (`Balance`); so what a split, a close, a fallback and a launch make of the list is followed by counting (`SplitOffTree`,
`WithoutTree`, `RunTree`). The tree of a node ends at one place (`EndIs`), a tree within a tree ends within it (`EndWithin`), and every node but the first has one parent
(`OneParent`). The second: rectangles. `LayoutNode` is a recursive function; that it has a solution is shown by the least node up to which none
could be (`ComputedAll`), and then each node's rectangle is one half of its parent's (`LayoutPlaced`). `Halves` says what `splitRects` makes of a
rectangle with room: two that fit, cover the whole and do not meet. By the least node for which it would fail, all nodes fit (`LayoutLaid`), and two nodes
that show a cell are one within the other (`CoveredWithin`); so the last node that shows a cell is a leaf, and no other leaf shows it (`CellOnce`).
`PanesTile` is about the cells at which the picture can change, few enough for TLC; `CellsTile` is about all of them.

**The condition variable** (`PaneProofs`). `NoLostWakeup` is not inductive: a `Signal` that went to a flusher ahead of a waiting
writer would break it. `WakeupInv` adds that a goroutine in the queue of the condition variable is waiting and conversely, each once, and that the
writer, when it waits, waits *alone*: a flusher waits only while there is something to write or being
written, and then the writer does not wait. So a signal in `push` that finds the writer asleep wakes it.
This is why the single condition variable of `inputQueue` is enough.

**Input** (`PaneProofs`). `InputComplete` needs that the writer has nothing in hand when it takes the next chunk (`HandInv`: what is in hand
makes the queue busy), that a closed queue is empty, and, since whoever is woken looks again, `WakeupInv`. The counter is
compared with the number of bytes in the queue, as the cardinality of a set (`BytesOf`): a sum by recursion could not be reasoned
about. `FlushWaits` follows from the same invariant: a flusher leaves when nothing is queued and nothing is in hand.

**A pane** (`PaneProofs`). For the refinement of both parts the flags they share must only ever be raised (`ScreenRaises`): then a step of the
screen's side is `Ends`, `MarkExited` or nothing for the input's side. `LocalInv` says that a local pane is marked only by its own
reader, which is then past its last `notify`; so `exited` says where the reader is. `RedrawPending` says what the one token stands for: while a
pane is shown, output that is not drawn has a token, a goroutine that will leave one, or a message for the update loop. `RedrawInv` adds that
whoever closes the channel before the program quits does it after the last output, so that the end never overtakes a piece.

**The terminal** (`PaneProofs`). `ViewInv`: the terminal is one of some c by k cells in which every row has c cells and there are k rows, on both
screens; the region is in order and within the rows, the cursor inside (`Ready`); the window is within the history and the keyboard
stacks are within their bound. `CursorInside` alone is not inductive: it says nothing of the screen that is not shown, of the rows' lengths or of the
saved cursor, which may lie outside after a resize and is brought back when it is restored. Each operator of `Emulator` has a lemma that it keeps
a terminal in order for all of its arguments, and with that what it leaves alone (`Kept`: the other screen, and the scrollback while that is the shell's),
that it cuts no wide glyph (`Whole`), and that the history only grows (`Grown`). The last is said with serial numbers: a line keeps
its number when the cap takes older ones, so the line under number p is the same before and after, and a window that
starts at number p still starts there (`Followed`). `ProgramStepDraws` puts these together for each step of a program; the user's steps
change no terminal but by its size.

**Plugins** (`PluginProofs`). Besides the types the proof needs one thing: only the last generation can be anything but done
(`OneGeneration` itself), and a status of ready names some generation (`ReadyNamesLast`). So whatever moves a session moves the last
one, and each of the paths that start one has, under the same lock, found it done.

**The control socket** (`ControlSocketProofs`). A full reply channel and a request in the hands of the update loop exclude each other, and both belong to
the request the connection works on, until the connection stops waiting: then what the loop holds is stale, and its answer goes to a
channel nobody reads (`HandInv`, `ReplyInv`). `NoNeedlessLoss` is about what `Publish` does to every queue at once: whether
a queue grows depends on its length only, so `QueueInv` is that queues are sequences within their bound.

**Durable agents** (`DurableAgentsProofs`). Why agents stay distinct is a matter of keys. A key is reserved for one new agent (`PaneInv`); in
all places that name a conversation with a key, commands on their way and the state file included, it is the same key, under
which the host files it (`RefInv`); a command whose pane is open belongs to that pane alone and has its key (`OwnerInv`). A poll is alone, and
what it read is no older than what is known (`PollInv`), so that what it brings only advances.

**The pool** (`ManagedHostProofs`). A connection could be lost in `Get` where it looks again and stores what it dialled over what is in the pool.
`PoolInv` adds `DialledApart` (a connection that was dialled is not yet shared, and by one command only) and `OldEnded` (the
connection that a dialling command found in the pool had ended): so what `Stores` overwrites has ended, or it closes its own.

**A stop on purpose** (`ManagedHostProofs`). `StopInv`: only a command that may start a host is in the
steps of `startManaged` (`StartersManage`), and once a stop is settled the mark stands and the only such commands left are restored panes that have not got
past looking at it (`MarkStands`). `settled` is "yes" only for a stop that found nobody starting; for the others
`StopStaysMarked` fails, see above.

*Assumptions.* Those of the modules' `ASSUME`s, which TLC evaluates in the runs: names that stand for nothing (the nil connection, no chunk, no file) are
none of the things they are compared with; buffers, queues and chunks hold at least one element; a plugin has some revision; interfaces and
stops of the socket are different processes; the poll is a command of its own; a terminal has at least one column and one row; a menu's
target is a pane, a workspace or nothing, which differ, and a divider is dragged to a ratio between one tenth and nine. Other bounds are natural numbers.

## What is only model-checked, and why

* Liveness under fairness (`ExitEventuallyKnown`, `LaunchEnds`, `UnwantedEnds`, `KeysArrive`, `OutputDrawn`, `MarkedIsReleased`,
  `AuthorityEnds`, `UiFollows`, `ConnectionsMoveOn`, `FinishNoticed`, `PollsReachHost`): out of the prover's reach.

Every safety property of the runs is a theorem.

## What is not modelled, and why

* Drawing, themes, settings, key bindings: pure or local to a frame. Raw input and mouse decoding: formats.
* Sub-repositories, groups and folds: a cache of git's answers and flags of the sidebar, on which nothing depends.
* Self update: one sequence of file operations in one process.
* System calls of Windows; the ConPTY delay.
* The bytes of frames and requests: length-prefixed frames and lines of JSON on a reliable stream.
* Time: deadlines may pass at any moment. So the 150 ms before `closePt` cannot be shown to
  be enough for the tail of the output.
* Full buffers: a write that blocks. The serve loop writes to PTYs and to the client, whose read loop may
  be answering the emulator; whether they can block each other would take bounded buffers in `Holder`.
* The write and rename inside `state.Save`: one interface saves at a time, and a crash between the two leaves the old file.

## Plan

To model: bounded buffers between holder, client and PTY, and deadlock freedom (`HolderFlow`); frames and private storage of
plugins; messages and answers of conversations; a sequence cut by a read.

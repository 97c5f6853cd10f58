# Synth3x in TLA+

Specifications of the parts of Synth3x whose correctness depends on the order in
which things happen: the AmnesiaDE compositor and the framebuffer desktop before
it, syninit, the safe-process library, the installer, and three applications. Beside
them the TLC instances that check them, and TLAPS proofs of what holds for every
instance.

## The system

Paths are relative to the repository. "Hard" is what a test would hardly reach.

| Part | State | Operations and partners | Hard |
|---|---|---|---|
| **Desktop shell** `src/compositor/shell.c`, `input.c`, `main.c` | array of windows, focus, workspace, pointer, pending click, drag, selection, dialog | `input_poll` handles a whole batch of evdev events; `compositor_run` then dispatches one click, ends drags, extracts the selection, draws | the order within a batch differs from the order of handling; focus and geometry over long sequences of legal input |
| **Terminal log** `shell.c` `shell_term_log`, `async_exec_cmd` | `term_logs`, `term_log_count` | every command runs on a thread of its own and logs to the shared array, as the compositor's thread does | unlocked read-test-write |
| **Notifications, sound** `shell.c` | `notifs`, `nc` | `shell_notif`, `draw_notifs`, `shell_beep` | full list; threads |
| **Wayland server** `src/compositor/wl_server.c` | list of clients, object table of each, descriptors received | poll: accept one, read each, dispatch and answer with blocking writes; `protocols_cleanup_client` on disconnect | descriptors, mappings shared by a pool and its buffers, objects destroyed in any order, replies to clients that do not read or have gone |
| **Surfaces and roles** `src/compositor/protocols.c` | surfaces, xdg and layer roles, decorations, the list of xdg_surfaces | create, attach, commit, configure, destroy; the walk that cleans up after a client | pointers nobody counts, to memory freed in any order by requests and hang-ups |
| **Old desktop** `src/synth3x/synth3x.c` | windows as in the shell, in an array whose order is the order of drawing | one loop: a batch of events each handled in full, then the pending click, then drawing; threads that install VSCodium | indices that shift when a click raises a window |
| **Supervision** `src/lib/synth3x-safe/src/process.rs` | handle, restart count, backoff of each process | start_all, poll, try_restart (sleeps), stop, wait, reset | a child exits between any two steps |
| **syninit** `src/init/init.c` | PID 1, its children, one supervisor per terminal | fork, waitpid, a SIGCHLD handler that reaps any child | who reaps first; children that hang; order of firewall and network |
| **synit-svc** `src/init/svc` | DHCP child, loop | ping every 30 s, DHCP when it fails | retry |
| **Installer** `src/lib/synth3x-installer`, `src/installer/downloader.c` | answers, partitions, what is mounted at /mnt/gentoo, downloaded files | a fixed pipeline of external commands | each may fail; Ctrl+C; a second run over what the first left |
| **AmnesiaIDE** `prog/AmnesiaIDE` | one text with its file and mark of unsaved changes, the workspace's tree, dialogs | menus, keys, clicks; the disk is also other programs' | windows that act on what they captured earlier; writes that fail half way |
| **SynPaint** `prog/SynPaint` | canvas, undo stack, the drag under way, picker and About | press, motion, release, panel, keys | tools and dialogs changed in the middle of a drag; memory freed under the display |
| **FastWords** `prog/FastWords` | word, time left, lives, score | keys, and a clock charged after each event | an answer and a timeout at one event |
| **Teaching kernel** `src/kernel` | interrupt tables, keyboard state, console | interrupt handlers, console commands | nothing: see "Not modelled" |
| **The rest** | none that lasts | hardware detection, checks, analyzers, scripts, the file manager | |

How they meet: syninit starts the shells and synit-svc; the user starts the
compositor or the installer from a shell; the compositor's threads and its loop
share the log; clients reach the compositor by its socket; the installer runs
the C downloader and falls back to wget when it fails.

What makes each part correct is stated as its properties below; what is hard to
test is listed line by line in `PROJECT.json` under "hazards".

## Modules

| Module | Models | State and actions |
|---|---|---|
| `Shell` | shell.c, input.c, main.c | the windows and input state of `compositor_t`; one action for each event of `input_poll` and each phase of an iteration (`Dispatch`, `Settle`, `EndFrame`). Pixels are those of the source |
| `TermLog` | `shell_term_log`, `async_exec_cmd` | each line of the function that touches the shared count or array is a step of its caller; a caller comes back to the loop it left |
| `WlServer` | connections, descriptors, `wl_shm` | the client list in poll order, descriptor numbers as the kernel reuses them, object tables, pools with reference counts. A reply that finds no room waits (`Send`, `ReadEvents`), one to a connection that is down ends the compositor (`WriteFails`, `killed`) |
| `WlRoles` | wl_surface, its buffers, xdg-shell, decorations, `protocols_cleanup_client` | a heap of blocks for each client: which are live, what points at what, what the object table still names; one action for each request, `HangUp`'s walk over the list. `astray` remembers which clients broke a rule; the rules are named before the requests (`Detached`, `Bare`, `Based`, `NoneListed`) |
| `Supervision` | what supervision promises | a process comes up by its launch or by a restart its policy and budget allow, never beside a live instance |
| `Supervisor` | process.rs | handles, counts, backoff; the owner's `start_all`, `poll` with its sleeps, `stop`, `wait`, `reset`. It implements `Supervision` (`KeepsPromise`) under the mapping `Up` |
| `Synit` | init.c from `syn_services` on, svc | every process an actor: PID 1, the modules' child and modprobe, nft, the daemon and its DHCP child, a supervisor and a shell per terminal; the handler may run whenever its signal is pending |
| `Installer` | main.rs of the installer, `installer_download_stage3` | the next step, the answers, both partitions and the contents of each disk, the stack of mounts at /mnt/gentoo, whether an umount failed that is not tried again (`refused`), the downloaded archive and checksum |
| `Editor` | AmnesiaIDE: editor/, file/, creations/actions.rs, dialog/ | the disk as a function from paths to contents, the text with its file and mark, the scanned tree, what each window captured; one action per menu entry, key, button and click, `OtherProgram` for everyone else's changes |
| `Desktop` | main of synth3x.c and the handlers it calls | the state of `Shell`; every input event, the click phase as the source's chain of tests, each on what the test before left behind (`Raise` moves a window to the end of the array), `InstallVscodium` with its threads |
| `Paint` | SynPaint: app.cpp, canvas.cpp, the panel of ui.cpp | pictures as the marks made on them, the undo stack, the memory the display reads (`surf`: its own, a freed block, a block that is gone, or one on the stack), the drag |
| `FastWords` | game.cpp, words.h | the game's record; a step is one SDL event and the clock update after it |
| `MCShell`, `MCSupervisor`, `MCWlServer`, `MCWlRoles`, `MCEditor`, `MCDesktop`, `MCPaint`, `MCFastWords` | | definitions and bounds the configurations need |
| `ShellProofs`, `TermLogProofs`, `DesktopProofs`, `WlServerProofs`, `WlRolesProofs`, `InstallerProofs`; `SupervisorProofs` (of `Supervisor` and `Synit`), `ProgramProofs` (of `Editor`, `Paint` and `FastWords`) | | theorems |

Where one module proves about several specifications, it extends them all; hence
the names `BootInit`, `BootNext`, `BootSpec` in `Synit`, `PaintInit` and so on in `Paint`, and
`GameInit` and so on in `FastWords`, where the others say `Init`, `Next` and `Spec`.

A definition whose comment begins "Faulty variant" is no part of a
specification. It is its action as a plausible mistake would have it; with it in
place of the action TLC finds the property named in `PROJECT.json` violated.

## Runs

All must pass: what the runs check holds of the code as it is.

| Run | Question | Instance |
|---|---|---|
| `ShellPointer` | do drags, maximizing, selections and the dialog keep windows on the display, their sizes, and end with the button? (`WindowsOnScreen`, `SizeKept`, `DialogIsModal`, `ReleaseEndsGesture`) | nine pointer positions on and off title bars, the maximize button of a window before and after it is maximized, close buttons and the COPY button, plus Tab |
| `ShellKeys` | do keys and launchers keep one window per title; does a click focus only what is shown; does ESC end the loop? (`OneWindowPerTitle`, `ClickFocusesShown`, `EscapeExits`) | one key of every kind the handler tells apart, an icon, the dock, the Guide's Next button, the display's left and bottom edges, two of the four workspaces and two of the eight pages, a program installed or not at each click |
| `TermCalls` | until two uses of the log overlap, is it the tail of what was said, and can a line be written outside it only then? (`QuietShowsTail`, `InBounds`) | three entries, the smallest array that is shifted with a middle; two commands and the compositor's thread, two calls under way at once |
| `WlPools` | are mappings, descriptors and connections handled in every order of requests, and what alone keeps a connection out? (`PoolOutlivesBuffers`, `NoDescriptorLeft`, `ConnectionsAccepted`) | two clients, four entries in an object table one client may overrun, three descriptors |
| `WlRolesRules` | which rules must a client keep for the server to be safe, and is that enough? (`NoFault`, `ListSound`, `LeftBehind`, `OthersKept`) | one client with four blocks, enough for a surface, an xdg_surface, a role and one thing more; another with a surface and an xdg_surface, whose hang-up meets the first's |
| `SupPromise` | is the promise kept, does the delay follow the count, does an Always process come back? (`KeepsPromise`, `BackoffFollowsCount`, `AlwaysComesBack`) | one process of each policy; seven restarts go through every delay from 0.5 s to 30 s |
| `SynitBoot` | does the boot finish, has each terminal one shell that comes back, is the network asked for again? (`BootFinishes`, `OneShellPerTty`, `ShellComesBack`, `NetworkRetried`) | both terminals, firewall on, every fork may fail, modprobe and nft may hang |
| `InstallDisks` | consent, verification, target, release, end, whichever command fails (`WipeNeedsConsent`, `BothPartitions`, `OnlyVerifiedUnpacked`, `BaseOnTarget`, `TargetReleased`, `Finishes`) | two disks, two runs: enough for a second run on the first's disk or on the other, over what it left mounted |
| `EditorFiles` | does the mark of unsaved changes tell the truth about the file, and the tree about the disk? (`CleanMatchesDisk`, `UnsavedIsMarked`, `TreeEntriesExist`) | names `s` and `f`, directories down to three levels, one of two workspaces inside the other, a file with a relative and an absolute path, a project that writes over the files of the workspace, one window shown at a time and one change by another program |
| `DesktopGestures` | does a gesture end with the button, does raising keep the windows, does the focus follow its window? (`GestureHasButton`, `StackKept`, `FocusFollows`) | three columns and two rows of pointer positions, on the maximize and close buttons, the bars, the COPY button and an icon, and a motion off the display; eleven keys; VSCodium installed by up to two threads |
| `PaintStrokes` | what does a drag restore, what does a drag of a shape leave, is what was saved still as it was saved? (`BaseOnTop`, `DragLeavesOneShape`, `UndoIsHistory`) | one tool of each kind, a point of the canvas, the panel and nowhere, an undo stack of two that three saves overflow |
| `FastWordsGames` | do the counts add up through answers and timeouts at one event, and has a waiting word time left? (`Tally`, `WordAlive`) | words of one and two letters with two and three seconds, waits longer than either, several games |

### The bounds

`TermMax`, `MAX_TERM_LOGS`, `MAX_READ`, `MAX_OBJECTS`, `MAX_UNDO`, `MAX_INPUT`,
`WORD_COUNT`, `MaxId` and `MaxFd` stand for larger constants of the code and are
chosen so that the limit is reached. `WORKSPACES` and `GUIDE_PAGES` are 4 and 8 in
the code; two of each already have a first, a last and a way round. `MaxBusy` is
how many calls of the log are under way at once, `MaxRuns` how often the installer is
started, `MaxInstalls` how many threads install VSCodium, `MaxWindows` how many of
the editor's windows a user keeps shown (the menu and the rename window stay open,
unseen, on the welcome screen), `MaxForeign` how often other programs interfere,
`MaxBlocks` what a client makes the server allocate, `MaxWait` the longest time
between two events of the game.

Four MC modules bound the state by a constraint. `MCDesktop` keeps the desktop
within two departures (`MaxDepartures`) from its first state: a window moved, hidden
or raised, a key held, a selection, a page. Each property of `Desktop` is broken by
two of them together, as its mutants show. `MCWlRoles` leaves out a second buffer or
positioner, which nothing tells from the first. `MCPaint` bounds marks and saves,
more tightly once something was undone, when the memory may hold anything.
`MCFastWords` bounds the words of a game and the best score.

The pointer positions are sampled from the layout of `shell_init`; the proofs cover
the others. The type invariants of `Shell`, `Supervisor` and `Synit` (`BootTypeOK`) are
theorems and no run repeats them; those of the other modules are parts of the
inductive invariants of their proofs.

## What the code does otherwise than it says

The models have these as the code does; no property is stated against them, and none
certifies them.

* **A full log is overrun** (shell.c:619). Two threads pass the test for a full log; the
  second writes at index `MAX_TERM_LOGS`, into the count. Once the count is past
  the end every later call writes there. `clear` between the test and the decrement
  makes the index −1. `raced` marks the overlap in `TermLog`.
* **A pool closes somebody's connection** (wl_server.c:817, 546). `read_client` closes
  all descriptors of a batch, also the one just stored in `pool->fd`; when the pool
  goes, its number may be a new client's connection. (`CreatePool`, `Release`.)
* **A client may block or end the compositor** (wl_server.c:121, 134). Replies are written
  with a blocking `write`, and SIGPIPE is not ignored. A client that never reads
  fills its buffer, and the loop waits with it; one that hangs up after a request, or that
  names an unknown object twice in a batch (the first error shuts the connection down),
  ends the compositor. (`Send`, `Unknown`, `WriteFails`; `ConnectionsAccepted` names both as
  the only things that keep a connection out.)
* **No order of destruction is safe** (protocols.c:275). `xdg_toplevel.destroy` frees
  the role and leaves xdg_surface's pointer to it, `xdg_surface.destroy` frees the role
  and leaves its object: whoever destroys both uses freed memory. In `WlRoles` a client
  that keeps the rules leaves its role to its xdg_surface.
* **Nothing sets `g_comp`** (protocols.c:883). `protocols_init` is never called: a layer
  surface, or set_maximized and set_fullscreen, dereference NULL.
* **Cleaning up leaves memory and reads it** (protocols.c:898, 936). "to prevent memory leaks"
  frees neither roles nor xdg_surfaces by the table, and the walk that frees them reads
  `xs->surface->client` of a surface freed just before and writes `xs->surface->xdg`. So a
  client that goes while it has an xdg_surface makes the server use freed memory, and "destroy
  them first" is one of the rules of `WlRoles`, though no client that crashes can keep it.
  (`CleanupClient`, `NoneListed`, `Stale`, `LeftBehind`.)
  A pool destroyed before its buffers stays mapped, too, when its client goes. (`Remove`.)
* **The firewall is announced, not awaited** (init.c:157). PID 1 forks nft and prints OK;
  the daemon's DHCP may be done before nft, or nft may fail. (`Firewall`, `rules`.)
* **COMPLETE with the disk mounted** (main.rs:997, 1256). The status of the umounts is ignored: when one
  of a bind mount or of the last two fails, the run ends well and the disk is in use.
  `refused` marks it in `Installer`, and `TargetReleased` leaves such a run out. The first
  umount of the root (1132) is tried again at the end, so that its failure alone does no harm.
* **The desktop goes nowhere** (main.rs:1132, 1596 of the installer). `install_base` ends
  with umount; `install_de` then writes below the live system's /mnt/gentoo.
  (`BaseOnTarget` covers what is written while the disk is mounted.)
* **Strokes vanish** (app.cpp:177). `finish_shape` restores the top of the undo stack
  for every tool, and paints again only what is a shape: at the release a stroke of pen,
  brush or eraser is gone. INSTRUCTIONS.md lists them as tools that draw. (`Finished`;
  `DragLeavesOneShape` speaks of shapes only.)
* **Late answers count** (game.cpp:222). Time is charged after the event to the word
  that is there by then: an answer after the end is right, and its delay shortens the
  next word, or costs a second life at the same event. "You must type them before
  time runs out", says INSTRUCTIONS.md. The bonus uses the time left before the charge.

Seen while modelling, and in the models:

* main.c:75 ends a drag by the button's level after a batch: a release and a press
  in one batch leave the old drag on.
* synth3x.c:1793: a click on an icon can bring up a window under the pointer and, going
  on to the windows, hit its close button. ESC leaves the loop for `for(;;) pause()`
  (1861) where the handbook (1196) says "Exit to TTY shell".
* process.rs:124: `wait` drops the handle and the status with it; a later poll
  restarts an OnFailure process that ended well. `kill` is SIGKILL where its comment
  says SIGTERM.
* main.rs:104: `abort` says "No changes made" also after mklabel.
* main.rs:129: an NVMe root is cut to `/dev/nvme` and equals no drive, so the
  question about the boot disk is not asked; main.rs:617 looks for `"sda "` in
  lines that say `/dev/sda2`, so the question about mounts is not asked either.
* actions.rs:19: opening a file, or renaming the open one, drops unsaved edits without
  a question; views.rs:205 and scaffold.rs:4 write over a file that exists, open or not.
* ops.rs:6: a save on a full disk has truncated the file when it fails; if the text
  had no mark it gets none (`touched` in `CleanMatchesDisk` is this case too).
* views.rs:174: a deleted directory, or a file under another spelling of its path,
  leaves the editor's path dangling; the next save makes the file again or fails.
* actions.rs:40: Save As to a new name lists the file in the tree only if the text
  had no file before.
* canvas.cpp:56: undo makes the display from memory it frees on the next line; what is
  saved next may be given the same memory and be drawn over. (`surf`.)
* app.cpp: the picker swallows the release of the button, so a drag may go on under
  it; an undo in the middle of a drag loses one stroke more at the release; the size
  slider takes presses only, though INSTRUCTIONS.md says to drag it.
* game.cpp: the first pass through the words is in the order of the list; the last page
  says "press ESC to quit" (402), which is not handled there; the keypad's Enter
  answers but does not restart.
* downloader.c:5 promises SHA256 verification; only the stage archive has it.

## Fairness

* `Shell`: weak fairness of the loop's phases (the loop never waits for
  events longer than a poll). Users and devices have none.
* `Supervisor`: weak fairness of the owner's `run` loop, which polls for ever.
  Children exit or not; the owner's other calls may come or not.
* `WlServer`: weak fairness of the poll loop, which runs while the compositor lives and no
  `write` waits. Clients have none: nothing makes them read what they are sent.
* `Synit`: weak fairness of PID 1, the supervisors, the daemon's own steps and the
  alarm; strong fairness of `ForkShell`, since a fork may fail any number of
  times but `syn_shell_on` tries for ever. None for modprobe, nft, DHCP clients,
  users and the network: those may hang.
* `Installer`: weak fairness of a step: external commands end and the user answers.
  `Finishes` leaves out the user who has a WiFi adapter and never connects; the
  code asks for ever.
* `TermLog`, `WlRoles`, `Editor`, `Desktop`, `Paint`, `FastWords`: none, their
  properties are safety properties.

## Proofs

TLAPS proves, for every value of the constants that the named assumptions admit, every
safety property the runs check:

* `ShellProofs`: `TypeCorrect`, `OnScreen`, `SizesKept`, `OneOfEach`, `Modal`,
  `FocusesShown`. Each invariant comes with its strengthening in the module. `OnScreen`
  rests on `DisplayAssumption` (the display is larger than the largest window by the
  margins `wnew` divides by) and on the two clamps of a drag commuting when the window is
  no larger than the room between panel and dock; `SizesKept` needs that a
  maximized window remembers the size of its title. `FocusesShown` follows a click through
  the loop over the windows: the button that ends it never belongs to the window whose
  client area was hit before.
* `DesktopProofs`: `Gestures`, `Stacks`, `FocusStays`. `DeskInv` holds of every state: the
  windows are where and as large as `ShellProofs` (taken here by INSTANCE, with its
  assumptions proved of this display) has them, the focus is an index, and the four first
  titles are there, with a fifth window only for VSCodium (`Stacked`). A click is a chain of
  tests, each of which takes a desk from the one before; a lemma for each test says what
  happens to the stack and to the window in focus. The click that reopens a window whose
  hide button lies under the launcher is the one step in which the focus goes to
  something hidden: the proof found it, and `FocusFollows` names it.
* `TermLogProofs`: `NeverPastTheEnd`, `TailIsShown`. `Calm` says, while no two uses have
  overlapped, that one call at most is under way and, for each of its places, which of the
  last lines said the array holds and from which index (`At`).
* `WlServerProofs`: `NoneLeft`, `PoolsOutlive`. `Descriptors`: an open number is the batch's
  while it is read, or the socket of a client that is in the list, so that nothing stays
  open for a client that has gone. `Pools` holds of each client alone: a pool that is mapped
  has at least as many references as the object table has users of it, counted as the
  cardinality of a set. At least, not exactly: an object made while its client's table
  is full counts its reference and is never entered. A reply or an error that waits keeps
  the batch's descriptor open, and both invariants with it.
* `WlRolesProofs`: `NeverFaults`, `ListTrue`, `LittleLeft`, `OthersSafe`. One invariant for the
  four, `IInv`. Of a client that kept the rules: what its table names is live, what is live
  points at what is live, a role and its xdg_surface point at each other and are freed
  together. Of every client, whatever it did: the global list has exactly its live
  xdg_surfaces, and a role pointer points at a role. The second part is what keeps a client
  that goes astray from harming the others. The cleanup of a client that kept the rules finds
  none of its xdg_surfaces listed, and so follows no pointer to a freed surface.
* `SupervisorProofs`, of `Supervisor`: `TypeCorrect` (the delay stays within 500 ms and 30 s),
  `DelayedByCount` (the delay is the one of its count, in a table that says 500 ms doubled
  five times and then 30 s) and `Implements`, the refinement of `Supervision`. The mapping
  reads the handle, so a step that only looks at a dead child is a stutter and a restart
  is one step. Of `Synit`: `BootTypes`, `OneShell`. `OneShellPerTty` is not inductive;
  `Settled` adds that only a supervisor that waits may have a shell running or unreaped.
* `InstallerProofs`: `Consented`, `OnlyVerified`, `OnFormatted`, `Released`, `OnTarget`.
  `Consent` says which answers stand at which step, so that a second run cannot use the
  first's; `Clean` carries the verdict of `verify_sha256` to the step that unpacks.
  `Placed` has two parts: what holds of the disks whatever earlier runs left (`Sound`: things
  only on formatted disks, and only such disks mounted), and, for each step, which of the
  mounts are free of the selected disk (`Where`). It is what makes the umounts of the end enough,
  also where the first umount of the root failed: `Where` is stated under `~refused`, and lets the
  mounts under the root stay once one of the others was refused.
* `ProgramProofs`, of `Editor`: `CleanIsSaved`, `TreeIsThere`, `UnsavedStaysMarked`.
  `CleanMatchesDisk` is inductive: a handler that takes the mark away knows the file from the
  disk its step leaves, and every other one that changes the disk watches the editor's file.
  `FilesInv` adds to `TreeEntriesExist` that every path of the disk is one from the root by
  names alone: then names below a workspace, appended to its path as the user typed it,
  resolve to what was scanned (`AbsGood`), and a step that does not scan again keeps every
  entry (`Keeps`). `Abs` is a recursive function on the path; what it computes is proved by
  the least place at which it could be wrong, with the well-foundedness of the naturals.
* Of `Paint`: `PreviewsRestoreTheBase`, `DragsLeaveOneShape`, `UndoesWhatWasSaved`. `BaseOnTop`
  with the types is inductive: while the display does not lie in the newest saved picture
  (`Apart`) and the drag was not disturbed, nothing pushes or pops, and a push on a full stack drops the oldest picture,
  never the new one. `UndoIsHistory` needs that a saved picture in whose memory the display
  lies is known as shared (`SharedKnown`), also when the stack shifts under it.
* Of `FastWords`: `Tallied`, `Alive`. Each operator takes a game from one kind to another
  (`Playing`, `Answered`, `Ready`, `Good`), so that an answer and a timeout at one event are
  one after the other.

What some properties leave to their hazard. Some hazards are named by properties that catch
part of what can go wrong, or by none, because the code does go wrong in the rest. Those are
a release and a press in one batch (main.c:75; `ReleaseEndsGesture` covers batches that leave
the button up), displays `wnew` divides by zero on (`DisplayAssumption` excludes them), two
overlapping uses of the log (`raced`), the descriptor of another client that a pool
closes (wl_server.c:546), the saved picture the display lies in (`Shared`), saves and undos in the middle of a
drag (`calm`), answers that come late, replies to clients that do not read or have gone,
umounts that fail at the end (`refused`), and the firewall that comes after the network. Their notes in
`PROJECT.json` say which part is which.

Model-checked only, since fairness is out of the prover's reach here: the liveness
properties `ReleaseEndsGesture` and `EscapeExits` of `Shell`, `ConnectionsAccepted` of
`WlServer`, `AlwaysComesBack` of `Supervisor`, `BootFinishes`, `ShellComesBack` and
`NetworkRetried` of `Synit`, and `Finishes` of `Installer`.

What is assumed: that the constants are of their kind, and where the code's numbers need
it, more. `DisplayAssumption` is above. `EditorAssumption` takes the disk's own paths, and
those other programs use, to be from the root by names; what users type, `$HOME` and the
process's directory may be any path.

## What the models leave out

* `Shell`: drawing, the status bar, the text of windows, system() commands. The
  text of a selection is the window it came from.
* `TermLog`: the text, beyond which line it is.
* `Supervisor`: `stop`'s signal and wait are one step; spawning is instantaneous.
* `WlServer`: the framing of requests and everything that is no pool or buffer.
  The server speaks a dialect of its own (length and opcode in swapped halves of
  the header word, and the object's id repeated in the payload), so that its
  clients are written for it; the model's requests are the ones its dispatcher
  reads. Each client connects once. `resize` is left out: addresses are.
* `WlRoles`: what nothing reads (sizes, titles, serials, damage), pools and
  descriptors, callocs that fail. The handlers of layer surfaces cannot be reached.
  Each client connects once, and no address is used for two blocks.
* `Synit`: the mounts and files before `syn_services`. Supervisors and daemon are
  not killed from outside.
* `Installer`: the contents of configuration files, the list of networks, names of
  disks. Nobody else uses /mnt/gentoo, no disk is mounted whole, and an
  interrupted command counts as not run or as failed.
* `Editor`: the terminal (F5 is its save), GitHub, notifications, highlighting; links
  and permissions beyond a write that is refused. A frame handles one click after
  the other, so a step is one click.
* `Desktop`: drawing, statistics, notifications, and the log, which the threads and the
  loop write without a lock as in `TermLog`.
* `Paint`: saving to a file, colours, sizes and what a mark looks like: a mark is its
  tool and its two points, and a piece of freehand stroke has none.
* `FastWords`: sound, drawing, feedback. A typed text is its length and how much of
  it is right; time is whole seconds.

## Not modelled

`PROJECT.json` "components" has every part with its reason. Those that keep state:

* Notifications: a list of fixed length that only drawing reads. The threads that
  share it race as the callers of `shell_term_log` do, which `TermLog` models.
* The teaching kernel: `irq_handler` (kernel.c:448) tests for vector 33 inside a test
  for vectors 40 to 47, so no key ever reaches the boot menu or the console, and
  nothing happens that could be checked.
* scripts/synth3x-installer.sh: the installer in shell, which the Rust program replaced.
* Synth3x-FileMng: a directory listed again after every command.
* privsep, secure and hwdetect of synth3x-safe; drivers, checks and analyzers: fixed
  sequences of system calls and text.

What an extension would take up first: the editor's terminal (a shell still running
when its workspace is opened again), and the framing of Wayland requests when a message
arrives in pieces.

# A formal model of mvwm

mvwm is an X11 window manager in C, a descendant of fvwm 2. This directory
holds TLA+ modules that model the parts of it whose correctness depends on the
order in which things happen, TLC configurations that check them on small
instances, and proofs of theorems about them for every value of their
constants. File names below are relative to the repository.

PROJECT.json lists the components with their status, the runs, the lines of the
source that each definition translates, the hazards with the properties that
watch them, and the theorems.

## The system

The window manager (`mvwm/`) is one process with one thread. It is driven by
`HandleEvents` and `My_XNextEvent` in `mvwm/events.c`: a loop that takes X
events, the input of modules, scheduled commands and signals, and dispatches
each of them to a handler that runs to its end. What makes the program hard to
reason about is not threads but *re-entrancy*: several handlers run the event
loop, or parts of it, inside themselves. The command `Wait` runs a nested event
loop; sending a packet to a synchronous module reads the answers of that module
and may execute commands of it; menus and interactive moves have event loops of
their own. A data structure that an outer call is iterating over may change
under its feet at each of these places.

The other difficulty is that the same fact is kept in several places: the place
of a window on the screen and on the desk, its order in a ring, in the server and
in the pager, its focus in six pointers, its style in a list and in the window. Each
command updates them by hand, and the server and the clients report later, and in
their own order.

Modules (`modules/`) are separate processes at the other end of two pipes:
packets about windows go out, commands come in. Another window manager may take
over the screen at any time.

## Inventory

| component | source | state | hard behaviour | what makes it correct | TLA+ |
|---|---|---|---|---|---|
| lockable queue | `libs/fqueue.c` | list of records, lock level, dirty flag | callbacks use the queue while it is iterated over | no record is freed during an iteration, none is lost or run twice | `Fqueue`, `Subsequences` |
| scheduler | `mvwm/schedule.c` | one queue sorted by time, last and next id | jobs that schedule, deschedule and wait; wrapping time stamps | due jobs run; the queue stays sorted; select never oversleeps | `Schedule`, `ScheduleContract`, `JobQueue` |
| event loop | `mvwm/events.c` | time stamp of the last event, signal flags | nested by `Wait` | everything ready is served in the end | `Schedule`, `ModuleLink` |
| module link | `mvwm/module_list.c`, `module_interface.c` | module list, death row, message queues, command queue, masks | nested use while a packet is sent; partial writes; timeouts; modules that die | no freed module is used; packets arrive whole and in order; nobody waits for ever | `ModuleLink`, `ModuleContract`, `PacketChannel` |
| grabs | `mvwm/misc.c`, `libs/Grab.c` | counters per cursor context | nested, retried | every grab is undone exactly once | `Execution`, `ModuleLink` |
| commands, functions, files | `mvwm/functions.c`, `condrc.c`, `conditional.c`, `read.c` | function list, depths, use counts, return codes | functions that redefine functions, recursion, windows destroyed inside | what is in use is not freed; counters unwind | `Execution` |
| windows that go away | `mvwm/add_window.c` | window list, windows scheduled for destruction | destroyed in the middle of a function | no freed window is used | `Execution`, `Focus` |
| stack ring | `mvwm/stack.c` | ring of windows, layers | transients, server order, packets | ring, server and pager agree, layers never mix | `Stacking` |
| focus | `mvwm/focus.c`, `focus_policy.c` | six pointers, window list, click grabs | windows that go away, delayed focus events | pointers are live, clicks reach the focused window | `Focus` |
| styles and updates | `mvwm/style.c`, `update.c` | list of definitions, marks of changes | definitions merged behind the user's back | the last definition wins, merged or not | `Styles` |
| desks, icons | `mvwm/virtual.c`, `icons.c`, `events.c` | current desk, flags and mapping of windows | transients, reports of the server that come late | what is mapped is what flags and desk say | `Desks` |
| pages | `mvwm/virtual.c`, `move_resize.c` | viewport, places on screen and desk | paging in the middle of moves, icons that drag windows | both places agree | `Viewport` |
| frames | `mvwm/frame.c`, `geometry.c`, `windowshade.c`, `events.c` | three geometries, hints | shaded and maximized together, requests and hints in flight | client and frame agree | `Frames` |
| menus | `mvwm/menus.c`, `menucmd.c` | instances, copies, the C stack | commands in menus that change menus | use counts, every menu is taken down | `Menus` |
| selection WM_Sn | `mvwm/icccm2.c`, `mvwm.c` | owner, redirection, position of each process | two managers at once, crashes | windows are handed over, nobody is refused | `Icccm2` |
| colormaps, timeouts, lists, execution contexts, bindings, placement, EWMH, session, expansion, configuration of modules, painting, the module processes | rest of `mvwm/`, `libs/`, `modules/` | | | | not modelled, see the end |

## The scheduler: `Schedule`, `Fqueue`, `JobQueue`, `ScheduleContract`

`Fqueue` has the operations of `libs/fqueue.c` that do not call back, as
operators on sequences of records. `Schedule` is the state machine. Its
variables are the static queue `sq` of `schedule.c` with its `lock_level` and
`is_dirty`, the two ids, the clock of the X server, `fev_last_timestamp`
(`evtime`) and the call stack. The stack is state because of the nested event
loop: a frame is a call of `My_XNextEvent` at one of four points, a command of a
binding or a module, or a call of `squeue_execute` that is running a job. An
action is a stretch of code between two points where something else can happen:
`LoopEvent`, `LoopIdle`, `LoopAgain`, `LoopTimeout` and `LoopInput` are the parts of
`My_XNextEvent`; `CmdSchedule`, `CmdDeschedule` and `CmdWait` are the three
commands; `CmdReturn`, `WaitDone` and `JobReturn` return from a frame. The loop of
`fqueue_remove_or_operate_all` is cut where it runs a command: `OperateFrom` goes
from one due record to the next.

Abstractions: a command is the sequence of `Schedule`, `Deschedule` and `Wait` it
happens to issue; its other effects do not touch the scheduler. A record has a
name (`uid`, its address) and two ghosts: how often it was started, and the
`Schedule` command it descends from.

`JobQueue` is what the manual promises, a set of pending and a set of running
jobs. `ScheduleContract` maps the scheduler to it (`KeepsPromise`).

Bounds. Two records of one group can be due at once and a third can be added
while they run; delays 0 and 1 give jobs that are due at once and jobs that
wait; the clock makes one tick, so both orders of due times occur; `MaxJobs`
bounds the length of the queue, not the number of jobs, so jobs come and go
without end. `ClockMod`, `TimeMod` and `SkewMs` are the widths of the server's
clock, of `unsigned long` and of the margin in which two stamps are compared.
`MinId` stands for `INT_MIN`: one automatic id, so that it wraps around at once.
The run with `Wait` has no periodic jobs, because the two together are beyond
TLC's reach; the proofs cover them together.

Fairness. `LoopFairness`: commands end, the clock ticks, `My_XNextEvent` goes on
(weak fairness: the thread runs), and again and again the X queue is empty and
`select` is not preempted by input just when its timeout comes (strong fairness:
without it a flood of events starves the scheduler, which the code does nothing
against). `UserFairness`: events with a current time stamp and module input
arrive, because `evtime` only moves with them. `WaitFairness`: the window that a
`Wait` command waits for appears; a `Wait` for one that does not come blocks
the commands after it for ever, by design.

## The module link: `ModuleLink`, `PacketChannel`, `ModuleContract`

`ModuleLink` is the manager's end of the pipes. Its variables are the module
list and the death row of `module_list.c`, the fields of each module (`fmod`: write
descriptor, three masks, queue), the command queue of `module_interface.c`,
`myxgrabcount` of `libs/Grab.c`, the flags `fMvwmInStartup` and `isTerminated`, and
the call stack. The frames are those calls at which another one can intervene:
`My_XNextEvent` at each of its points, a command, a loop over the module list
that sends or flushes (`each`, with its iterator), `PositiveWrite` waiting for
`UNLOCK`, `FlushMessageQueue`, `CMD_ModuleSynchronous`. On the other side of the
pipes (`wire`) a module sends commands, reads packets and exits, in any order.

`PositiveWrite` waits by reading commands of the very module and executing them
when they are not the answer. Each of them is again an arbitrary command: it may
broadcast, kill modules, start others or wait. A command in the model may do what
`Commands` lists, as often as the bounds allow, so every sequence of built-in
commands is covered as far as modules see it.

Abstractions: a packet is a number and a type, written to the pipe in `Units`
pieces; the types stand for event masks. What a command does with windows is not part
of it. While the server is grabbed a command only sends packets, because the
callers of `MyXGrabServer` do nothing else that concerns modules. A command of a
binding or of the scheduler has no module. `StartupStuff` runs commands like a
scheduled command does. Timeouts may fire at any time. After a freed module
or store is followed (`Dangling`) the behaviour of the C program is undefined,
and the model stops with `undefined` set.

`PacketChannel` is the contract of one direction of the link: packets are
accepted in some order, some are dropped by the mask or when the module is killed, and
the others arrive in that order. `ModuleContract` maps `ModuleLink` to it
(`DeliversPackets`).

Bounds. One module and every mask show the interplay of queue, flush and wait
(`module_stream`: two packets of two units in a pipe of three, so that a write is cut
in the middle of a packet); two modules show what happens to a loop over the list and to the
death row (`module_lists`, `module_wait`, with one packet). `MaxInputs`, `MaxPackets`, `MaxWaits`
and `MaxGrabs` bound the commands a module sends, the packets, the nesting of `Wait` and of server
grabs. `module_lists` uses the view `MCView`, which leaves out the numbers of
commands and the packets that were read already; neither the actions nor the
invariant of that run look at them.

Fairness (`module_live`): the thread goes on (`Continues`), commands end, the X
queue is empty again and again, and modules read their pipe. Nothing is assumed of the
answers of a module: the timeout and the signal are enough for
`TerminationUnwinds`.

## Commands, functions and windows that go away: `Execution`

`Execution` models how one command executes others. Its frames are
`__execute_function` (before its command and after), `execute_complex_function`,
`run_command_stream` for `Read` and `PipeRead`, `CMD_All`, the nested loop of `CMD_Wait`,
and `HandleButtonPress`. The other variables are the function list with `use_depth`, the
counters `func_depth` and `depth`, the flag `is_executing_complex_function` that makes
`destroy_window` put a window on a list instead of freeing it, the
`break_levels` of each `cond_rc_t` in use, the grab counters of `misc.c` with what the server knows
(`held`), the two statics of `cursor_control`, and `curr_read_depth`.

What a line says is not state. Each time a line is executed it may be any
command, because variables are expanded anew: so every nesting of functions,
files, conditional commands, prefixes, `Break`, `Wait`, `Focus`, `Destroy`,
`AddToFunc`, `DestroyFunc` and `BusyCursor` is covered up to the depth limit. Only the number of
items and their conditions are kept. The user's click in `CheckActionType` and the window selected by
`DeferExecution` are choices. The model begins after start-up, when the
start-up grab is released. Menus, which defer destruction with a flag of their own,
are in `Menus`.

A window that is freed does not come back; another window at the same
address would be another member of `Windows`. If a command is executed on a
freed window, or a window is freed twice, the model stops (`undefined`): outside
of functions this does happen, see below. `ContextsLive` says that it
does not happen inside.

Bounds of `commands`: two windows (one to be destroyed by the command for the
other), one function (that may call itself), an immediate or a click item, nesting of
three commands, files of two lines, `Break` of one, two or all levels, one `Wait`. The depth limit
itself is `MAX_FUNCTION_DEPTH`, so its early return is exercised. A grab counter
needs two nested holders to go wrong, a break two nested functions, a stale
window a destroyer inside a user.

## Windows on the screen: `Stacking` and `Desks` (run `windows`)

`Stacking` has the ring of `MvwmWindows`, the order of the frames in the server and
the order that the pager shows, as three sequences. The actions are mapping, destruction,
`Raise`, `Lower`, `RaiseLower`, `ConfigureRequest` with a sibling, changes of layer and of
`WM_TRANSIENT_FOR`, iconifying and deiconifying. The static marks that a search for
transients leaves on windows (`tree`) are state, because an early return may leave them to
the next search: `NoTree` is the state they should be in. Commands move whole
trees of transients; `ServerAgrees` compares ring and server, `LayersSorted` says that the ring
is sorted by layers whatever request, command or event changed it, and `PagerFollows` that the packets
a step sends tell all of it. Most steps that follow a search end with another one, for the
button grabs, which clears the marks; `MaySkipQuery` lets that one be left out, as it is for
some windows and policies. It is off in the run: with it, the marks do take windows out of
their layer (`stacking_marks`).

`Desks` has the flags of each window (`win`), and what the server really
shows: frames, icons, clients, with the reports that wait to be handled (`events`). The
actions are desk switches, moves between desks, `Iconify` and `DeIconify` with
transients, stickiness, and the handlers of `MapRequest`, `MapNotify` and `UnmapNotify`,
while clients map and withdraw their windows. `ShownRight` compares flags and
screen in every state.

Bounds: three windows, two layers, all with the same style, for `Stacking` (a
transient of a transient and a stranger between them); with icons only those leave
the lowest layer (`FewLayers`). A parent with a transient and two desks for `Desks`. A command or a client acts
while at most one report of the server waits (`Served`), and what it does may send any number
of them; the handlers take them one after another, and those they send wait as well. So each report meets
commands that came after it was sent, and up to three reports are in flight: a window is
iconified, withdrawn or moved to another desk before its MapNotify is handled, a parent is iconified with its
transient, a desk is left with both on it.

## Focus, styles and pages: `Focus`, `Styles`, `Viewport` (run `manager`)

`Focus` keeps the six pointers of `focus.c` and `Scr` in one record (`focus`), the window list, the
windows whose buttons are grabbed, the flags the focus code looks at, and the windows that are dying
while a complex function runs. A handler is a composition of operators on a
record `S` of the state, in the order in which the C functions call each other:
`SetFocusTo`, `RestoreFocus`, `GrabButtonsOf`, `HandleFocusIn` and so on. FocusIn and
crossing events of any window may come at any time, because clients move the focus and the
model has no server. A window that is destroyed while a complex function runs is forgotten twice, at once and
when the function has ended. In between, commands of the function and a FocusIn of its icon may give it the
focus again, and `destroy_scheduled_windows` does not take that back: a pointer to freed memory is left, and the
model ends there (`Next`). `PointersKept` says that nothing else does this. It is an action property: a
window that is gone is pointed to after a step only if it was before, or if the step is one of these two.

`Styles` has the list of definitions (`all_styles`), what the commands said (`defs`, a
ghost), the marks of changed names and the windows with the flags they were last given. The list is simplified
between any two commands; `StylesKept` compares it with what the commands mean.

`Viewport` is one window in one dimension: its place on the screen and on the desk,
maximized or not, its icon, the viewport, and an interactive move that can page. The desk is one bit: whether
the window is on the current one (`fw.here`). `PlacesAgree` is the equation that all of the commands maintain
by hand. `DeIconify` does so only on the current desk (`icons.c:2347`), so it is not an invariant; `PlacesKept` says that
a step makes it false only by showing a window on another desk, that every other step keeps it, and
so that an icon shown on the current desk is right whatever happened to it before.

Bounds: two windows, one transient for the other, two desks, three policies that
occur (follow the mouse, click, never). States in which two unusual things happen at
once are not explored further (`FewTroubles`), except icons in functions, and windows about to be mapped while
there are icons, functions, or a window that has lost the focus to one the manager does not know. Three style commands, two
pages of two units; a maximized window is not moved by hand, nor one on another desk, and only
some of maximized, icon, sticky and elsewhere hold together (`FewStates`).

## Menus and frames: `Menus`, `Frames` (run `interface`)

`Menus` follows `do_menu`: its calls and the commands they wait for are frames of a
stack, the menus with their copies and structures are the heap `h`. Commands in menus
open, rebuild and destroy menus; a menu that is shown is shown again as a
copy, a torn-off menu is a clone. `MenusKept` says that every menu on the screen is
taken down by a frame, that copies are counted, and that no frame uses a menu
that is destroyed. `Habits` turns on behaviours under which this fails, see below.

`Frames` is one window in one dimension with its three geometries, borders, shading
in five directions, size hints that the client changes at any time, and its
`ConfigureRequest`s, which are merged in the queue if the client's motion method is known. `FramesKept` says that the
frame is where the desk and the shading say, and that the client fills it and knows its place. Three
steps make that false: limits for the size of a shaded window (`update.c:350`), `ResizeMove` of a
window that is shaded to the side (`move_resize.c:1139`), and shading to the side what has neither border nor
title, which hides nothing. They set the ghost `crooked`, and the model ends there, because
whether the client is hidden then depends on the other dimension. `RequestsServed` compares the window with the
ghost `asked`, the width that the client is to have when its requests are answered: where requests are merged
the oldest value, else the newest one; nothing once a command has overridden it.

Bounds: three structures of menus under two names with two items, two copies
(`MAX_MENU_COPIES`), stack of four frames. Two sizes and hints, three directions, two motion methods (one under which
requests are merged, one under which they are not), two events in flight, which is what a merge takes; the second is a request for a width or a change of the hints, and
waits only while the window is not shaded (`FewRequests`). A state is explored further if at most one thing about it is
unusual, or a shaded window is also maximized, redecorated or asked to change, or a request meets hints, a
maximized window, a page or static gravity (`FewTroubles`).

## One manager after another: `Icccm2` (run `handover`)

Each process of a manager is at a position `pc` between `asking` for the selection and
`gone`; the server's side is the owner of WM_Sn with its time, the client that has
the redirection, and the event queue of each process. `Start`, `Setup`, `Events`, `Quit`, `Leave`
and `Crash` are the steps of `main`, `SetupICCCM2`, `HandleEvents`, `Done` and `CloseICCCM2` between
which the server serves others; clients map windows. `calm` says
that a manager is started only when no other is starting: the start-up protocol
promises nothing else.

Bounds: three managers, so that one takes over from one that has just taken over,
and one client. Fairness: the processes do not stop; nothing says that managers are
started or end.

## The runs

| run | module | what it shows | distinct states |
|---|---|---|---|
| `schedule_nowait` | `MCSchedule` | 3 records, delays 0 and 1, period 1, no `Wait`: types, records in use stay, flags, order of the queue, no job lost or doubled, implements `JobQueue` | 455014 |
| `schedule_wait` | `MCSchedule` | a nested event loop, 2 one-shot records: what is finished stays finished, and every due job is run in the end | 77424 |
| `module_stream` | `MCModuleLink` | whole packets in order, no wait for an unsent packet, none with the server grabbed; implements `PacketChannel` | 1412234 |
| `module_lists` | `MCModuleLink` | no module is in two lists or freed in use, while no command waits | 1787252 |
| `module_wait` | `MCModuleLink` | with `Wait`, without synchronous modules: sound iteration, commands once and in order | 1267822 |
| `module_live` | `MCModuleLink` | termination ends every wait, queues drain | 101866 |
| `module_iterator` | `MCModuleLink` | violation of `SafeIteration` with a synchronous module | |
| `commands` | `MCExecution` | counters unwind, grabs are real and released, `Break` is exact, functions in use stay, no freed window in functions | 2020279 |
| `windows` | `MCWindows` | ring, server and pager agree, layers are kept, what should be seen is mapped | 378227 |
| `manager` | `MCManager` | windows that go are forgotten by the focus, clicks reach the focused window, focus is restored on the desk, styles mean what commands said, places are kept | 168074 |
| `handover` | `Icccm2` | windows are handed over, nobody is refused, the new manager gets to run | 125347 |
| `interface` | `MCInterface` | menus are taken down and live while used, client and frame agree, requests are served | 259013 |

`MCWindows`, `MCManager` and `MCInterface` check modules that do not touch each
other's variables: a behaviour is one of a single part (`part`), the others stay as they
begin. `MCInterface` extends `Frames`, whose properties are theorems, and instantiates `Menus`. `CHECK_DEADLOCK FALSE` is set where the program may stop (the terminate signal), the
model does (undefined behaviour), or a bound is reached.

More configurations show violations of what a comment or the manual says, or of a
property outside the conditions under which it holds:

| configuration | module | violated |
|---|---|---|
| `schedule_twice` | `MCSchedule` | `AtMostOnce`: a job that waits is run again |
| `schedule_wrap` | `MCSchedule` | `ScheduledJobsRun`: a time beyond 32 bits never comes |
| `module_deathrow` | `MCModuleLink` | `UsedModulesLive`, with a `Wait` in a command of a module |
| `stacking_pager` | `MCWindows` | `PagerAgrees`: without the premise of `PagerFollows` |
| `icons_stay` | `MCWindows` | `IconsStay`: a late MapNotify maps an icon's frame |
| `stray_icons` | `MCWindows` | `ShownRight`, if a style makes an icon on another desk sticky |
| `stacking_marks` | `MCWindows` | `LayersSorted`, if marks of a search are left over (`MaySkipQuery`) |
| `focus_freed` | `MCManager` | `PointersLive`: a window that is dying is given the focus |
| `focus_desk` | `MCManager` | `FocusOnNewDesk` |
| `style_list` | `MCManager` | `SimplifyKeepsStyles`, with defaults and settings of one flag |
| `page_apart` | `MCManager` | `NeverAPageApart` |
| `places_elsewhere` | `MCManager` | `PlacesAgree`: a window is shown on another desk |
| `requests_merged` | `MCInterface` | `MergingStops`, with three events in the queue |
| `menus_freed` | `MCInterface` | `UsedMenusLive`, if a tear-off is closed while a command of it runs |
| `shaded_limit` | `MCInterface` | `FramesAlways`: a shaded window gets size limits by a style |

## What is proved

The theorems are in eight modules, named after the one they are about;
PROJECT.json lists them. The assumptions are those of the constants (the ASSUME of
each module, which TLC evaluates in every run), and those written in the theorem.
Where a theorem has such a hypothesis, what follows says why. Else they hold for any number of windows, modules, records, jobs,
streams, managers, for any policies, masks, delays, sizes and depths of nesting.

`SubsequenceProofs` has the lemmas the others share: `Subsequence(s, K)` is `s` without
the positions outside `K`, in order, and thinning commutes with what queues do.
The C code unlinks records; `SelectSeq` would be the textbook operator for it but is
defined by recursion, about which nothing can be proved here. `Frames` merges requests with
it, too, as `SelectSeq` stands in the way there.

### The scheduler

`ScheduleProofs`. `IInv` = `Consistent` (the queue and the stack) and `ScalarsOK`
(ids, clocks, frames). `Pinned` alone is not inductive: a record stays because the lock level is
positive, which is known only if the level equals the number of running frames,
because every one of them raised it once; and a new record needs an address that
neither a record in the queue nor a running frame has. `CleanWhenUnlocked` needs
that the dirty flag is set whenever a record is marked or new. From it follow
`TypeCorrectness`, `RunningRecordsStay` (memory safety of the loop in
`fqueue_remove_or_operate_all`) and `NoLeftovers`.

The rest of the module is about jobs. Every step is classified by what it does to the queue: nothing
(`Quiet`), a new record, a thinning (`Deschedule`), or the end of a job. `JInv` adds to `IInv`
that an unmarked record was started once for each call of `squeue_execute` that runs
it, and that `Deschedule` sticks; it holds for any depth of `Wait` and gives
`FinishedForGood` and `DescheduleIsFinal`. `KInv`, for
`MaxWaits = 0`, adds that there is one loop at the bottom of the stack, one record
for each Schedule command, and a command in each record that runs; it gives
`EachJobKept`. `OrderInv` adds that times in the queue are near (`Near`: half the
range of `unsigned long`, in which comparison of wrapping stamps is transitive) and ordered; the hypothesis
`NoOverflow` says that the range holds the clock and a delay twice, true for a
32-bit clock in a 64-bit `unsigned long` and not in a 32-bit one. It gives
`QueueStaysSorted` and `NeverOversleeps`. `PromiseKept` is the refinement of
`JobQueue`: quiet steps stutter, a new record is `Submit`, `Deschedule` is `Cancel`, `squeue_execute`
and the end of a job are `Proceed`. It needs `MaxWaits = 0`: with a nested loop a
job can be started twice, as `schedule_twice` shows.

### The module link

`ModuleLinkProofs`. `IInv` has, next to the types:

- `Owned`: a module is in one list, once, and not freed; only started modules are
  in lists and have anything in their queue or pipe (`HoldersStarted`,
  `LinksStarted`), so that starting one cannot put it there twice;
- `Stream`: the pipe holds whole packets, the last one as far as the record at the
  head of the queue says;
- `GrabbedByCommand`: while the server is grabbed, there is nothing above the command
  that grabbed it but a loop that sends and a flush;
- `SentLater` and `AnsweredSent`: the packets being sent are younger than
  those waited for below, and a packet that is waited for has left the queue unless the flush
  that is to write it is still running;
- `OneLoop`, for `MaxWaits = 0`: one event loop at the bottom of the stack, and the command queue
  is empty unless that loop is in its input phases, so the death row is only
  emptied when nobody uses a module.

Each action is summarised once for each part (`ListEffect`, `LinkEffect`, `StackEffect`,
`QueueEffect`), and each part of the invariant is shown to survive the effects. The
initial state needs that a list of all the modules of the command line, as long as
there are modules, has none twice. `FreedWhenUnused` has `MaxWaits = 0` as its hypothesis;
`module_deathrow` shows that it is needed.

`PacketsDelivered` is the refinement of `PacketChannel`. Every action but a send, a write of a
whole packet, a read, and the end of a module stutters in the channel. What makes a send fresh is `CInv`:
a loop over the modules has not yet sent its packet to those at its iterator or after it
(`LoopsSendOnce`), which must survive that modules are unlinked and linked while the loop waits; all
numbers that were sent are those of earlier packets; and modules have read no
more than was written. No hypothesis is needed.

`LoopsSafe` and `EachCommandKept` are about modules without synchronous masks, since
`module_iterator` shows that with one a loop may follow a freed module. Their invariant is
`CalmInv`: no call of `PositiveWrite` waits, a loop over the modules is the
topmost call or the one below the flush of another module than the next one, and its iterator is
in the list. So nothing can remove the module that a loop goes on with. For
commands, `AllInOrder` relates what was executed, what is queued and what is in the pipe by the
numbers of commands, and while `CMD_ModuleSynchronous` waits, a command of its module is in the queue only
if the loop that executes it is running. `EachCommandKept` also has to know that no
freed module is left in the queue. That holds with `MaxWaits = 0`, by `OneLoop`, and with any number of `Wait`s if
there are no modules on the command line: at startup the event loop cleans up while commands of modules
are in the queue, and only modules of the command line have any by then (`Started0`).

### Commands and functions

`ExecutionProofs`. Everything the code counts is shown to equal a number of frames
on the stack (`CommandsCounted`): `func_depth`, `depth`, `use_depth` of
each function, `curr_read_depth`, the passive grabs, the length of the chain of
return codes. The grabs are counted from the bottom of the stack (`Low`, `Num`), since `Wait` takes
one away that it gives back: in every lower part there are at least as many
functions as `Wait`s that will grab again (`Shaped`). With the statics of `cursor_control`
(`Consistent`) this gives `Balanced`. `KeptAlive` needs, besides the counts, that destruction
is deferred while a function runs, so that what is in a frame at or above one is not freed
(`WindowsLive`).

`BreaksExact` rests on `BInv`. A command that passes the conditional return code in use on
links the functions below and above it to a chain; another command is a barrier and begins a
new chain. In each chain only the topmost return code counts, since that of `KeepRc` is copied down when
it returns. A function in the chain is left exactly if fewer functions than the `break_levels` of
that code lie above it; this must be known of the chains below a barrier as well
(`Levels`), because they go on when the barrier returns. And no command begins in a chain
of which a function is to be left. `All` and `PipeRead` execute more commands with the same return code, which count
its levels down again (see below); from then on nothing is said of the functions
under them (`Unsure`), neither by the property nor by the theorem.

### Focus

`FocusProofs`. `IInv` is `Good(S, dying)` of the whole state: the list has each window once and none that
is dying; what is mapped, iconic or grabbed is listed or dying; each pointer is listed or `Nil`;
windows in the list are on a desk; and `Clicks`, which is stronger than
`FocusedGetsClicks`: a mapped window with the focus has no grabbed buttons wherever it is, since it may
come back from another desk or from an icon without a call that looks at its
grabs. Every function of `focus.c` *shuffles* a state (`Shuffles`): it keeps the list as a set, the mapping
and the desks, grabs only mapped windows, and gives pointers only to old pointers
or the window it is called for. `Shuffles` is transitive, so handlers are chained from the lemmas of
what they call; destruction and mapping have lemmas of their own (`DestroyKeeps`,
`GrabbedAgain`). The theorems have no hypothesis. `NoneRevived` is `PointersKept`; what it says ends where
the model does, at the first use of a window that was freed with a pointer to it.

### Pages

`ViewportProofs`. `WindowsPlaced` is `PlacesKept`: every step but the exceptional one leads from a state in which
the places agree, or in which there is only an icon, to another one. Its invariant `TInv` has the types, among
them that the viewport is a page position on the largest desk, and that only an interactive move is opaque: an
opaque move lets both places differ, and every way out of it sets the second from the first. The arithmetic is linear but for the pages, `W` times a number, for which
there are lemmas (`MovedIntoInt`, `PageOnDesk`). The run checks the same formula
through an instance in `MCManager`.

### Frames

`FramesProofs`. `FramesTrue` is `FramesKept`. The invariant `FInv` says of the window:

- `Agrees`: the frame is the place on the desk, moved by the viewport and shaded if the window is;
- `Knows`: the client of an unshaded window fills the frame, and was told where it is;
- `Roomy`: the normal and the maximized geometry have room for the borders and a pixel of
  the client. Neither part of the property is inductive without it, because unshading computes
  the client from them;
- `Bordered`: a window shaded to the side has some border, as its frame keeps one pixel; the places
  of a crooked window only have a size (`Sized`).

`Good` is kept by each operator on windows (`constrain_size`, gravity, decoration,
shading, maximizing) in a lemma of its own, and the actions chain them.

One hypothesis is in the theorem. `SomeSizeFits`: the size hints with the limits of a style leave a
size of at least one pixel on the grid of the increments. `constrain_size` steps below
the minimum otherwise: with minimum and maximum 1, base 0 and increment 2 it gives 0. It holds in the
instance of `interface`.

`RequestsAnswered` is `RequestsServed`, for any number of waiting requests. `LInv` adds that while a width
waits it is the one in `asked`, and that the client has it as far as its hints allow when none does. It
needs that merging loses no width (`LeftFacts`, `MergedFacts`: the width of what is left is the foremost one that was
named, however many requests and changes of hints there were), and that to constrain a
size again changes nothing (`ConstrainedTwice`): the other handlers do, with what they find.

The proof attempt found an error in the model: the gravities of `UpdateAbsolute` were cases of
a CASE that overlapped, so that TLC and the logic could choose different ones. It is
a chain of conditions now, in the order of the code.

### One manager after another

`Icccm2Proofs`. `WindowsKept` follows from the types, which tie the
redirection to the position of its owner. `NeverRefused` needs `CalmInv`: in a calm start the
window that a manager waits for is that of the one with the redirection. If that manager is
still connected it has not closed its window, and if it is not the redirection is free.

### What is only model-checked

- Liveness under fairness (`DueJobsRun`, `TerminationUnwinds`, `QueuesDrain`, `TakesOver`): out of
  the proof system's reach.
- `StylesKept`: its definition of what commands mean walks over lists with recursive
  operators, and the statement is by induction over the list.
- `ServerAgrees`, `LayersSorted`, `PagerFollows`: `Stacking` restacks trees of transients by
  folds over the ring, whose result for every ring is again an induction over data. `ShownRight`:
  `Desks` handles the transients of a window the same way, and filters the reports in flight.
- `MenusKept`: it counts copies, the size of sets of menus whose elements move between frames, and
  frames are found by filtering the stack.
- `MCTypeOK` of `MCWindows`, `MCInterface` and `MCManager`: types of several modules at once.
  Those of `Frames`, `Viewport` and `Focus` are theorems.
- `SafeIteration` and `CommandsKept` with synchronous modules are false or unknown: see
  `module_iterator`.

## What the code does not do as documented

PROJECT.json has `module_iterator` as its finding: the iterator of the module list is not
safe while `PositiveWrite` executes commands. The configurations without a run of their
own show others:

- `schedule_twice`: a job that waits is started twice. `schedule_wrap`: a job scheduled just
  before the server's clock wraps around is never run where `unsigned long` has 64 bits.
- `module_deathrow`: the death row does not keep modules until they are no longer used, if
  one of their commands is a `Wait`.
- `stray_icons`: an icon on another desk that becomes sticky by a style is not mapped
  (`update.c:142`); `icons_stay`: a late MapNotify maps the frame of an icon, although "don't map if
  the event was caused by a de-iconify" (`events.c:2868`).
- `stacking_marks`: the marks that a search leaves with "no cleening is needed" (`stack.c:792`) are kept by the
  next one. If that is a restacking, with no button grabs brought up to date in between, it moves
  windows along that do not belong to it, out of their layer.
- `focus_freed`: the focus given to a window that is scheduled for destruction, by a command of the
  function or since its icon got it, is not taken from it when it is freed (`add_window.c:3376`). The comments at `focus.c:417` (the old focus
  window is regrabbed) and the assignment at `focus.c:738` (the old focus is remembered as
  pending) do not agree with the code around them.
- `focus_desk`: going to a desk may focus a window that is not on it, since `do_move_window_to_desk`
  does not reset the mark "Keep track of the last-focused window".
- `style_list`: dropping "styles that are completely overridden by later style definitions"
  (`style.c:976`) changes styles, if one sets a flag and a later one gives a default for it.
- `page_apart`: a maximized window and its normal geometry may be more than a page apart, although
  `geometry.c:647` says never: a sticky icon that is placed anew (`icons.c:1664`) moves one of them.
- `places_elsewhere`: a window that is deiconified on another desk is not brought up to date with the pages
  that its icon was carried over (`icons.c:2347`), so that its place on the desk is wrong.
- `requests_merged`: "ConfigureRequest events cannot be merged past changes of the size hints"
  (`events.c:985`), but the test beside it stops at changes of all other properties and not at these. Where requests are
  merged (not with the method auto), a value that two of them name is that of the older one (`events.c:946`
  to `964` overwrite the newer event), so that the client ends with a size that it has asked for before the last
  one. `RequestsServed` is stated for what the code does.
- `shaded_limit`: the limits of a style are applied to the shaded frame (`update.c:350`), as if
  it were the whole one; `ResizeMove` does the same with a window that is shaded to the side
  (`move_resize.c:1139`), so that `geometry.c:580` is not true of it.

Disagreements that were met while reading and have no configuration:

- `legacy/doc/commands/Wait.xml:44` says that input from modules is queued and processed
  only after the wait; the nested `ExecuteCommandQueue` (`events.c:4451`) executes it
  during the wait, including commands the outer call had queued.
- A scheduled job's timeout also ends the start-up phase (`events.c:4460`): both
  share one `select`, although the comment at `events.c:4295` speaks of a timeout for modules that do not quit.
- `Deschedule` in a job does not see records that the iteration has just added
  (`fqueue.c:360`), and a periodic job whose nested run has taken the command string
  is put back without one (`schedule.c:199`).
- Between two modules that are written to synchronously, packets of nested broadcasts arrive in
  different orders.
- `Break n` in a command that `All` or `PipeRead` repeats is counted down by the functions
  called for the following windows or lines (`functions.c:876`), so that an outer
  function may go on; `legacy/doc/commands/Break.xml:26` does not mention this.
- Outside of functions, `All`, `Read` and `PipeRead` go on with a window that one of
  their commands has destroyed and freed (`functions.c:412`), and a window scheduled for destruction that is
  destroyed again is freed, and then once more by `destroy_scheduled_windows`.
- At the nesting limit of `Read` the file stays open, and the error says that
  the file was not found.
- `Wait` releases one level of `GRAB_NORMAL`; in nested functions the pointer stays grabbed.
- The previous desk of `GotoDesk prev` is kept differently from `GotoDesk.xml:41`
  (`virtual.c:270`); `DesktopSize` does not clamp the viewport; transients iconified along follow the current
  desk while their parent does not (`virtual.c:1496`).
- `menus.c:6137` "pass return code up to the torn off menu": a tear-off that is closed by its window
  while its submenu is open does not pass it. `menus.c:6447` "can't destroy a menu while in
  use": it can, with the entries of `Habits` in `Menus`.
- `GetWindowSizeHintsWithCheck` does not store hints it was asked to check, although `events.c:3685` says
  "Always set the size hints here"; `Maximize` with one argument on a shaded window keeps the shaded height; a
  request for a shaded and maximized window overwrites the normal geometry
  (`events.c:1302`); windows with an odd sum of borders creep by one at each redecoration.
- Requests in the queue of a manager that leaves are lost. Two managers started at
  once both wait for the same old window, and one is refused. A window of the old owner that goes away
  between `XGetSelectionOwner` and `XChangeWindowAttributes` ends the process.

## Not modelled

Painting, fonts, pictures, cursors, colour sets, placement: they are sequential and
have few states whose order matters, or they live in the X server. Parsing of commands,
styles and positions, expansion, module configuration: string processing. Several monitors. EWMH properties,
colormaps, session management and key bindings translate between other parts and partners outside. Menu
styles, continuations and positions; interactive resizing and snapping. Module
processes other than their ends of the pipe. The C library and Xlib appear as choices: what `select` reports, whether a grab
succeeds, how much `write` takes. PROJECT.json lists every component with its status.

## Plan

Done: the inventory's modules above, and the proofs of the scheduler and of the module
link with their contracts, command execution, focus, pages, frames and the hand-over.

Next, in this order:

1. `Stacking`: `ServerAgrees` and `LayersSorted`. The restacking of a set of windows would have to be
   stated by a set of positions, as `Subsequence` does for thinning, instead of by a fold.
2. `Menus`: `EveryMenuOwned` and `UsedMenusLive` without `Habits`, from an invariant
   that ties each live menu to the frames that use it.
3. `Desks`: `ShownRight`, where the invariant has to say which reports can be in flight.
4. Colormaps and key bindings, and the module processes with timers
   (`MvwmAuto`) composed with `PacketChannel`.

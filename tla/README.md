# TLA+ models of enthrall's master

enthrall shares one keyboard and mouse across several machines. The
*master* (`src/unnamed/part_000`, main.c) owns the local input. It keeps
one ssh-spawned *remote* per configured machine. A remote is a child
process connected to the master by a message channel. The master forwards
input to the focused remote. `src/x11.c` is the X11 platform driver. It
provides the keyboard and pointer grab, key and hotkey events, the keymap
query, clipboard selections, gamma (brightness) and the clock.

This directory holds the TLA+ modules that model the master's control
plane, the TLC configurations that check them, and `PROJECT.json`, the
machine-readable index. `PROJECT.json` lists components, runs, mutants,
the definition-to-source map, findings and hazards.

## The system

| Part | Code | State | Operations |
|---|---|---|---|
| Remote lifecycle | `setup_remote`, `fail_remote`, `disconnect_remote`, `handle_message(READY)`, `action_cb(RECONNECT)` | `state` (SETTINGUP, CONNECTED, FAILED, PERMFAILED), `failcount`, `next_reconnect_time` | setup, READY, I/O or protocol failure, backoff, retry, RECONNECT |
| Outbound channel | `enqueue_message`, `write_rmtdata` (msgchan.c is not in the sources) | queue of messages, backlog quota | enqueue (fails the remote when full), write |
| Scheduler | `schedule_call`, `schedule_message`, `run_scheduled_calls`, `enqueue_scheduled_messages`, `get_select_timeout` | time-sorted lists of calls and of future-dated messages per remote | insert, pop due, compute select timeout |
| Focus | `focus_node`, `focus_master`, `focus_neighbor`, `transfer_clipboard`, `transfer_modifiers`, `indicate_switch`, `transition_brightness` | `focused_remote`, X grab, brightness fades | switch (hotkey, edge, failure) |
| Hotkeys and keys (x11.c) | `do_hotkey`, `get_*_modifiers`, `handle_event`, `handle_keyevent`, `process_events`, `grab_inputs`/`ungrab_inputs` | X event queue, physical keymap | key press/release, hotkey, drain queue |
| Hotkey binding and matching (x11.c, main.c) | `parse_keystring`, `bind_hotkey`, `set_keygrab`, `relevant_modmask`, `find_hotkey`/`match_hotkey`, `bind_hotkeys` | `xhotkeys` list, passive grabs, lock modifiers | bind (or exit), KeyPress/KeyRelease matching, lock toggles |
| Edge detector | `record_edgeevent`, `get_edgehist_entry`, `trigger_edgeevent`, `check_edgeevents` | per-direction ring of event times, last event type | edge ARRIVE/DEPART, multi-tap trigger |
| Event loop | `handle_fds`, `main` | the clock | pre-select pass, select, per-fd handlers |
| Clipboard selection (x11.c) | `get_clipboard_text`, `set_clipboard_text`, `handle_selection_request`, SelectionClear | `clipboard_text`, `xselection_owned_since`, `last_xevent_time`; the server's owners and times | take, lose, answer requests, read (with a nested event wait) |
| fdmon loop (x11.c) | `fdmon_register_fd`, `fdmon_ref`/`unref`, `fdmon_unregister`, `fdmon_monitor`/`unmonitor`, `schedule_call`, `run_scheduled_calls`, `get_select_timeout`, `handle_fds`, `run_event_loop` | the doubly linked list of monitored fds, refcounts, flags; the time-sorted list of scheduled calls | register, unregister, monitor, schedule, run due calls, select (with its timeout), callback pass |

How they interact: everything runs on one thread, in `handle_fds`. The
handlers call each other reentrantly, and that is where most of the
difficulty lies. `focus_node` calls `indicate_switch` and `transfer_*`.
Those call `enqueue_message`. A full channel makes `enqueue_message` call
`fail_remote` → `disconnect_remote` → `focus_master` → `focus_node` again,
in the middle of the outer switch. `transfer_clipboard` calls
`get_clipboard_text`, which, unless the master owns the selection, waits
for the owner's answer and meanwhile passes every other X event to
`handle_event`: hotkeys run nested switches, and key events are forwarded
to whatever `focused_remote` is at that moment. Fades put deadlines into the scheduler.
The scheduler and the FAILED remotes' reconnect times decide how long
`select()` sleeps.

Not part of the model: configuration validation and startup
(`check_remotes`, the config file checks), the ssh command line
(`exec_remote_shell`), mouse forwarding and edge reposition (coordinates
only), the bytes of the clipboard text and targets other than STRING,
xrandr gamma, and shutdown. `PROJECT.json` gives the reason for each.

## Modules

### `Master.tla` — focus, lifecycle, channels, keys (MC module `MC_Master.tla`)

Variables map one to one onto the code's state:

| Variable | Code |
|---|---|
| `state`, `failcount` | `rmt->state`, `rmt->failcount` |
| `outq` | the channel's outbound queue |
| `scheduled_messages` | the length of `rmt->scheduled_messages` |
| `focused_remote` | `focused_remote`; `MASTER` stands for NULL |
| `grabbed` | the X grab |
| `rheld` | the modifiers the remote session has seen pressed |
| `keymap` | what `XQueryKeymap` reports |
| `xevents` | the X event queue |
| `xowned` | the master owns the X selection (`xselection_owned_since`) |
| `segv` | a NULL `focused_remote` was dereferenced |

The reentrant handlers are operators from a state record to a state
record: `DisconnectRemote`, `FailRemote`, `EnqueueMessage`,
`TransitionBrightness`, `IndicateSwitch`, `TransferClipboard`,
`TransferModifiers`, `FocusNode`, `FocusNeighbor`, `ActionCb`, `DoHotkey`,
`HandleXEvent`, `Drain` (`process_events`) and `GetClipboardText`. They are `RECURSIVE` because they call each other as
the C functions do. Each event-loop step computes the state after the
whole handler and commits it (`Step`).

The actions are `SetupRemote`, `EnqueueScheduled`, `WriteRmtdata`,
`ReadReady`, `ReadSetClipboard`, `IOFailed` (read, write or protocol
error), `KeyChange` (the user presses or releases a modifier),
`HotkeyPress`, `SelectionTaken` (another client takes the selection) and
`ProcessEvents`. `FocusNode` re-reads `focused` after `indicate_switch`,
as the code re-reads the global.

Choices the environment makes are fields of the state record, picked with
`\E` by the action and read where the code meets them: `flip`, the keys
the user toggles during a `get_clipboard_text` wait (`WaitFlips`);
`grabfail`, whether `grab_inputs` fails (`GrabResults`); and whether
`set_clipboard_text` gets the selection (`OwnershipResults`). The
constants `KeysDuringWait`, `GrabCanFail` and `OwnershipCanFail` switch
each choice on; the passing run keeps them off, master_grab turns on
`GrabCanFail` and master_clipnull `OwnershipCanFail`, and
`KeysDuringWait` reproduces finding 8 below.

`Lifecycle == INSTANCE ConnLifecycle` maps the lifecycle onto the abstract
specification. `ConnLifecycle.tla` is the spec's connection state
machine (Ready, Fail, Retry, Reconnect). `LifecycleRefinement` checks that
every Master step, nested failures included, is a step the abstract
machine allows, or a stutter.

### `EventLoop.tla` — timing of `handle_fds`

Deadlines are stored relative to `now_us` in ticks, and a past deadline is
−1. The code's tests (`<= now`, `< now`, `< other`) give the same answers
on these values, so the state space is finite without a clock bound.

- `LoopTop` is the pre-select pass: `run_scheduled_calls`, `setup_remote`
  for due FAILED remotes (strict `<`), `enqueue_scheduled_messages`, then
  `get_select_timeout`. The timeout is modelled with its unsigned
  wrap-around: a past deadline gives `Forever`.
- `Timeout` is select timing out. The clock advances by the timeout or
  one tick more.
- `FdEvent` is select returning early with a READY, an I/O failure or a
  hotkey switch/RECONNECT.
- `ScheduleInsert` is the insertion of `schedule_call`/`schedule_message`.
- `ReconnectInterval` is `fail_remote`'s backoff.
- `FairSpec` adds the fairness discussed below; `FailedRetried` says that
  once input stops, every FAILED remote is eventually set up again.

### `EdgeDetect.tla` — multi-tap detector

One direction's `edge_state`: `evidx`, the ring of event times (kept as
ages saturated at `Window`) and `last_evtype`. `TriggerEdgeevent` is
`record_edgeevent` plus the look-back of `trigger_edgeevent`. `Tick` is
the clock. `taps` is a reference history (ages of the last `Num` ARRIVEs),
used only by the property. `EdgeMaskChange` is an EDGEMASKCHANGE message
from the remote (`check_edgeevents` for this direction): the mask bit
flips and the corresponding ARRIVE or DEPART is recorded. `RemoteRestart`
is a disconnect and `setup_remote`: the new remote process starts with its
mask clear, and the master's history is kept, as in the code.

### `X11Loop.tla` and `FdSet.tla` — the fdmon loop of x11.c

`X11Loop` holds the list of `struct xmonfd` as functions over a set `Ctx`
of addresses: `alloc` (malloc'd), `held` (registered and not yet
unregistered), `next`/`prev`/`head`/`tail`, `refcount` and `flags`. `pc`
and `mfd` are the position of `handle_fds`' pass; `rready`/`wready` are
the fd sets select returned. A freed address may be reused by a later
register. Reading `next` of a freed entry is undefined behaviour and is
modelled as any pointer (`Deref`); `NoUseAfterFree` says it never
happens. The callbacks' own calls (`ApiCall`) are any fdmon API call on
any address, because the callers (the remote's message channel) are not in
the sources.

`FdSet` is what the fd monitor promises without the list: a set of
members and passes that visit each member present at the start at most
once, skip those removed, and call back only members. `FdSetRefinement`
checks `X11Loop` against it with `Pending`, the registered entries still
reachable from `mfd->next`, as the refinement mapping.

The two files in `src/` come from different revisions. This `main.c`
(part_000) has its own `handle_fds` and `schedule_call` and never calls
x11.c's fdmon loop or timer list. `X11Loop` models x11.c's loop as the
platform layer provides it, for the callers that use it (the remote side,
not in the sources).

The module also holds x11.c's own timer list, which differs from main.c's:
`schedule_call` takes a delay and adds `get_microtime()`. `calls` is the
list (`[id, at]`, head first) and `nowus` is `handle_fds`' `now_us`. Both
are relative to the clock, which is always 0; `Elapse` moves every time
closer. `Wake` takes `now_us`. `RunCall`/`CallReturn` are
`run_scheduled_calls`' loop; a fn may schedule calls, use the fd API, and
take long enough for the clock to tick (`Tick`). `SelectWait` is
`get_select_timeout`, and select either returns early with fds (`Select`)
or times out (`SelectTimeout`). `ScheduleCall` can happen at the top of the
loop, in a fd callback or in a fn. `order` is a ghost: the pending calls in
the order they were scheduled.

### `Hotkeys.tla` — binding and matching hotkeys (MC module `MC_Hotkeys.tla`)

The key path of x11.c at the level of keycodes and modifier masks.
Modifier masks are sets of the X modifier names (`shift`, `lock`,
`control`, `mod1`..`mod5`, `XModifiers`). `GetModMask` is `get_mod_mask`'s
scan of the server's modifier map (`ModMap`, slot → keycode, 0 for an empty
slot) for the keycode of XK_Num_Lock or XK_Scroll_Lock (`NumLockKey`,
`ScrollLockKey`, 0 when the keymap has no such keysym). The user's lock
toggles set the bits the server really gives those keys
(`ServerLockBits`), so the code's view and the keyboard can disagree.
`ParseTokens` is `parse_keystring` (RECURSIVE over the `+`-separated
tokens) with all its error exits; `KeyGrabs` is `set_keygrab`'s eight
grabs over the CapsLock/NumLock/ScrollLock combinations; `FindHotkey` is
`find_hotkey` (`SelectInSeq` over `xhotkeys`, first match from the head).
`BindHotkey` runs `bind_hotkey` for the configured strings in order: a
parse error, a duplicate or a grab another client holds (BadAccess)
ends the master (`phase = "exit"`), as `bind_hotkeys` does. Once bound,
`Press` and `Release` are `handle_event`'s KeyPress and KeyRelease
branches, with the X server's semantics as the environment: a passive
grab delivers a press only for an exact keycode and state, stays active
until that key is released, and with a remote focused the whole keyboard
is grabbed. `rheld` is what the focused remote has been told is pressed.

### `Selection.tla` — the X selections (MC config `MC_Selection.cfg`)

The master's side of PRIMARY and CLIPBOARD, with X server timestamps,
since the code compares them. Variables: `clipboard_text`,
`xselection_owned_since` and `last_xevent_time` are the statics of x11.c;
`owner`, `changed` (last-change time) and `clock` are the server's;
`xq` is the master's X event queue (input, SelectionClear,
SelectionRequest, SelectionNotify records, each with its time); `prop` is
the `et_selection_data` property on `xwin`; `oreq` are conversions
another owner has yet to answer; `pc` is where the master is (idle,
about to call `get_clipboard_text`, or in its wait loop); `content` is a
ghost: the text a requestor of each selection is owed.

Master actions: `SetClipboardText` (the loop over `clipboard_xatoms` with
its early return; `XSetSelectionOwner` with `last_xevent_time` is ignored
by the server when older than the selection's last change, and
CurrentTime means the server's time), `TransferClipboard`,
`GetClipboardText` (the shortcut, or `XConvertSelection` routed by the
server: to the master itself, to another client, or an immediate
SelectionNotify None), `ProcessEvent` (`process_events`) and
`WaitSelection` (one pass of the wait loop: a SelectionNotify ends it and
reads and deletes the property; any other event goes to `handle_event`,
after which the 100 ms may be over). `HandleEvent` and
`HandleSelectionRequest` are the handlers. Environment actions: `Tick`,
`UserInput`, `OtherTakes` (another client takes a selection; the server
sends the master SelectionClear if it owned it), `ClientRequest`
(another client asks the master for a selection it owns) and
`OtherReply`.

## Runs

| Run | Config | Expect | What it shows |
|---|---|---|---|
| master_core | `MC_Master.cfg` | pass (≈1.2M states, ~1.5 min) | The focus, grab and modifier invariants hold (the focused remote's modifiers match the keyboard once the X queue is empty), and the lifecycle refines `ConnLifecycle`. This holds under failures, reconnects, RECONNECT and DIM fades, with no channel reaching its quota and one X event pending at a time. |
| master_focusfail | `MC_Master_focusfail.cfg` | violation | `FocusedConnected`: a full channel on the switch target leaves the focus on a failed remote. |
| master_grab | `MC_Master_grab.cfg` | violation | `RemoteFocusGrabbed`: `grab_inputs` fails (another client holds a grab) and `focus_node` focuses the remote anyway. |
| master_clipnull | `MC_Master_clipnull.cfg` | violation | `NoNullDeref`: SETCLIPBOARD enqueues its reply to a NULL `focused_remote`. |
| hotkeys | `MC_Hotkeys.cfg` | pass (≈2k states) | Every outcome of `bind_hotkey` is reached (success, parse errors, duplicate, BadAccess). Once bound, every passive grab is one `find_hotkey` matches (`GrabsAreHotkeys`), and pressing a bound combination fires its hotkey under every CapsLock/NumLock/ScrollLock state, with the master or a remote focused (`HotkeyAlwaysFires`), and no other combination fires one (`NoSpuriousHotkey`). |
| hotkeys_release | `MC_Hotkeys_release.cfg` | violation | `FocusedKeysReleased`: a key forwarded to the remote is never released there when its release matches a hotkey. |
| edge_multitap | `MC_EdgeDetect.cfg` | pass | `MultiTapMatchesReference`: the ring look-back fires exactly on Num taps in the window, with EDGEMASKCHANGE messages driving it. |
| loop_timing | `MC_EventLoop.cfg` | pass | Under FLASH: every due call and message is flushed before select (`DueMessagesFlushed`), select never sleeps past a deadline (`SelectWakesForDeadlines`), the backoff matches the spec (`BackoffMatchesReference`), and under `FairSpec` every FAILED remote is retried once input stops (`FailedRetried`). |
| loop_dim_underflow | `MC_EventLoop_dim.cfg` | violation | Under DIM, a stale past-dated fade on a FAILED remote makes `get_select_timeout` wrap, and select blocks while reconnects are due. |
| selection | `MC_Selection.cfg` | pass (≈415k states, ~15 s) | With other clients taking and requesting the selections, ownership refused on stale timestamps and waits timing out: `get_clipboard_text`'s shortcut is taken only while the master owns PRIMARY, unless a SelectionClear is still unread (`FastPathOwns`), and every wait that no other client must answer ends (`WaitEnds`). |
| selection_lost | `MC_Selection_lost.cfg` | violation | `ClipboardNotLost`: another client taking PRIMARY makes the master drop the text it still owns CLIPBOARD for. |
| fdmon | `MC_X11Loop.cfg` | pass (≈373k states, ~45 s) | Callbacks that register, unregister and re-monitor fds during the pass never cause a use after free (`NoUseAfterFree`), a broken list (`ListWellFormed`), a wrong refcount (`RefcountMatches`) or a callback of an unregistered fd (`NoCallbackAfterUnregister`); every pass ends (`PassCompletes`); and the loop refines `FdSet` (`FdSetRefinement`). Scheduled calls run in calltime order, FIFO among equal calltimes (`CallsRunInOrder`), and each eventually runs when no fd becomes ready (`CallsEventuallyRun`). |

Every property of a passing run has a mutant in `PROJECT.json`: a
plausible bug in the mapped code that TLC finds.

### Findings

1. **select timeout wrap-around** (loop_dim_underflow).
   `disconnect_remote` drops the scheduled messages and only then calls
   `focus_master`, whose DIM fade schedules new ones on the failing remote
   (spec 4.3 says failure drops them). `get_select_timeout` considers them
   when the remote's reconnect time is not the earliest deadline. Once
   past, `next - now` wraps to nearly 2^64 µs, and select waits for input
   instead of the deadline.
2. **Focus on a failed remote** (master_focusfail). An enqueue failure on
   the target during `transfer_*` fails it, and `focus_node` still
   assigns it.
3. **Switch without a grab** (master_grab). `focus_node` ignores
   `grab_inputs`' result (part_000:636). When another client holds the
   keyboard or pointer, the remote is focused while keys still go to the
   local client.
4. **NULL dereference in SETCLIPBOARD** (master_clipnull). If
   `set_clipboard_text` could not take the selection, the reply's
   `get_clipboard_text` waits and may run a switch-to-master hotkey;
   `enqueue_message(focused_remote, ...)` then gets NULL (part_000:926).
5. **Key stuck on the remote** (hotkeys_release). `handle_event` drops a
   KeyRelease that matches a hotkey with the modifiers held at the
   release. A key pressed without them was forwarded; after the user adds
   the modifiers, its release is swallowed and the key stays down on the
   remote.
6. **Lost clipboard** (selection_lost). `set_clipboard_text` takes PRIMARY
   and CLIPBOARD for one text, but a SelectionClear for either frees it
   (x11.c:985). After the user selects text in a local window, the master
   still owns CLIPBOARD and refuses every request for it. A SelectionClear
   still queued when the master takes the selections again has the same
   effect.

More defects are reachable in the model, with a constant changed, and
are kept out of the run list to keep it to one run per question. Each of
7–11 reproduces with `MC_Master.cfg` or `MC_EdgeDetect.cfg` and the change
named, with the property as the only INVARIANT or PROPERTY. 12 reproduces
with `MC_Hotkeys.cfg`, and 13 with `MC_X11Loop.cfg` and `SF(Tick)` dropped:

7. **Lost grab through a nested failure** (`QuotaReachable = TRUE`,
   `FocusHint = "NONE"`, `RemoteFocusGrabbed`). A full channel on the
   remote being left runs a nested `focus_master` that ungrabs; the outer
   switch focuses the new remote with no grab.
8. **Keys dropped during the selection wait** (`KeysDuringWait = TRUE`,
   `FocusHint = "NONE"`, `FocusedModifiersMatch`). `get_clipboard_text`
   handles key events while `focused_remote` still names the node being
   left, so they go nowhere; `transfer_modifiers` then sends a snapshot
   from before the wait.
9. **DIM fade after disconnect** (`NoScheduledWhileDown`, as is): the
   cause of finding 1, seen in Master.
10. **Edge history outlives a reconnect** (EdgeDetect,
    `NoEdgeEventIgnored`): the new remote's first ARRIVE equals the stale
    `last_evtype` and is dropped.
11. `do_hotkey`'s modifier snapshot (`XQueryKeymap`) can run ahead of a
    queued release, which x11.c's comment calls "Possibly racy" (TLC
    finds `NoStuckModifiers` violated with `MaxXEvents = 2`).

12. **A lock keysym missing from the keymap turns Shift into a lock**
    (MC_Hotkeys.cfg with `ScrollLockKey = 0`, `NoSpuriousHotkey`).
    `XKeysymToKeycode` returns 0 for a keysym the keymap lacks, and
    `get_mod_mask` then matches the first empty slot of the modifier map.
    On the pc105 map that slot is in Shift's row, so Shift is dropped from
    `relevant_modmask`. Holding control+shift and pressing Right fires the
    control+Right hotkey.
13. **A call scheduled by a fn runs in the same pass** (X11Loop). Spec
    4.1 says calls a callback schedules are processed in the next pass.
    x11.c's `run_scheduled_calls` re-reads the head after each fn, so a
    call scheduled with delay 0 in the same microsecond runs at once. A fn
    that reschedules itself that way keeps the loop in
    `run_scheduled_calls` until the clock ticks. With `SF(Tick)` removed,
    TLC finds `CallsEventuallyRun` violated that way.

The hazard list in `PROJECT.json` also names two cases the runs leave
out: a hotkey string of modifiers alone binds AnyKey, after which
`GrabsAreHotkeys` fails; and a late SelectionNotify of a timed-out wait is
taken as the answer to the next `get_clipboard_text`.

## Bounds and why they suffice

- Two remotes plus the master, and one modifier. The neighbor graph is a
  chain master ↔ r1 ↔ r2. That is enough for a switch between two remotes,
  a failure of the focused and of the unfocused remote, and a null switch.
- `MaxAttempts = 1` (Master) and `2` (EventLoop) reach PERMFAILED and
  RECONNECT. The real value 10 is used in the pure backoff check
  (`BuildAttempts`).
- `Backlog = 4 > 2 + |Mods|`. A focused remote's disconnect needs that
  many slots. A smaller quota makes `fail_remote` recurse without end.
  master_focusfail sets `QuotaReachable` to let channels fill.
- `FadeSteps = 1` (Master) gives one scheduled message per fade. With
  `FadeSteps = 2, Duration = 2` (EventLoop), a fade started in the same
  tick as another overlaps it, so an out-of-order insertion is observable.
  `MaxSched = 4` allows two overlapping fades.
- `Unit = 2` ticks, one tick being a quarter of a second. The reconnect
  interval is then not always shorter than a fade, which the wrap-around
  needs.
- EdgeDetect: `HistLen = 6, Num = 3, Window = 4`, as the spec
  recommends. The ring wraps within a few taps.
- Hotkeys: four keycodes (a, Right, Shift_L, Control_L), a keysym
  without a keycode and a bogus name; a pc105 modifier map (`max_keypermod`
  4, NumLock on `mod2`, ScrollLock added on `mod3`); seven hotkey configurations, one per
  outcome of `bind_hotkey`. Two hotkeys that share the control modifier
  let a release match one while its press matched nothing.
- Selection: two texts, server time up to 2, two events queued by the
  other clients and two set/get calls. Time 2 lets another client take a
  selection after the master's last event, so `XSetSelectionOwner` is
  refused; two calls let a timed-out wait be followed by another.
- X11Loop: two addresses, two call ids, and delays of 0 or 1 µs. A pass
  over both entries covers a callback that unregisters the current entry
  or its successor. Registering during a pass covers reuse of a freed
  address. Every fdmon mutant is still caught at this size. A third address
  multiplies the timer state beyond the time budget. Two calls with delay
  0 give equal calltimes. Delay 1 gives a select woken by a timeout, and a
  tick inside a fn gives a call that waits for the next pass.

## Fairness

- `EventLoop.FairSpec`: `WF(LoopTop)` and `WF(Timeout)`, because `main`
  runs `handle_fds` in `for (;;)` and select returns when its timeout
  expires; `SF(TimeoutBy(1))`, because the clock keeps running, so a
  select that keeps timing out eventually sees a later time. Events from
  remotes and keys get no fairness. `FailedRetried` is stated for runs in
  which fd events eventually stop (`<>[][~FdEvent]_vars`), because a storm
  of input can legitimately keep the loop busy.
- `X11Loop.Spec`: `WF(LoopStep)`. The pass is straight-line code on one
  thread, so once started it keeps running. `WF(TimerStep)` covers
  `run_event_loop`'s `for (;;)`, fns that return, and a select whose
  timeout expires. `SF(Tick)` holds because the monotonic clock does not
  stand still, so a fn that is called again and again eventually spans a
  microsecond. API calls, schedules and fd readiness get no fairness.
  `CallsEventuallyRun` is stated for runs in which select eventually
  only times out.
- `Selection.Spec`: WF on the master's steps (`GetClipboardText`,
  `ProcessEvent`, `WaitSelection`), because the master runs them whenever it
  can. The server time, input and the other clients' takes, requests and
  replies (`OtherReply`) get none. ICCCM asks an owner to answer, but
  x11.c does not rely on it. `WaitEnds` is therefore stated only for waits
  that no other client must answer: PRIMARY has no owner, or the master
  owns it and answers itself from inside the wait. For a wait on another
  owner, TLC finds `pc = "wait" ~> pc = "idle"` violated. A silent owner
  and no other X event leave `get_xevent` blocked, and the 100 ms limit
  is never tested (hazard x11.c:1050). That is what the code does.
- Master, Hotkeys and EdgeDetect are checked for safety only. The hotkeys
  run has `CHECK_DEADLOCK FALSE`: a configuration that fails to bind ends
  the master (`bind_hotkeys` exits), which is a final state.

## Plan (remaining work)

1. Compose `EdgeDetect` with `Master`: `check_edgeevents` over all
   directions and `focus_neighbor` from an edge.
2. Compose `EventLoop` with `Master` so the DIM schedule and the timeout
   come from one state.
3. Compose `Selection` with `Master`'s switch, so that the clipboard
   relay across switches (GETCLIPBOARD from the remote being left,
   SETCLIPBOARD to the new one) carries the actual text, and a property
   on the text `get_clipboard_text` returns covers the late-reply hazard.

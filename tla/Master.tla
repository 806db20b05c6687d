------------------------------- MODULE Master -------------------------------
(***************************************************************************)
(* The master's control plane of enthrall (src/unnamed/part_000, main.c): *)
(* the per-remote connection lifecycle, the bounded outbound message      *)
(* channel, the focus state machine with its modifier, clipboard and      *)
(* brightness side effects, and the hotkey / key-event path of the X11    *)
(* driver (src/x11.c) that feeds it.                                      *)
(*                                                                         *)
(* The code is single-threaded: every action below is one call made by  *)
(* the event loop (handle_fds) and runs to completion.  The handlers call *)
(* each other reentrantly: enqueue_message may call fail_remote, which    *)
(* calls disconnect_remote, which calls focus_master, which calls         *)
(* focus_node, which calls enqueue_message again.  That chain is modelled *)
(* as it is written, by operators that take the master's state as a       *)
(* record and return the state after the call.                             *)
(***************************************************************************)
EXTENDS Naturals, Sequences, FiniteSets, SequencesExt

CONSTANTS
  Remotes,        \* the configured remotes (model values)
  MASTER,         \* the master node: focused_remote == NULL
  NONE,           \* an empty neighbor slot (NT_NONE)
  Mods,           \* modifier keys the user can hold
  Dirs,           \* directions used by SWITCH hotkeys
  Neighbor,       \* [Nodes \X Dirs -> Nodes \cup {NONE}], the config's graph
  MaxAttempts,    \* MAX_RECONNECT_ATTEMPTS
  Backlog,        \* messages an outbound channel holds before enqueue fails
  FocusHint,      \* config->focus_hint.type: "NONE", "DIM", "FLASH"
  FadeSteps,      \* config->focus_hint.fade_steps
  ShowNull,       \* config->show_nullswitch: "NO", "YES", "HOTKEYONLY"
  MaxXEvents,     \* X events that can be pending before the loop drains them
  MaxSched,       \* bound on scheduled messages per remote
  QuotaReachable, \* can a remote stall long enough to fill its channel?
  KeysDuringWait, \* can the user change modifiers while the master waits
                  \* for a SelectionNotify (get_clipboard_text)?
  OwnershipCanFail, \* can XSetSelectionOwner be refused (set_clipboard_text)?
  GrabCanFail     \* can XGrabKeyboard/XGrabPointer fail (grab_inputs)?

Nodes == Remotes \cup {MASTER}

ASSUME MASTER \notin Remotes /\ NONE \notin Nodes
ASSUME Neighbor \in [Nodes \X Dirs -> Nodes \cup {NONE}]
ASSUME MaxAttempts \in Nat /\ FadeSteps \in Nat \ {0}
ASSUME FocusHint \in {"NONE", "DIM", "FLASH"}
ASSUME ShowNull \in {"NO", "YES", "HOTKEYONLY"}
\* A disconnect of the focused remote enqueues a brightness message, a
\* GETCLIPBOARD and one release per modifier into its freshly closed
\* channel; a smaller quota would make fail_remote recurse without end.
ASSUME Backlog \in Nat /\ Backlog > 2 + Cardinality(Mods)
ASSUME MaxXEvents \in Nat \ {0} /\ MaxSched \in Nat
ASSUME {QuotaReachable, KeysDuringWait, OwnershipCanFail, GrabCanFail} \subseteq BOOLEAN

VARIABLES
  state,              \* rmt->state
  failcount,          \* rmt->failcount
  outq,               \* rmt->msgchan outbound messages, oldest first
  scheduled_messages, \* number of future-dated SETBRIGHTNESS per remote
  focused_remote,     \* the focused node
  grabbed,            \* the X keyboard+pointer grab is held
  rheld,              \* modifiers the remote's session has seen pressed
  keymap,             \* modifiers physically down (XQueryKeymap)
  xevents,            \* X events queued for process_events()
  xowned,             \* xselection_owned_since != 0 && clipboard_text
  segv                \* the master dereferenced a NULL remote

vars == <<state, failcount, outq, scheduled_messages, focused_remote,
          grabbed, rheld, keymap, xevents, xowned, segv>>

Live == {"SETTINGUP", "CONNECTED"}
States == Live \cup {"FAILED", "PERMFAILED"}

(***************************************************************************)
(* Messages.  Only key events carry data the properties tell apart.       *)
(***************************************************************************)
NoKey == NONE
Msg(t) == [type |-> t, key |-> NoKey, pr |-> NoKey]
KeyMsg(k, pr) == [type |-> "KEYEVENT", key |-> k, pr |-> pr]
MsgTypes == {"SETUP", "KEYEVENT", "GETCLIPBOARD", "SETCLIPBOARD",
             "SETBRIGHTNESS"}
Messages == {Msg(t) : t \in MsgTypes \ {"KEYEVENT"}}
            \cup {KeyMsg(k, pr) : k \in Mods, pr \in {"PRESS", "RELEASE"}}

\* The modifiers a remote holds after it has replayed the messages ms.
ApplyKeys(held, ms) ==
  FoldLeft(LAMBDA h, m :
             IF m.type # "KEYEVENT" THEN h
             ELSE IF m.pr = "PRESS" THEN h \cup {m.key} ELSE h \ {m.key},
           held, ms)

\* Hotkey actions (struct action) and X events.
Actions == [type : {"SWITCHTO"}, node : Nodes]
           \cup [type : {"SWITCH"}, dir : Dirs]
           \cup [type : {"RECONNECT"}]
XEvents == [kind : {"key"}, key : Mods, pr : {"PRESS", "RELEASE"}]
           \cup [kind : {"hotkey"}, act : Actions]
           \cup [kind : {"selclear"}]
KeyEvent(k, pr) == [kind |-> "key", key |-> k, pr |-> pr]

\* get_current_modifiers() / get_hotkey_modifiers(): the modifier keys that
\* XQueryKeymap reports down, i.e. the physical keymap at the time of the
\* call, not the keys of the events still queued.
CurrentModifiers(s) == s.keymap

(***************************************************************************)
(* The master's state as a record, for the reentrant handler operators.   *)
(* pend is the X event queue as the nested event loops see it; flip the   *)
(* modifiers the user toggles during the next wait for a SelectionNotify; *)
(* grabfail whether grab_inputs() fails in this step (another client      *)
(* holds a grab).                                                          *)
(***************************************************************************)
Snap == [state |-> state, failcount |-> failcount, outq |-> outq,
         sched |-> scheduled_messages, focused |-> focused_remote,
         grabbed |-> grabbed, keymap |-> keymap, pend |-> xevents,
         owns |-> xowned, flip |-> {}, grabfail |-> FALSE, segv |-> segv,
         overflowed |-> FALSE]

Commit(s) ==
  /\ state' = s.state
  /\ failcount' = s.failcount
  /\ outq' = s.outq
  /\ scheduled_messages' = s.sched
  /\ focused_remote' = s.focused
  /\ grabbed' = s.grabbed
  /\ keymap' = s.keymap
  /\ xevents' = s.pend
  /\ xowned' = s.owns
  /\ segv' = s.segv

RECURSIVE DisconnectRemote(_, _), FailRemote(_, _), EnqueueMessage(_, _, _),
          EnqueueAll(_, _, _), TransitionBrightness(_, _),
          IndicateSwitch(_, _, _), TransferClipboard(_, _, _),
          TransferModifiers(_, _, _, _), FocusNode(_, _, _, _),
          GetClipboardText(_), Drain(_), HandleXEvent(_, _), ActionCb(_, _, _)

\* Mutant: disconnect_remote() without its focus_master() call.
DisconnectRemote_keepFocus(s, r) == [s EXCEPT !.outq[r] = <<>>, !.sched[r] = 0]

\* disconnect_remote(): close the channel, drop the scheduled messages,
\* kill the shell; if the remote was focused, focus_master().
DisconnectRemote(s, r) ==
  LET c == [s EXCEPT !.outq[r] = <<>>, !.sched[r] = 0]
  IN IF c.focused = r THEN FocusNode(c, MASTER, CurrentModifiers(c), FALSE) ELSE c

\* fail_remote(): disconnect, count the failure, FAILED or PERMFAILED.
\* The state is assigned only after disconnect_remote() has returned.
FailRemote(s, r) ==
  LET d == DisconnectRemote(s, r)
      fc == d.failcount[r] + 1
  IN [d EXCEPT !.failcount[r] = fc,
               !.state[r] = IF fc > MaxAttempts THEN "PERMFAILED"
                            ELSE "FAILED"]

\* Mutant: the channel quota is never enforced.
EnqueueMessage_noQuota(s, r, m) == [s EXCEPT !.outq[r] = Append(@, m)]

\* enqueue_message(): mc_enqueue_message fails when the backlog is full.
EnqueueMessage(s, r, m) ==
  IF Len(s.outq[r]) >= Backlog
  THEN FailRemote([s EXCEPT !.overflowed = TRUE], r)
  ELSE [s EXCEPT !.outq[r] = Append(@, m)]

EnqueueAll(s, r, ms) ==
  FoldLeft(LAMBDA t, m : EnqueueMessage(t, r, m), s, ms)

\* transition_brightness(): set the level now, then schedule FadeSteps
\* changes.  For the master these are local gamma calls (schedule_call),
\* which leave the state modelled here alone.
TransitionBrightness(s, node) ==
  IF node = MASTER THEN s
  ELSE LET e == EnqueueMessage(s, node, Msg("SETBRIGHTNESS"))
       IN [e EXCEPT !.sched[node] = @ + FadeSteps]

\* indicate_switch(from, to)
IndicateSwitch(s, from, to) ==
  CASE FocusHint = "DIM" ->
         TransitionBrightness(
           IF from # to THEN TransitionBrightness(s, from) ELSE s, to)
    [] FocusHint = "FLASH" -> TransitionBrightness(s, to)
    [] OTHER -> s

\* The X events of the modifiers in fl changing state, given the keymap km
\* before the change.
FlipEvents(fl, km) ==
  LET ks == SetToSeq(fl)
  IN [i \in DOMAIN ks |-> KeyEvent(ks[i], IF ks[i] \in km THEN "RELEASE"
                                                         ELSE "PRESS")]

\* get_clipboard_text(): when the master (thinks it) owns the selection,
\* its own copy is used.  Otherwise it asks for a conversion and reads X
\* events until the SelectionNotify, handing every other event to
\* handle_event() on the way.  The reply comes after every event already
\* queued and after those of keys the user changes meanwhile (which reach
\* the client only under the grab); the wait ends when it arrives.
GetClipboardText(s) ==
  IF s.owns THEN s
  ELSE Drain([s EXCEPT !.keymap = (@ \ s.flip) \cup (s.flip \ @),
                       !.pend = @ \o (IF s.grabbed THEN FlipEvents(s.flip, s.keymap)
                                               ELSE <<>>),
                       !.flip = {}])

\* transfer_clipboard(from, to)
TransferClipboard(s, from, to) ==
  CASE from # MASTER -> EnqueueMessage(s, from, Msg("GETCLIPBOARD"))
    [] to # MASTER -> EnqueueMessage(GetClipboardText(s), to, Msg("SETCLIPBOARD"))
    [] OTHER -> s

\* Mutant: transfer_modifiers() forgets the releases to the remote left.
TransferModifiers_noRelease(s, from, to, mods) ==
  LET ks == SetToSeq(mods)
      prs == [i \in DOMAIN ks |-> KeyMsg(ks[i], "PRESS")]
  IN IF to # MASTER THEN EnqueueAll(s, to, prs) ELSE s

\* Mutant: transfer_modifiers() forgets the presses to the new remote.
TransferModifiers_noPress(s, from, to, mods) ==
  LET ks == SetToSeq(mods)
      rel == [i \in DOMAIN ks |-> KeyMsg(ks[i], "RELEASE")]
  IN IF from # MASTER THEN EnqueueAll(s, from, rel) ELSE s

\* transfer_modifiers(from, to, modkeys)
TransferModifiers(s, from, to, mods) ==
  LET ks == SetToSeq(mods)
      rel == [i \in DOMAIN ks |-> KeyMsg(ks[i], "RELEASE")]
      prs == [i \in DOMAIN ks |-> KeyMsg(ks[i], "PRESS")]
      s1 == IF from # MASTER THEN EnqueueAll(s, from, rel) ELSE s
  IN IF to # MASTER THEN EnqueueAll(s1, to, prs) ELSE s1

\* Mutant: focus_node() releases the grabs whenever it leaves a remote
\* and grabs only when it leaves the master.
FocusNode_ungrabOnLeave(s, n, mods, fromHotkey) ==
  IF n \in Remotes /\ s.state[n] # "CONNECTED" THEN s
  ELSE
    LET to == IF n = NONE THEN s.focused ELSE n
        s1 == IF \/ to # s.focused
                 \/ ShowNull = "YES"
                 \/ ShowNull = "HOTKEYONLY" /\ fromHotkey
              THEN IndicateSwitch(s, s.focused, to) ELSE s
        s2 == CASE s1.focused # MASTER -> [s1 EXCEPT !.grabbed = FALSE]
                [] to # MASTER -> [s1 EXCEPT !.grabbed = ~s1.grabfail]
                [] OTHER -> s1
        s3 == TransferClipboard(s2, s2.focused, to)
        s4 == TransferModifiers(s3, s3.focused, to, mods)
    IN IF to = s1.focused THEN s1 ELSE [s4 EXCEPT !.focused = to]

\* Mutant: focus_node() without ungrab_inputs() on the way to the master.
FocusNode_noUngrab(s, n, mods, fromHotkey) ==
  IF n \in Remotes /\ s.state[n] # "CONNECTED" THEN s
  ELSE
    LET to == IF n = NONE THEN s.focused ELSE n
        s1 == IF \/ to # s.focused
                 \/ ShowNull = "YES"
                 \/ ShowNull = "HOTKEYONLY" /\ fromHotkey
              THEN IndicateSwitch(s, s.focused, to) ELSE s
        s2 == IF s1.focused = MASTER /\ to # MASTER
              THEN [s1 EXCEPT !.grabbed = ~s1.grabfail] ELSE s1
        s3 == TransferClipboard(s2, s2.focused, to)
        s4 == TransferModifiers(s3, s3.focused, to, mods)
    IN IF to = s1.focused THEN s1 ELSE [s4 EXCEPT !.focused = to]

\* focus_node(n, modkeys, from_hotkey).  Every read of focused_remote
\* after indicate_switch() sees what the nested calls left there.  The
\* result of grab_inputs() is not looked at: a failed grab leaves none.
FocusNode(s, n, mods, fromHotkey) ==
  IF n \in Remotes /\ s.state[n] # "CONNECTED" THEN s
  ELSE
    LET to == IF n = NONE THEN s.focused ELSE n
        s1 == IF \/ to # s.focused
                 \/ ShowNull = "YES"
                 \/ ShowNull = "HOTKEYONLY" /\ fromHotkey
              THEN IndicateSwitch(s, s.focused, to) ELSE s
        s2 == CASE s1.focused # MASTER /\ to = MASTER ->
                     [s1 EXCEPT !.grabbed = FALSE]
                [] s1.focused = MASTER /\ to # MASTER ->
                     [s1 EXCEPT !.grabbed = ~s1.grabfail]
                [] OTHER -> s1
        s3 == TransferClipboard(s2, s2.focused, to)
        s4 == TransferModifiers(s3, s3.focused, to, mods)
    IN IF to = s1.focused THEN s1 ELSE [s4 EXCEPT !.focused = to]

\* focus_neighbor(dir, ...): the neighbor of the focused node.
FocusNeighbor(s, dir, mods, fromHotkey) ==
  FocusNode(s, Neighbor[s.focused, dir], mods, fromHotkey)

\* action_cb() for SWITCH, SWITCHTO and RECONNECT.
ActionCb(s, a, mods) ==
  CASE a.type = "SWITCH" -> FocusNeighbor(s, a.dir, mods, TRUE)
    [] a.type = "SWITCHTO" -> FocusNode(s, a.node, mods, TRUE)
    [] a.type = "RECONNECT" ->
         [s EXCEPT !.state = [r \in Remotes |->
                                IF @[r] = "PERMFAILED" THEN "FAILED" ELSE @[r]],
                   !.failcount = [r \in Remotes |-> 0]]

\* do_hotkey(): snapshot the keymap, then run the hotkey's callback.
DoHotkey(s, a) == ActionCb(s, a, CurrentModifiers(s))

\* handle_event() for a key event, a hotkey press or a SelectionClear
\* (x11.c); a key event is forwarded to the focused remote, if there is
\* one (handle_keyevent).  Losing the selection drops the master's copy.
HandleXEvent(s, e) ==
  CASE e.kind = "hotkey" -> DoHotkey(s, e.act)
    [] e.kind = "selclear" -> [s EXCEPT !.owns = FALSE]
    [] s.focused = MASTER -> s
    [] OTHER -> EnqueueMessage(s, s.focused, KeyMsg(e.key, e.pr))

\* process_events(), and the loop of get_clipboard_text(): handle the
\* queued events in order, each with what the previous ones left.
Drain(s) ==
  IF s.pend = <<>> THEN s
  ELSE Drain(HandleXEvent([s EXCEPT !.pend = Tail(@)], Head(s.pend)))

(***************************************************************************)
(* Bounds: the scheduled-message counts stay within MaxSched; unless      *)
(* QuotaReachable, no step is one in which mc_enqueue_message refused a   *)
(* message (the remotes read fast enough that the quota is never hit).    *)
(***************************************************************************)
WithinBounds(s) ==
  /\ \A r \in Remotes : s.sched[r] <= MaxSched
  /\ QuotaReachable \/ ~s.overflowed

Step(s) == WithinBounds(s) /\ Commit(s)

(***************************************************************************)
(* Initial state: main() has called setup_remote() on every remote.       *)
(***************************************************************************)
Init ==
  /\ state = [r \in Remotes |-> "SETTINGUP"]
  /\ failcount = [r \in Remotes |-> 0]
  /\ outq = [r \in Remotes |-> <<Msg("SETUP")>>]
  /\ scheduled_messages = [r \in Remotes |-> 0]
  /\ focused_remote = MASTER
  /\ grabbed = FALSE
  /\ rheld = [r \in Remotes |-> {}]
  /\ keymap \in SUBSET Mods
  /\ xevents = <<>>
  /\ xowned = FALSE
  /\ segv = FALSE

(***************************************************************************)
(* Event-loop steps for one remote (handle_fds).                          *)
(***************************************************************************)

\* A FAILED remote whose next_reconnect_time has passed: setup_remote()
\* opens a fresh channel, starts a new shell and sends SETUP.
SetupRemote(r) ==
  /\ state[r] = "FAILED"
  /\ state' = [state EXCEPT ![r] = "SETTINGUP"]
  /\ outq' = [outq EXCEPT ![r] = <<Msg("SETUP")>>]
  /\ rheld' = [rheld EXCEPT ![r] = {}]
  /\ UNCHANGED <<failcount, scheduled_messages, focused_remote, grabbed,
                 keymap, xevents, xowned, segv>>

\* enqueue_scheduled_messages(): the k due messages move, oldest first,
\* to the channel; a failed enqueue empties the schedule and stops it.
EnqueueScheduled(r) ==
  /\ state[r] \in Live
  /\ scheduled_messages[r] > 0
  /\ \E k \in 1..scheduled_messages[r] :
       LET due == [i \in 1..k |-> Msg("SETBRIGHTNESS")]
       IN Step(FoldLeft(LAMBDA t, m :
                          IF t.sched[r] = 0 THEN t
                          ELSE EnqueueMessage([t EXCEPT !.sched[r] = @ - 1],
                                              r, m),
                        Snap, due))
  /\ UNCHANGED rheld

\* write_rmtdata(): the head message reaches the remote, which replays it.
WriteRmtdata(r) ==
  /\ state[r] \in Live
  /\ outq[r] # <<>>
  /\ rheld' = [rheld EXCEPT ![r] = ApplyKeys(@, <<Head(outq[r])>>)]
  /\ outq' = [outq EXCEPT ![r] = Tail(@)]
  /\ UNCHANGED <<state, failcount, scheduled_messages, focused_remote,
                 grabbed, keymap, xevents, xowned, segv>>

\* Mutant: READY does not reset the failure count.
ReadReady_keepCount(r) ==
  /\ state[r] \in Live
  /\ Step(IF state[r] # "SETTINGUP" THEN FailRemote(Snap, r)
          ELSE LET c == [Snap EXCEPT !.state[r] = "CONNECTED"]
               IN IF FocusHint = "DIM" THEN TransitionBrightness(c, r) ELSE c)
  /\ UNCHANGED rheld

\* read_rmtdata() -> handle_message(READY).
ReadReady(r) ==
  /\ state[r] \in Live
  /\ Step(IF state[r] # "SETTINGUP" THEN FailRemote(Snap, r)
          ELSE LET c == [Snap EXCEPT !.state[r] = "CONNECTED",
                                     !.failcount[r] = 0]
               IN IF FocusHint = "DIM" THEN TransitionBrightness(c, r) ELSE c)
  /\ UNCHANGED rheld

\* The outcomes of XSetSelectionOwner, and the modifier changes the user
\* can make during one wait for a SelectionNotify.
OwnershipResults == IF OwnershipCanFail THEN BOOLEAN ELSE {TRUE}
WaitFlips == IF KeysDuringWait THEN SUBSET Mods ELSE {{}}
GrabResults == IF GrabCanFail THEN BOOLEAN ELSE {FALSE}

\* read_rmtdata() -> handle_message(SETCLIPBOARD): set_clipboard_from_buf()
\* takes the selection (set_clipboard_text(); a refused ownership leaves
\* xselection_owned_since as it was); if a remote has the focus, the text
\* is read back with get_clipboard_text() and sent to focused_remote as it
\* is after that call.  From a remote that is not CONNECTED it is ignored.
ReadSetClipboard(r) ==
  /\ state[r] \in Live
  /\ \E ok \in OwnershipResults, fl \in WaitFlips :
       Step(IF state[r] # "CONNECTED" THEN Snap
            ELSE LET c == [Snap EXCEPT !.owns = @ \/ ok, !.flip = fl]
                     g == GetClipboardText(c)
                 IN CASE c.focused = MASTER -> c
                      [] g.focused = MASTER -> [g EXCEPT !.segv = TRUE]
                      [] OTHER -> EnqueueMessage(g, g.focused, Msg("SETCLIPBOARD")))
  /\ UNCHANGED rheld

\* fail_remote() from the loop: read_rmtdata() when recv_message() < 0 (EOF,
\* framing error) or handle_message() gets an unexpected type or an invalid
\* edge mask; write_rmtdata() when send_message() < 0.
IOFailed(r) ==
  /\ state[r] \in Live
  /\ Step(FailRemote(Snap, r))
  /\ UNCHANGED rheld

(***************************************************************************)
(* The user and the X server.  A key change reaches the client only while *)
(* the keyboard is grabbed; grabbed hotkeys always do.                    *)
(***************************************************************************)
KeyChange(k) ==
  /\ Len(xevents) < MaxXEvents
  /\ LET pr == IF k \in keymap THEN "RELEASE" ELSE "PRESS"
     IN /\ keymap' = IF pr = "PRESS" THEN keymap \cup {k} ELSE keymap \ {k}
        /\ xevents' = IF grabbed
                      THEN Append(xevents, [kind |-> "key", key |-> k, pr |-> pr])
                      ELSE xevents
  /\ UNCHANGED <<state, failcount, outq, scheduled_messages, focused_remote,
                 grabbed, rheld, xowned, segv>>

HotkeyPress(a) ==
  /\ Len(xevents) < MaxXEvents
  /\ xevents' = Append(xevents, [kind |-> "hotkey", act |-> a])
  /\ UNCHANGED <<state, failcount, outq, scheduled_messages, focused_remote,
                 grabbed, rheld, keymap, xowned, segv>>

\* Another X client takes the selection: the server sends SelectionClear.
SelectionTaken ==
  /\ xowned
  /\ Len(xevents) < MaxXEvents
  /\ xevents' = Append(xevents, [kind |-> "selclear"])
  /\ UNCHANGED <<state, failcount, outq, scheduled_messages, focused_remote,
                 grabbed, rheld, keymap, xowned, segv>>

\* process_events(): drain the queue; hotkeys read the keymap as it is now.
ProcessEvents ==
  /\ xevents # <<>>
  /\ \E fl \in WaitFlips, gf \in GrabResults :
       Step(Drain([Snap EXCEPT !.flip = fl, !.grabfail = gf]))
  /\ UNCHANGED rheld

Next ==
  \/ \E r \in Remotes :
       \/ SetupRemote(r) \/ EnqueueScheduled(r)
       \/ WriteRmtdata(r) \/ ReadReady(r) \/ ReadSetClipboard(r)
       \/ IOFailed(r)
  \/ \E k \in Mods : KeyChange(k)
  \/ \E a \in Actions : HotkeyPress(a)
  \/ SelectionTaken
  \/ ProcessEvents

Spec == Init /\ [][Next]_vars

(***************************************************************************)
(* Invariants and properties                                              *)
(***************************************************************************)
TypeOK ==
  /\ state \in [Remotes -> States]
  /\ failcount \in [Remotes -> 0..MaxAttempts + 2]
  /\ outq \in [Remotes -> BoundedSeq(Messages, Backlog)]
  /\ scheduled_messages \in [Remotes -> 0..MaxSched]
  /\ focused_remote \in Nodes
  /\ grabbed \in BOOLEAN
  /\ rheld \in [Remotes -> SUBSET Mods]
  /\ keymap \in SUBSET Mods
  /\ xevents \in BoundedSeq(XEvents, MaxXEvents)
  /\ xowned \in BOOLEAN
  /\ segv \in BOOLEAN

\* No stuck modifiers (transfer_modifiers): a live remote that does not
\* have the focus holds no modifier once it has replayed what is queued
\* for it, whatever failures and refocusing happened on the way.
NoStuckModifiers ==
  \A r \in Remotes :
    state[r] \in Live /\ r # focused_remote => ApplyKeys(rheld[r], outq[r]) = {}

\* focus_node(): while the master has the focus no X grab is held, also
\* after a failure inside a focus switch refocused the master.
MasterUngrabbed == focused_remote = MASTER => ~grabbed

\* Spec 3: while a remote has the focus the grabs are held.
RemoteFocusGrabbed == focused_remote # MASTER => grabbed

\* Spec 3: a focused remote is CONNECTED; focus_node() checks this before
\* switching, and disconnect_remote() moves the focus away on failure.
FocusedConnected == focused_remote # MASTER => state[focused_remote] = "CONNECTED"

\* Spec 4.3: fail_remote() drops the remote's scheduled messages, so a
\* remote that is not live has none waiting to be sent.
NoScheduledWhileDown ==
  \A r \in Remotes : state[r] \notin Live => scheduled_messages[r] = 0

\* The focused remote's modifiers follow the keyboard (transfer_modifiers,
\* handle_keyevent): once the X queue is drained and the remote has
\* replayed what is queued for it, it holds exactly the modifiers that are
\* physically down, also when hotkeys were handled inside the nested event
\* loop of get_clipboard_text().
FocusedModifiersMatch ==
  xevents = <<>> /\ focused_remote # MASTER
    => ApplyKeys(rheld[focused_remote], outq[focused_remote]) = keymap

\* handle_message(SETCLIPBOARD) never sends its reply to a NULL
\* focused_remote: the remote it checked before get_clipboard_text() is
\* still focused when the reply is enqueued.
NoNullDeref == ~segv

\* The connection lifecycle of every remote, as the handlers above drive
\* it, is one the abstract ConnLifecycle allows: no handler, nested call
\* or failure path moves a remote between states the spec does not link,
\* and the failure count is reset only by READY and RECONNECT.
Lifecycle == INSTANCE ConnLifecycle
LifecycleRefinement == Lifecycle!Spec
=============================================================================

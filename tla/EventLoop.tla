----------------------------- MODULE EventLoop ------------------------------
(***************************************************************************)
(* The timing side of the master's event loop (main.c: handle_fds,        *)
(* get_select_timeout, run_scheduled_calls, enqueue_scheduled_messages,   *)
(* schedule_call, schedule_message, fail_remote's backoff and the         *)
(* brightness fades of indicate_switch).                                  *)
(*                                                                         *)
(* Every deadline (a scheduled call, a scheduled message's send time, a   *)
(* FAILED remote's next_reconnect_time) is kept relative to the loop's    *)
(* now_us, in ticks; a deadline in the past is -1.  The tests the code    *)
(* makes (<= now, < now, < another deadline) give the same answers on     *)
(* these values, and the state space stays finite however long the loop  *)
(* runs.  Message contents, channels and quotas are left to Master.      *)
(***************************************************************************)
EXTENDS Naturals, Integers, Sequences, SequencesExt

CONSTANTS
  Remotes, MASTER,
  MaxAttempts,   \* MAX_RECONNECT_ATTEMPTS
  MaxInterval,   \* MAX_RECONNECT_INTERVAL, in units
  Unit,          \* RECONNECT_INTERVAL_UNIT, in ticks
  FocusHint,     \* "NONE", "DIM", "FLASH"
  Duration,      \* focus_hint.duration, in ticks
  FadeSteps,     \* focus_hint.fade_steps
  ShowNull,      \* show_nullswitch: "NO", "YES", "HOTKEYONLY"
  MaxSched,      \* bound on entries of one schedule
  BuildAttempts  \* MAX_RECONNECT_ATTEMPTS of the build, for the backoff check

ASSUME FadeSteps \in Nat \ {0} /\ Duration \in Nat /\ Unit \in Nat \ {0}

Nodes == Remotes \cup {MASTER}
Live == {"SETTINGUP", "CONNECTED"}

\* Mutant: the interval is not capped at MAX_RECONNECT_INTERVAL.
ReconnectInterval_noCap(fc) == 2^(IF fc - 1 > 63 THEN 63 ELSE fc - 1)

\* fail_remote(): min(2^(failcount-1), MAX_RECONNECT_INTERVAL), with the
\* shift clamped to 63 bits.
ReconnectInterval(fc) ==
  LET lshift == IF fc - 1 > 63 THEN 63 ELSE fc - 1
  IN IF 2^lshift > MaxInterval THEN MaxInterval ELSE 2^lshift

Horizon == Duration + ReconnectInterval(MaxAttempts) * Unit
\* maxwait_us of a past deadline: next_scheduled_event - now_us wraps to
\* nearly 2^64 us, later than every deadline the model holds; also the
\* "no timeout" of a NULL timeval.
Forever == Horizon + 1
Rel == -1..Horizon

VARIABLES pc, state, failcount, next_reconnect, sched, calls, focused, wait

vars == <<pc, state, failcount, next_reconnect, sched, calls, focused, wait>>

Snap == [state |-> state, fc |-> failcount, recon |-> next_reconnect,
         sched |-> sched, calls |-> calls, focused |-> focused]

Commit(s) ==
  /\ state' = s.state /\ failcount' = s.fc /\ next_reconnect' = s.recon
  /\ sched' = s.sched /\ calls' = s.calls /\ focused' = s.focused

\* get_microtime() moved on by d ticks.
Advance(s, d) ==
  LET sh(t) == IF t - d < 0 THEN -1 ELSE t - d
  IN [s EXCEPT !.recon = [r \in Remotes |-> sh(@[r])],
               !.sched = [r \in Remotes |-> [i \in DOMAIN @[r] |-> sh(@[r][i])]],
               !.calls = [i \in DOMAIN @ |-> sh(@[i])]]

\* Mutant: the new entry goes to the end of the list.
ScheduleInsert_append(q, t) == Append(q, t)

\* schedule_call() / schedule_message(): insert before the first entry
\* with a strictly later time, after every entry with an equal one.
ScheduleInsert(q, t) ==
  LET later == {i \in DOMAIN q : t < q[i]}
  IN InsertAt(q, IF later = {} THEN Len(q) + 1 ELSE Min(later), t)

\* run_scheduled_calls() / enqueue_scheduled_messages(): pop the head while
\* it is due.
RECURSIVE PopDue(_)
PopDue(q) == IF q # <<>> /\ Head(q) <= 0 THEN PopDue(Tail(q)) ELSE q

\* transition_brightness(): the level is set now; FadeSteps - 1 steps at
\* i * duration / steps (truncated) and the last at duration are scheduled.
TransitionBrightness(s, node) ==
  LET at == [i \in 1..FadeSteps |-> (i * Duration) \div FadeSteps]
      ins(q) == FoldLeft(ScheduleInsert, q, at)
  IN IF node = MASTER THEN [s EXCEPT !.calls = ins(@)]
     ELSE [s EXCEPT !.sched[node] = ins(@)]

IndicateSwitch(s, from, to) ==
  CASE FocusHint = "DIM" ->
         TransitionBrightness(
           IF from # to THEN TransitionBrightness(s, from) ELSE s, to)
    [] FocusHint = "FLASH" -> TransitionBrightness(s, to)
    [] OTHER -> s

\* focus_node(): the timing-relevant part (grabs, clipboard and modifiers
\* are in Master).
FocusNode(s, n, fromHotkey) ==
  IF n \in Remotes /\ s.state[n] # "CONNECTED" THEN s
  ELSE LET s1 == IF \/ n # s.focused \/ ShowNull = "YES"
                    \/ ShowNull = "HOTKEYONLY" /\ fromHotkey
                 THEN IndicateSwitch(s, s.focused, n) ELSE s
       IN [s1 EXCEPT !.focused = n]

\* fail_remote(): disconnect_remote() drops the scheduled messages and
\* focuses the master if r had the focus; then the count and the backoff.
FailRemote(s, r) ==
  LET c == [s EXCEPT !.sched[r] = <<>>]
      d == IF c.focused = r THEN FocusNode(c, MASTER, FALSE) ELSE c
      fc == d.fc[r] + 1
  IN IF fc > MaxAttempts
     THEN [d EXCEPT !.fc[r] = fc, !.state[r] = "PERMFAILED"]
     ELSE [d EXCEPT !.fc[r] = fc, !.state[r] = "FAILED",
                    !.recon[r] = ReconnectInterval(fc) * Unit]

\* Mutant: the FAILED remotes' reconnect times are left out of the timeout.
SelectTimeout_noReconnect(s) ==
  LET step(cur, r) ==
        IF s.state[r] # "FAILED" /\ s.sched[r] # <<>> /\ Head(s.sched[r]) < cur
        THEN Head(s.sched[r]) ELSE cur
      first == IF s.calls # <<>> THEN Head(s.calls) ELSE Forever
      next == FoldLeft(step, first, SetToSeq(Remotes))
  IN IF next >= 0 THEN next ELSE Forever

\* Mutant: the scheduled calls are left out of the timeout.
SelectTimeout_noCalls(s) ==
  LET step(cur, r) ==
        IF s.state[r] = "FAILED" /\ s.recon[r] < cur THEN s.recon[r]
        ELSE IF s.sched[r] # <<>> /\ Head(s.sched[r]) < cur
             THEN Head(s.sched[r]) ELSE cur
      next == FoldLeft(step, Forever, SetToSeq(Remotes))
  IN IF next >= 0 THEN next ELSE Forever

\* get_select_timeout(): the earliest of the first scheduled call, each
\* FAILED remote's reconnect time and, for the other remotes (else if), the
\* first scheduled message; minus now_us, in unsigned arithmetic.
SelectTimeout(s) ==
  LET step(cur, r) ==
        IF s.state[r] = "FAILED" /\ s.recon[r] < cur THEN s.recon[r]
        ELSE IF s.sched[r] # <<>> /\ Head(s.sched[r]) < cur
             THEN Head(s.sched[r]) ELSE cur
      first == IF s.calls # <<>> THEN Head(s.calls) ELSE Forever
      next == FoldLeft(step, first, SetToSeq(Remotes))
  IN IF next >= 0 THEN next ELSE Forever

\* The part of handle_fds() before select(): run the due calls; set up each
\* FAILED remote whose reconnect time is past (setup_remote() keeps its
\* schedule); move the due messages of each live remote to its channel.
Prepare(s) ==
  LET st == [r \in Remotes |->
               IF s.state[r] = "FAILED" /\ s.recon[r] < 0 THEN "SETTINGUP"
               ELSE s.state[r]]
  IN [s EXCEPT !.calls = PopDue(@), !.state = st,
               !.sched = [r \in Remotes |->
                            IF st[r] \in Live THEN PopDue(@[r]) ELSE @[r]]]

\* handle_message(READY).
Ready(s, r) ==
  IF s.state[r] # "SETTINGUP" THEN FailRemote(s, r)
  ELSE LET c == [s EXCEPT !.state[r] = "CONNECTED", !.fc[r] = 0]
       IN IF FocusHint = "DIM" THEN TransitionBrightness(c, r) ELSE c

\* Mutant: RECONNECT leaves the failure counts alone.
Reconnect_keepCount(s) ==
  [s EXCEPT !.state = [r \in Remotes |->
                         IF @[r] = "PERMFAILED" THEN "FAILED" ELSE @[r]],
            !.recon = [r \in Remotes |-> 0]]

\* action_cb(RECONNECT).
Reconnect(s) ==
  [s EXCEPT !.state = [r \in Remotes |->
                         IF @[r] = "PERMFAILED" THEN "FAILED" ELSE @[r]],
            !.fc = [r \in Remotes |-> 0], !.recon = [r \in Remotes |-> 0]]

WithinBounds(s) ==
  /\ Len(s.calls) <= MaxSched
  /\ \A r \in Remotes : Len(s.sched[r]) <= MaxSched

Init ==
  /\ pc = "top"
  /\ state = [r \in Remotes |-> "SETTINGUP"]
  /\ failcount = [r \in Remotes |-> 0]
  /\ next_reconnect = [r \in Remotes |-> -1]
  /\ sched = [r \in Remotes |-> <<>>]
  /\ calls = <<>>
  /\ focused = MASTER
  /\ wait = Forever

\* handle_fds() up to select().
LoopTop ==
  /\ pc = "top"
  /\ LET s == Prepare(Snap) IN Commit(s) /\ wait' = SelectTimeout(s)
  /\ pc' = "select"

\* select() times out; the clock has moved on by the timeout, or by late
\* ticks more.
TimeoutBy(late) ==
  /\ pc = "select"
  /\ wait # Forever
  /\ Commit(Advance(Snap, wait + late))
  /\ pc' = "top"
  /\ UNCHANGED wait

Timeout == \E late \in {0, 1} : TimeoutBy(late)

\* select() returns early, d ticks after now, with a message from a live
\* remote, an I/O error on its channel, or a hotkey from the X connection.
FdEvent ==
  /\ pc = "select"
  /\ \E d \in 0..(IF wait = Forever THEN Forever ELSE wait) :
       LET s == Advance(Snap, d)
       IN \E s2 \in {Ready(s, r) : r \in {x \in Remotes : s.state[x] \in Live}}
                   \cup {FailRemote(s, r) : r \in {x \in Remotes : s.state[x] \in Live}}
                   \cup {FocusNode(s, n, TRUE) : n \in Nodes}
                   \cup {Reconnect(s)} :
            WithinBounds(s2) /\ Commit(s2)
  /\ pc' = "top"
  /\ UNCHANGED wait

Next == LoopTop \/ Timeout \/ FdEvent

Spec == Init /\ [][Next]_vars

\* The loop is for (;;): it always gets back to select, and a select with
\* a timeout returns when it expires.  A zero-length wait may end in the
\* same clock tick, but not forever: real time passes, so a loop that
\* keeps timing out eventually finds that a tick has gone by.
FairSpec ==
  Spec /\ WF_vars(LoopTop) /\ WF_vars(Timeout) /\ SF_vars(TimeoutBy(1))
(***************************************************************************)
(* Invariants and properties                                              *)
(***************************************************************************)
TypeOK ==
  /\ pc \in {"top", "select"}
  /\ state \in [Remotes -> Live \cup {"FAILED", "PERMFAILED"}]
  /\ failcount \in [Remotes -> 0..MaxAttempts + 1]
  /\ next_reconnect \in [Remotes -> Rel]
  /\ sched \in [Remotes -> BoundedSeq(Rel, MaxSched)]
  /\ calls \in BoundedSeq(Rel, MaxSched)
  /\ focused \in Nodes
  /\ wait \in 0..Horizon \cup {Forever}

\* Reference backoff (spec 4.3): 1 unit, then doubling, capped at
\* MAX_RECONNECT_INTERVAL.
RECURSIVE RefBackoff(_)
RefBackoff(fc) ==
  IF fc = 1 THEN 1
  ELSE IF 2 * RefBackoff(fc - 1) > MaxInterval THEN MaxInterval
  ELSE 2 * RefBackoff(fc - 1)

\* fail_remote()'s shift-and-cap computation gives the spec's backoff
\* sequence 0.5 s, 1 s, 2 s, ... 30 s for every failure the build counts
\* before it permfails, and no FAILED remote in the loop waits longer for
\* its retry than the spec's backoff for its failure count (RECONNECT
\* leaves FAILED remotes with a zero count, due at once).
BackoffMatchesReference ==
  /\ \A fc \in 1..BuildAttempts : ReconnectInterval(fc) = RefBackoff(fc)
  /\ \A r \in Remotes :
       state[r] = "FAILED" /\ failcount[r] > 0
         => next_reconnect[r] <= RefBackoff(failcount[r]) * Unit

\* After the pre-select pass of handle_fds(), nothing due is left in the
\* call list or in a live remote's schedule: run_scheduled_calls() and
\* enqueue_scheduled_messages() stop at the first entry that is not due,
\* so this holds only while every insertion keeps the lists in time order,
\* across fades started in successive loop iterations.
DueMessagesFlushed ==
  pc = "select" =>
    /\ \A i \in DOMAIN calls : calls[i] > 0
    /\ \A r \in Remotes :
         state[r] \in Live => \A i \in DOMAIN sched[r] : sched[r][i] > 0

\* The deadlines handle_fds() has to act on: scheduled calls, FAILED
\* remotes' reconnect times, live remotes' scheduled messages.
Deadlines ==
  {calls[i] : i \in DOMAIN calls}
  \cup {next_reconnect[r] : r \in {x \in Remotes : state[x] = "FAILED"}}
  \cup UNION {{sched[r][i] : i \in DOMAIN sched[r]} :
                r \in {x \in Remotes : state[x] \in Live}}

\* get_select_timeout(): select() never sleeps past a pending deadline, so
\* fades advance and FAILED remotes are retried without waiting for input.
SelectWakesForDeadlines ==
  pc = "select" /\ Deadlines # {} =>
    /\ wait # Forever
    /\ \A t \in Deadlines : wait <= (IF t < 0 THEN 0 ELSE t)

\* Spec 4.3: a FAILED remote is retried when its backoff expires, without
\* waiting for input: in every run in which the fds eventually stay quiet,
\* each FAILED remote is eventually set up again.
FailedRetried ==
  <>[][~FdEvent]_vars => \A r \in Remotes : state[r] = "FAILED" ~> state[r] # "FAILED"
====

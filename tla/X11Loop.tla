------------------------------ MODULE X11Loop ------------------------------
(***************************************************************************)
(* The fd monitor of src/x11.c: the doubly linked list of fdmon_ctx, their *)
(* reference counts and flags, and the pass of handle_fds that calls the   *)
(* read and write callbacks.  A callback may register, unregister, monitor *)
(* or unmonitor any fd, its own included; the pass refs the current ctx    *)
(* around the callbacks so that unregistering it does not free it under   *)
(* the iterator.  The users of the API (the remote's message channel) are  *)
(* not in the sources, so their calls are free choices of the environment, *)
(* made at the top of the loop (scheduled calls, X events) or inside a     *)
(* callback.  A ctx is a model value; freed ctxs keep their stale fields,  *)
(* and malloc may hand the same ctx out again.                             *)
(***************************************************************************)
EXTENDS Integers, Sequences, FiniteSets, Functions, SequencesExt

CONSTANTS Ctx,      \* the ctx objects malloc can return
          NULL,
          CallIds,  \* the scheduled_call objects (fn, arg) users schedule
          MaxDelay  \* the largest delay a user passes to schedule_call

ASSUME NULL \notin Ctx /\ MaxDelay \in Nat

VARIABLES alloc,     \* ctxs currently allocated
          held,      \* ctxs the API user holds (registered, not unregistered)
          next, prev, head, tail, refcount, flags,
          pc,        \* "top", or where in the callback pass handle_fds is
          mfd,       \* the iterator of the callback pass
          rready, wready, \* what select reported
          calls,     \* scheduled_calls, head first: [id, at] with at the
                     \* calltime relative to the clock (the clock is 0)
          nowus,     \* handle_fds' now_us, relative to the clock
          order      \* the pending calls in the order they were scheduled

vars == <<alloc, held, next, prev, head, tail, refcount, flags, pc, mfd,
          rready, wready, calls, nowus, order>>
timers == <<calls, nowus, order>>

Ptr == Ctx \cup {NULL}
Flag == {"READ", "WRITE"}
InCallback == {"readcb", "writecb"}
InPass == {"read", "readcb", "write", "writecb", "next"}

TypeOK ==
    /\ alloc \subseteq Ctx /\ held \subseteq alloc
    /\ next \in [Ctx -> Ptr] /\ prev \in [Ctx -> Ptr]
    /\ head \in Ptr /\ tail \in Ptr
    /\ refcount \in [Ctx -> 0..2]
    /\ flags \in [Ctx -> SUBSET Flag]
    /\ pc \in {"top", "calls", "callfn", "iter"} \cup InPass
    /\ mfd \in Ptr
    /\ rready \subseteq Ctx /\ wready \subseteq Ctx
    /\ calls \in Seq([id : CallIds, at : -3..MaxDelay])
    /\ nowus \in -(MaxDelay + 3)..0

(* A field read through a pointer.  Reading a freed ctx is undefined       *)
(* behaviour: the memory may hold anything, including a pointer.           *)
Deref(f, c) == IF c \in alloc THEN {f[c]} ELSE Ptr

-----------------------------------------------------------------------------
(* Mutants of fdmon_register_fd: the old head's prev is not updated; the  *)
(* new ctx is appended at the tail instead of pushed at the head.          *)
Register_noPrevFix(c) ==
    /\ c \notin alloc
    /\ alloc' = alloc \cup {c}
    /\ held' = held \cup {c}
    /\ flags' = [flags EXCEPT ![c] = {}]
    /\ refcount' = [refcount EXCEPT ![c] = 1]
    /\ next' = [next EXCEPT ![c] = head]
    /\ prev' = [prev EXCEPT ![c] = NULL]
    /\ head' = c
    /\ tail' = IF tail = NULL THEN c ELSE tail

Register_atTail(c) ==
    /\ c \notin alloc
    /\ alloc' = alloc \cup {c}
    /\ held' = held \cup {c}
    /\ flags' = [flags EXCEPT ![c] = {}]
    /\ refcount' = [refcount EXCEPT ![c] = 1]
    /\ next' = IF tail # NULL THEN [next EXCEPT ![tail] = c, ![c] = NULL]
                              ELSE [next EXCEPT ![c] = NULL]
    /\ prev' = [prev EXCEPT ![c] = tail]
    /\ head' = IF head = NULL THEN c ELSE head
    /\ tail' = c

(* fdmon_register_fd: a fresh ctx with refcount 1 and no flags, pushed at  *)
(* the head of the list; the old head's prev is pointed at it.             *)
Register(c) ==
    /\ c \notin alloc
    /\ alloc' = alloc \cup {c}
    /\ held' = held \cup {c}
    /\ flags' = [flags EXCEPT ![c] = {}]
    /\ refcount' = [refcount EXCEPT ![c] = 1]
    /\ next' = [next EXCEPT ![c] = head]
    /\ prev' = IF head # NULL THEN [prev EXCEPT ![head] = c, ![c] = NULL]
                              ELSE [prev EXCEPT ![c] = NULL]
    /\ head' = c
    /\ tail' = IF tail = NULL THEN c ELSE tail

(* Mutant: fdmon_unref without the early return, freeing on every unref. *)
UnrefWith_alwaysFree(c, fl) ==
    /\ refcount[c] > 0
    /\ refcount' = [refcount EXCEPT ![c] = @ - 1]
    /\ flags' = fl
    /\ head' = IF prev[c] = NULL THEN next[c] ELSE head
    /\ tail' = IF next[c] = NULL THEN prev[c] ELSE tail
    /\ prev' = IF next[c] # NULL THEN [prev EXCEPT ![next[c]] = prev[c]] ELSE prev
    /\ next' = IF prev[c] # NULL THEN [next EXCEPT ![prev[c]] = next[c]] ELSE next
    /\ alloc' = alloc \ {c}

(* fdmon_unref, given the flags the ctx has when it runs: drop a           *)
(* reference; the last one unlinks the ctx and frees it.                   *)
UnrefWith(c, fl) ==
    /\ refcount[c] > 0
    /\ IF refcount[c] > 1
         THEN /\ refcount' = [refcount EXCEPT ![c] = @ - 1]
              /\ flags' = fl
              /\ UNCHANGED <<alloc, next, prev, head, tail>>
         ELSE /\ refcount' = [refcount EXCEPT ![c] = 0]
              /\ flags' = fl
              /\ head' = IF prev[c] = NULL THEN next[c] ELSE head
              /\ tail' = IF next[c] = NULL THEN prev[c] ELSE tail
              /\ prev' = IF next[c] # NULL THEN [prev EXCEPT ![next[c]] = prev[c]]
                                           ELSE prev
              /\ next' = IF prev[c] # NULL THEN [next EXCEPT ![prev[c]] = next[c]]
                                           ELSE next
              /\ alloc' = alloc \ {c}

Unref(c) == UnrefWith(c, flags)

(* Mutant: fdmon_unregister without the unmonitor.                        *)
Unregister_noUnmonitor(c) ==
    /\ c \in held
    /\ held' = held \ {c}
    /\ UnrefWith(c, flags)

(* fdmon_unregister: unmonitor READ|WRITE, then unref.                     *)
Unregister(c) ==
    /\ c \in held
    /\ held' = held \ {c}
    /\ UnrefWith(c, [flags EXCEPT ![c] = {}])

(* fdmon_monitor / fdmon_unmonitor (only valid flags are ever passed).     *)
Monitor(c, f) ==
    /\ c \in held
    /\ flags' = [flags EXCEPT ![c] = @ \cup f]
    /\ UNCHANGED <<alloc, held, next, prev, head, tail, refcount>>

Unmonitor(c, f) ==
    /\ c \in held
    /\ flags' = [flags EXCEPT ![c] = @ \ f]
    /\ UNCHANGED <<alloc, held, next, prev, head, tail, refcount>>

(* A call of the API by its user, at the top of the loop or in a callback. *)
ApiCall ==
    /\ pc \in {"top", "callfn"} \cup InCallback
    /\ \/ \E c \in Ctx : Register(c)
       \/ \E c \in held : Unregister(c)
       \/ \E c \in held, f \in SUBSET Flag \ {{}} : Monitor(c, f) \/ Unmonitor(c, f)
    /\ UNCHANGED <<pc, mfd, rready, wready, timers>>

-----------------------------------------------------------------------------
(* A call of schedule_call by a user (at the top of the loop, in a fd    *)
(* callback or in a scheduled call's fn): calltime is get_microtime() +    *)
(* delay; the list is walked to the first call with a strictly later      *)
(* calltime and the new call is linked before it.  Mutant: the walk stops *)
(* at an equal calltime too.                                              *)
ScheduleInsert_tieFirst(q, c) ==
    LET later == {i \in DOMAIN q : c.at <= q[i].at}
    IN InsertAt(q, IF later = {} THEN Len(q) + 1 ELSE Min(later), c)

ScheduleInsert(q, c) ==
    LET later == {i \in DOMAIN q : c.at < q[i].at}
    IN InsertAt(q, IF later = {} THEN Len(q) + 1 ELSE Min(later), c)

Scheduled == {calls[i].id : i \in DOMAIN calls}

ScheduleCall(k, delay) ==
    /\ pc \in {"top", "callfn"} \cup InCallback
    /\ k \notin Scheduled
    /\ calls' = ScheduleInsert(calls, [id |-> k, at |-> delay])
    /\ order' = Append(order, k)
    /\ UNCHANGED <<alloc, held, next, prev, head, tail, refcount, flags, pc,
                   mfd, rready, wready, nowus>>

(* The clock moves on by d microseconds: calltimes and now_us come closer. *)
Elapse(d) ==
    /\ calls' = [i \in DOMAIN calls |-> [calls[i] EXCEPT !.at = @ - d]]
    /\ nowus' = nowus - d

(* A microsecond passes while a scheduled call's fn runs.                 *)
Tick ==
    /\ pc = "callfn" /\ nowus = 0
    /\ Elapse(1)
    /\ UNCHANGED <<alloc, held, next, prev, head, tail, refcount, flags, pc,
                   mfd, rready, wready, order>>

(* handle_fds begins: now_us = get_microtime().                           *)
Wake ==
    /\ pc = "top"
    /\ nowus' = 0
    /\ pc' = "calls"
    /\ UNCHANGED <<alloc, held, next, prev, head, tail, refcount, flags, mfd,
                   rready, wready, calls, order>>

(* run_scheduled_calls(now_us): while the head is due, unlink it and call *)
(* its fn (which may schedule further calls), then free it.              *)
HeadDue == calls # <<>> /\ Head(calls).at <= nowus

RunCall ==
    /\ pc = "calls" /\ HeadDue
    /\ calls' = Tail(calls)
    /\ order' = SelectSeq(order, LAMBDA k : k # Head(calls).id)
    /\ pc' = "callfn"
    /\ UNCHANGED <<alloc, held, next, prev, head, tail, refcount, flags, mfd,
                   rready, wready, nowus>>

CallReturn ==
    /\ pc = "callfn"
    /\ pc' = "calls"
    /\ UNCHANGED <<alloc, held, next, prev, head, tail, refcount, flags, mfd,
                   rready, wready, timers>>

(* get_select_timeout: with calls scheduled, the head's calltime minus    *)
(* now_us (unsigned: a past calltime wraps to a wait of nearly 2^64 us,   *)
(* Forever); with none, NULL (no timeout, also Forever).  Mutant: the     *)
(* scheduled calls are not looked at.                                     *)
Forever == MaxDelay + 3

SelectWait_none == Forever

SelectWait ==
    IF calls = <<>> THEN Forever
    ELSE IF Head(calls).at - nowus >= 0 THEN Head(calls).at - nowus ELSE Forever

(* handle_fds, from the fd-set loop to select: every allocated ctx's       *)
(* monitored directions go into the sets.  select returns with some of    *)
(* them ready, or fails with EINTR (which leaves the sets as they were     *)
(* passed), before the timeout; the clock has moved on by less than the   *)
(* wait.  The pass then starts at the head.                               *)
Select ==
    /\ pc = "calls" /\ ~HeadDue
    /\ \E r \in SUBSET {c \in alloc : "READ" \in flags[c]},
          w \in SUBSET {c \in alloc : "WRITE" \in flags[c]} :
          rready' = r /\ wready' = w
    /\ \E d \in 0..1 : d < SelectWait /\ Elapse(d)
    /\ mfd' = head
    /\ pc' = "iter"
    /\ UNCHANGED <<alloc, held, next, prev, head, tail, refcount, flags, order>>

(* select times out: nothing is ready, and the clock has moved on by the  *)
(* wait, or by a microsecond more.                                        *)
SelectTimeout ==
    /\ pc = "calls" /\ ~HeadDue
    /\ SelectWait # Forever
    /\ rready' = {} /\ wready' = {}
    /\ \E late \in 0..1 : Elapse(SelectWait + late)
    /\ mfd' = head
    /\ pc' = "iter"
    /\ UNCHANGED <<alloc, held, next, prev, head, tail, refcount, flags, order>>

(* Mutant: the pass does not take a reference around the callbacks.      *)
Iter_noRef ==
    /\ pc = "iter"
    /\ pc' = IF mfd = NULL THEN "top" ELSE "read"
    /\ UNCHANGED <<alloc, held, next, prev, head, tail, refcount, flags, mfd,
                   rready, wready, timers>>

(* Loop condition and fdmon_ref(mfd); at the end of the list the pass is   *)
(* over and process_events runs at the top of the loop.                    *)
Iter ==
    /\ pc = "iter"
    /\ IF mfd = NULL
         THEN /\ pc' = "top"
              /\ UNCHANGED refcount
         ELSE /\ refcount[mfd] > 0
              /\ refcount' = [refcount EXCEPT ![mfd] = @ + 1]
              /\ pc' = "read"
    /\ UNCHANGED <<alloc, held, next, prev, head, tail, flags, mfd, rready, wready, timers>>

(* The read test, made with the flags as they are now.                     *)
ReadStep ==
    /\ pc = "read"
    /\ pc' = IF "READ" \in flags[mfd] /\ mfd \in rready THEN "readcb" ELSE "write"
    /\ UNCHANGED <<alloc, held, next, prev, head, tail, refcount, flags, mfd,
                   rready, wready, timers>>

(* The write test, made with the flags the read callback left.             *)
WriteStep ==
    /\ pc = "write"
    /\ pc' = IF "WRITE" \in flags[mfd] /\ mfd \in wready THEN "writecb" ELSE "next"
    /\ UNCHANGED <<alloc, held, next, prev, head, tail, refcount, flags, mfd,
                   rready, wready, timers>>

(* A callback returns.                                                     *)
CbReturn ==
    /\ pc \in InCallback
    /\ pc' = IF pc = "readcb" THEN "write" ELSE "next"
    /\ UNCHANGED <<alloc, held, next, prev, head, tail, refcount, flags, mfd,
                   rready, wready, timers>>

(* Mutant: fdmon_unref(mfd) before next_mfd = mfd->next.                  *)
Advance_unrefFirst ==
    /\ pc = "next"
    /\ Unref(mfd)
    /\ \E n \in IF mfd \in alloc' THEN {next'[mfd]} ELSE Ptr : mfd' = n
    /\ pc' = "iter"
    /\ UNCHANGED <<held, rready, wready, timers>>

(* next_mfd = mfd->next; fdmon_unref(mfd); mfd = next_mfd.                 *)
Advance ==
    /\ pc = "next"
    /\ \E n \in Deref(next, mfd) : mfd' = n
    /\ Unref(mfd)
    /\ pc' = "iter"
    /\ UNCHANGED <<held, rready, wready, timers>>

Init ==
    /\ alloc = {} /\ held = {}
    /\ next = [c \in Ctx |-> NULL] /\ prev = [c \in Ctx |-> NULL]
    /\ head = NULL /\ tail = NULL
    /\ refcount = [c \in Ctx |-> 0]
    /\ flags = [c \in Ctx |-> {}]
    /\ pc = "top" /\ mfd = NULL
    /\ rready = {} /\ wready = {}
    /\ calls = <<>> /\ nowus = 0 /\ order = <<>>

LoopStep == Iter \/ ReadStep \/ WriteStep \/ CbReturn \/ Advance

TimerStep == Wake \/ RunCall \/ CallReturn \/ SelectTimeout

Next == \/ ApiCall \/ Select \/ LoopStep \/ TimerStep \/ Tick
        \/ \E k \in CallIds, d \in 0..MaxDelay : ScheduleCall(k, d)

(* The loop is one thread and every callback and fn returns: once         *)
(* handle_fds is in its callback pass, it keeps taking the pass's steps;  *)
(* it runs the due calls, and select returns when its timeout expires.    *)
(* The monotonic clock does not stand still: a fn that keeps being called *)
(* (one that schedules itself with delay 0) eventually runs across a      *)
(* microsecond boundary.                                                  *)
Spec == Init /\ [][Next]_vars /\ WF_vars(LoopStep) /\ WF_vars(TimerStep)
        /\ SF_vars(Tick)

-----------------------------------------------------------------------------
(* The iterator never stands on freed memory: after fdmon_ref and until    *)
(* fdmon_unref, mfd is allocated, whatever the callbacks unregistered, and *)
(* the next_mfd it moves to is allocated or the end of the list.           *)
NoUseAfterFree ==
    /\ pc \in InPass => mfd \in alloc
    /\ pc = "iter" => mfd \in alloc \cup {NULL}

(* The list stays well formed through registrations and unlinks made in    *)
(* the middle of a pass: walking next from head visits exactly the         *)
(* allocated ctxs, each once, prev is the inverse of next and tail is the  *)
(* last one.                                                               *)
RECURSIVE Walk(_, _)
Walk(c, n) == IF c = NULL \/ n = 0 THEN <<>> ELSE <<c>> \o Walk(next[c], n - 1)

ListWellFormed ==
    LET w == Walk(head, Cardinality(Ctx) + 1) IN
    /\ Len(w) = Cardinality(alloc)
    /\ Range(w) = alloc
    /\ tail = IF w = <<>> THEN NULL ELSE w[Len(w)]
    /\ \A i \in 1..Len(w) : prev[w[i]] = IF i = 1 THEN NULL ELSE w[i - 1]

(* Every reference is accounted for: a ctx's refcount is one for the       *)
(* user's registration plus one while the pass holds it, so a ctx is freed *)
(* exactly when neither holds it (no leak, no premature free).             *)
RefcountMatches ==
    \A c \in Ctx :
        refcount[c] = (IF c \in held THEN 1 ELSE 0)
                      + (IF pc \in InPass /\ mfd = c THEN 1 ELSE 0)
        /\ (c \in alloc <=> refcount[c] > 0)

(* No callback runs for a ctx its user has already unregistered, even when *)
(* the unregistering happened earlier in the same pass.                    *)
NoCallbackAfterUnregister ==
    [][pc' \in InCallback /\ pc' # pc => mfd' \in held']_vars

(* Every callback pass ends: handle_fds gets back to select, however the   *)
(* callbacks change the list.                                              *)
PassCompletes == pc = "iter" ~> pc = "top"

(* Scheduled calls run in calltime order, and calls with equal calltimes  *)
(* in the order they were scheduled (schedule_call's walk, spec 4.1):     *)
(* no call runs while one due earlier, or due as early and scheduled      *)
(* before it, is still pending.                                           *)
AtOf(k) == calls[CHOOSE i \in DOMAIN calls : calls[i].id = k].at

CallsRunInOrder ==
    [][pc = "calls" /\ pc' = "callfn" =>
         LET k == Head(calls).id
             pos(j) == CHOOSE i \in DOMAIN order : order[i] = j
         IN \A j \in Scheduled \ {k} :
               \/ AtOf(k) < AtOf(j)
               \/ AtOf(k) = AtOf(j) /\ pos(k) < pos(j)]_vars

(* Every scheduled call eventually runs, without waiting for fd activity: *)
(* in every run in which select eventually only times out, each pending   *)
(* call is eventually called (get_select_timeout wakes the loop for it).  *)
CallsEventuallyRun ==
    <>[][~Select]_vars => \A k \in CallIds : k \in Scheduled ~> k \notin Scheduled

(* The list implements the abstract fd set: the registered fds are the    *)
(* ones the user holds, the fds the pass has yet to visit are those       *)
(* reachable from the iterator (from its successor once it is visiting),  *)
(* and a callback is running in the readcb and writecb steps.             *)
Reachable(c) == Range(Walk(c, Cardinality(Ctx) + 1))

Pending == CASE pc = "iter" -> Reachable(mfd)
             [] pc \in InPass -> Reachable(next[mfd])
             [] OTHER -> {}

Abstract == INSTANCE FdSet WITH members <- held, pending <- Pending,
                                current <- IF pc \in InPass THEN mfd ELSE NULL,
                                calling <- pc \in InCallback

(* Every step of the list code, callbacks' API calls included, is a step  *)
(* of the abstract fd set: no pass visits an fd twice, visits one added   *)
(* during it, or calls back an fd that is no longer registered.           *)
FdSetRefinement == Abstract!Spec
====

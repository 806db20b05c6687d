----------------------------- MODULE Selection -----------------------------
(***************************************************************************)
(* The master's side of the X selections, PRIMARY and CLIPBOARD (x11.c):  *)
(* set_clipboard_text, handle_selection_request, the SelectionClear case  *)
(* of handle_event and get_clipboard_text with its wait for the           *)
(* SelectionNotify.  The X server (selection owners, last-change times,   *)
(* event routing) and the other X clients are the environment.            *)
(*                                                                         *)
(* Times are X server timestamps, CurrentTime (0) included, since the     *)
(* code compares them: XSetSelectionOwner with last_xevent_time is        *)
(* refused when that is older than the selection's last change, and a     *)
(* request older than xselection_owned_since is refused.  Only XA_STRING  *)
(* requests are modelled; other targets are always refused.               *)
(***************************************************************************)
EXTENDS Naturals, Sequences

CONSTANTS
  Texts,        \* clipboard strings, as model values
  NULL,         \* clipboard_text == NULL; no property on xwin
  MaxClock,     \* bound on the X server time
  MaxQueue,     \* bound on the X events the others queue for the master
  MaxCalls      \* bound on the set/get_clipboard_text calls

ASSUME NULL \notin Texts
ASSUME {MaxClock, MaxQueue, MaxCalls} \subseteq Nat \ {0}

Atoms == <<"PRIMARY", "CLIPBOARD">>      \* clipboard_xatoms[], in order
AtomSet == {Atoms[i] : i \in DOMAIN Atoms}
CurrentTime == 0
ServerTimes == 1..MaxClock

\* The X events the master reads with get_xevent; every one carries a time.
Event(ty, a, t, r, ok) == [type |-> ty, atom |-> a, time |-> t, req |-> r, ok |-> ok]
Input(t) == Event("input", NULL, t, NULL, FALSE)
Clear(a, t) == Event("clear", a, t, NULL, FALSE)
Request(a, t, r) == Event("request", a, t, r, FALSE)
\* SelectionNotify; ok: its property is not None.
Notify(ok, t) == Event("notify", "PRIMARY", t, NULL, ok)

VARIABLES
  owner,                  \* server: owner of each selection
  changed,                \* server: last-change time of each selection
  clock,                  \* server: current time
  last_xevent_time,
  clipboard_text,
  xselection_owned_since,
  xq,                     \* X events queued for the master, oldest first
  oreq,                   \* conversions of PRIMARY another owner has not
                          \* answered yet: the text it will write, the time
  prop,                   \* et_selection_data on xwin
  pc,                     \* "idle", "get" (get_clipboard_text is called
                          \* next) or "wait" (inside its loop)
  content,                \* ghost: the text a requestor of each selection
                          \* is owed, NULL for none
  calls                   \* clipboard operations so far, up to MaxCalls

vars == <<owner, changed, clock, last_xevent_time, clipboard_text,
          xselection_owned_since, xq, oreq, prop, pc, content, calls>>

xvars == <<owner, changed, clock, content, calls>>

Init ==
  /\ owner = [a \in AtomSet |-> "none"]
  /\ changed = [a \in AtomSet |-> 1]
  /\ clock = 1
  /\ last_xevent_time = CurrentTime
  /\ clipboard_text = NULL
  /\ xselection_owned_since = 0
  /\ xq = <<>>
  /\ oreq = <<>>
  /\ prop = NULL
  /\ pc = "idle"
  /\ content = [a \in AtomSet |-> NULL]
  /\ calls = 0

-----------------------------------------------------------------------------
(* The environment: server time, input, other clients.                    *)

Tick ==
  /\ clock < MaxClock
  /\ clock' = clock + 1
  /\ UNCHANGED <<owner, changed, content, calls, last_xevent_time, clipboard_text,
                 xselection_owned_since, xq, oreq, prop, pc>>

\* A key, button, motion or property event for the master.
UserInput ==
  /\ Len(xq) < MaxQueue
  /\ xq' = Append(xq, Input(clock))
  /\ UNCHANGED <<xvars, last_xevent_time, clipboard_text,
                 xselection_owned_since, oreq, prop, pc>>

\* Another client takes selection a with text t, at the current time; the
\* server sends the master a SelectionClear if it was the owner.
OtherTakes(a, t) ==
  /\ Len(xq) < MaxQueue
  /\ owner' = [owner EXCEPT ![a] = "other"]
  /\ changed' = [changed EXCEPT ![a] = clock]
  /\ content' = [content EXCEPT ![a] = t]
  /\ xq' = IF owner[a] = "master" THEN Append(xq, Clear(a, clock)) ELSE xq
  /\ UNCHANGED <<clock, calls, last_xevent_time, clipboard_text,
                 xselection_owned_since, oreq, prop, pc>>

\* Another client converts selection a, which the master owns, to STRING,
\* stamped CurrentTime or with its latest event time.
ClientRequest(a, t) ==
  /\ Len(xq) < MaxQueue
  /\ owner[a] = "master"
  /\ xq' = Append(xq, Request(a, t, "client"))
  /\ UNCHANGED <<xvars, last_xevent_time, clipboard_text,
                 xselection_owned_since, oreq, prop, pc>>

\* The other owner of PRIMARY answers a conversion the master asked for:
\* it writes the property on xwin and sends SelectionNotify.
OtherReply ==
  /\ oreq # <<>>
  /\ prop' = Head(oreq).text
  /\ oreq' = Tail(oreq)
  /\ xq' = Append(xq, Notify(TRUE, Head(oreq).time))
  /\ UNCHANGED <<xvars, last_xevent_time, clipboard_text,
                 xselection_owned_since, pc>>

-----------------------------------------------------------------------------
(* The master.                                                            *)

\* XSetSelectionOwner(a, xwin, last_xevent_time) followed by the
\* XGetSelectionOwner check: a time older than the selection's last change
\* is ignored by the server, so the check passes only if the master owned a
\* already.  CurrentTime stands for the server's time.
OwnerTime == IF last_xevent_time = CurrentTime THEN clock ELSE last_xevent_time
SetOwnerOk(a) == OwnerTime >= changed[a]
IsOwner(a) == SetOwnerOk(a) \/ owner[a] = "master"

\* Mutant: xselection_owned_since is set even when the loop returns -1.
SetClipboardText_ownedAlways(t, reply) ==
  LET n == IF \A i \in DOMAIN Atoms : IsOwner(Atoms[i]) THEN Len(Atoms)
           ELSE CHOOSE i \in DOMAIN Atoms :
                  ~IsOwner(Atoms[i]) /\ \A j \in 1..i-1 : IsOwner(Atoms[j])
      tried == {Atoms[i] : i \in 1..n}
      set == {a \in tried : SetOwnerOk(a)}
      kept == {a \in tried : IsOwner(a)}
  IN /\ pc = "idle"
     /\ calls < MaxCalls
     /\ calls' = calls + 1
     /\ clipboard_text' = t
     /\ owner' = [a \in AtomSet |-> IF a \in set THEN "master" ELSE owner[a]]
     /\ changed' = [a \in AtomSet |-> IF a \in set THEN OwnerTime ELSE changed[a]]
     /\ content' = [a \in AtomSet |-> IF a \in kept THEN t ELSE content[a]]
     /\ xselection_owned_since' = last_xevent_time
     /\ pc' = IF reply THEN "get" ELSE "idle"
     /\ UNCHANGED <<clock, last_xevent_time, xq, oreq, prop>>

\* set_clipboard_text(t): the atoms are taken in order and the loop returns
\* -1 at the first one the master does not own afterwards, leaving
\* xselection_owned_since as it was.  reply: handle_message(SETCLIPBOARD)
\* goes on to get_clipboard_text when a remote is focused.
SetClipboardText(t, reply) ==
  LET n == IF \A i \in DOMAIN Atoms : IsOwner(Atoms[i]) THEN Len(Atoms)
           ELSE CHOOSE i \in DOMAIN Atoms :
                  ~IsOwner(Atoms[i]) /\ \A j \in 1..i-1 : IsOwner(Atoms[j])
      tried == {Atoms[i] : i \in 1..n}
      set == {a \in tried : SetOwnerOk(a)}
      kept == {a \in tried : IsOwner(a)}
  IN /\ pc = "idle"
     /\ calls < MaxCalls
     /\ calls' = calls + 1
     /\ clipboard_text' = t
     /\ owner' = [a \in AtomSet |-> IF a \in set THEN "master" ELSE owner[a]]
     /\ changed' = [a \in AtomSet |-> IF a \in set THEN OwnerTime ELSE changed[a]]
     /\ content' = [a \in AtomSet |-> IF a \in kept THEN t ELSE content[a]]
     /\ xselection_owned_since' = IF kept = AtomSet THEN last_xevent_time
                                  ELSE xselection_owned_since
     /\ pc' = IF reply THEN "get" ELSE "idle"
     /\ UNCHANGED <<clock, last_xevent_time, xq, oreq, prop>>

\* transfer_clipboard(NULL, to): leaving the master for a remote.
TransferClipboard ==
  /\ pc = "idle"
  /\ calls < MaxCalls
  /\ calls' = calls + 1
  /\ pc' = "get"
  /\ UNCHANGED <<owner, changed, clock, content, last_xevent_time, clipboard_text,
                 xselection_owned_since, xq, oreq, prop>>

\* get_clipboard_text(): the text it thinks it owns, or XConvertSelection
\* of PRIMARY, which the server routes to the owner: a SelectionRequest to
\* the master itself, a request to another client, or at once a
\* SelectionNotify with property None.
GetClipboardText ==
  /\ pc = "get"
  /\ IF xselection_owned_since # 0 /\ clipboard_text # NULL
     THEN /\ pc' = "idle"
          /\ UNCHANGED <<xq, oreq>>
     ELSE /\ pc' = "wait"
          /\ CASE owner["PRIMARY"] = "master" ->
                    /\ xq' = Append(xq, Request("PRIMARY", last_xevent_time,
                                                "self"))
                    /\ oreq' = oreq
               [] owner["PRIMARY"] = "other" ->
                    /\ oreq' = Append(oreq, [text |-> content["PRIMARY"],
                                             time |-> last_xevent_time])
                    /\ xq' = xq
               [] OTHER ->
                    /\ xq' = Append(xq, Notify(FALSE, last_xevent_time))
                    /\ oreq' = oreq
  /\ UNCHANGED <<xvars, last_xevent_time, clipboard_text,
                 xselection_owned_since, prop>>

\* handle_selection_request(): refused without text, for a request older
\* than the ownership, or (not modelled) for a target other than STRING.
\* The text goes to the requestor's property, then a SelectionNotify.
Refused(ev) ==
  \/ clipboard_text = NULL
  \/ ev.time # CurrentTime /\ ev.time < xselection_owned_since

\* Mutant: a refused request is not acknowledged with a SelectionNotify.
HandleSelectionRequest_noRefusalNotify(ev) ==
  /\ IF ev.req = "self"
     THEN /\ prop' = IF Refused(ev) THEN prop ELSE clipboard_text
          /\ xq' = IF Refused(ev) THEN Tail(xq)
                   ELSE Append(Tail(xq), Notify(TRUE, ev.time))
     ELSE /\ xq' = Tail(xq)
          /\ prop' = prop
  /\ UNCHANGED <<clipboard_text, xselection_owned_since>>

HandleSelectionRequest(ev) ==
  /\ IF ev.req = "self"
     THEN /\ prop' = IF Refused(ev) THEN prop ELSE clipboard_text
          /\ xq' = Append(Tail(xq), Notify(~Refused(ev), ev.time))
     ELSE /\ xq' = Tail(xq)
          /\ prop' = prop
  /\ UNCHANGED <<clipboard_text, xselection_owned_since>>

\* handle_event(ev) for the events modelled; ev is taken off the queue.
HandleEvent(ev) ==
  CASE ev.type = "request" -> HandleSelectionRequest(ev)
    [] ev.type = "clear" ->
         /\ clipboard_text' = NULL
         /\ xselection_owned_since' = 0
         /\ xq' = Tail(xq)
         /\ prop' = prop
    [] OTHER ->
         /\ xq' = Tail(xq)
         /\ UNCHANGED <<clipboard_text, xselection_owned_since, prop>>

\* get_xevent(): the master reads the oldest event and takes its time.
ReadEvent ==
  /\ xq # <<>>
  /\ last_xevent_time' = Head(xq).time

\* The main loop's handle_event() on an X event.  A SelectionNotify outside
\* get_clipboard_text is only logged; its property stays on xwin.
ProcessEvent ==
  /\ pc = "idle"
  /\ ReadEvent
  /\ HandleEvent(Head(xq))
  /\ UNCHANGED <<xvars, oreq, pc>>

\* One pass of get_clipboard_text's loop.  A SelectionNotify ends it:
\* None gives "", otherwise the property is read and deleted, and a
\* property that is not there reads with format 0, which also gives "".
\* Any other event is handled, and the 100 ms may then be over.
WaitSelection ==
  LET ev == Head(xq) IN
  /\ pc = "wait"
  /\ ReadEvent
  /\ IF ev.type = "notify"
     THEN /\ prop' = IF ev.ok THEN NULL ELSE prop
          /\ xq' = Tail(xq)
          /\ pc' = "idle"
          /\ UNCHANGED <<clipboard_text, xselection_owned_since>>
     ELSE /\ HandleEvent(ev)
          /\ pc' \in {"wait", "idle"}
  /\ UNCHANGED <<xvars, oreq>>

Next ==
  \/ Tick \/ UserInput \/ OtherReply
  \/ \E a \in AtomSet, t \in Texts : OtherTakes(a, t)
  \/ \E a \in AtomSet, t \in {CurrentTime, clock} : ClientRequest(a, t)
  \/ \E t \in Texts, reply \in BOOLEAN : SetClipboardText(t, reply)
  \/ TransferClipboard \/ GetClipboardText
  \/ ProcessEvent \/ WaitSelection

\* The master and the server are fair; the other clients are not: an owner
\* asked for PRIMARY may never answer, and nothing in x11.c assumes it does.
Spec ==
  /\ Init /\ [][Next]_vars
  /\ WF_vars(GetClipboardText) /\ WF_vars(ProcessEvent)
  /\ WF_vars(WaitSelection)

-----------------------------------------------------------------------------
\* get_clipboard_text's shortcut "If we (think we) own the selection": when
\* xselection_owned_since and clipboard_text are set and no SelectionClear
\* is still queued for the master, the server does name it the owner of
\* PRIMARY, so the text it returns is PRIMARY's.  set_clipboard_text's
\* early return and the SelectionClear case are what keep this true.
ThinksOwned == xselection_owned_since # 0 /\ clipboard_text # NULL
ClearPending == \E i \in DOMAIN xq : xq[i].type = "clear"
FastPathOwns == ThinksOwned /\ ~ClearPending => owner["PRIMARY"] = "master"

\* get_clipboard_text returns whenever no other client's answer is owed:
\* when PRIMARY has no owner (the server's SelectionNotify None) or the
\* master owns it (its own handle_selection_request answers, refusals
\* included), the wait ends, whatever else the master handles meanwhile.
\* A silent other owner is not covered: get_xevent then blocks and the
\* 100 ms limit is never tested (hazard x11.c:1050).
WaitEnds == pc = "wait" /\ oreq = <<>> ~> pc = "idle"

\* No lost clipboard (spec, core invariants): while the server names the
\* master the owner of PRIMARY or CLIPBOARD, every request for it reaches
\* handle_selection_request, so the master must still have the text to
\* serve; the SelectionClear case of handle_event and set_clipboard_text
\* are the code that could break this.
ClipboardNotLost == \A a \in AtomSet : owner[a] = "master" => clipboard_text # NULL

=============================================================================

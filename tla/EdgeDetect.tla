----------------------------- MODULE EdgeDetect -----------------------------
(***************************************************************************)
(* The per-direction edge-event history of one node and the multi-tap    *)
(* trigger (main.c: record_edgeevent, get_edgehist_entry,                 *)
(* trigger_edgeevent).                                                    *)
(*                                                                         *)
(* The code stores absolute get_microtime() stamps and only ever tests    *)
(* now - stamp < window.  The model stores each stamp as its age now -    *)
(* stamp in clock ticks, saturated at Window ("too old"): the same test,  *)
(* on a finite state space, with no bound on how long the loop runs.     *)
(* Stamps never written are 0, older than Window since the clock started  *)
(* at boot (uptime >= window).                                            *)
(***************************************************************************)
EXTENDS Naturals, Sequences

CONSTANTS
  HistLen,      \* EDGESTATE_HISTLEN
  Num,          \* config->mouseswitch.num, taps needed
  Window,       \* config->mouseswitch.window, in ticks
  InitEvType    \* possible last_evtype values of the zeroed edge_state

EvTypes == {"ARRIVE", "DEPART"}

ASSUME HistLen \in Nat \ {0} /\ Num \in Nat \ {0} /\ Window \in Nat \ {0}
ASSUME (Num - 1) * 2 < HistLen          \* assert() in get_edgehist_entry
ASSUME InitEvType \subseteq EvTypes /\ InitEvType # {}

Ages == 0..Window
Older(a) == IF a < Window THEN a + 1 ELSE Window

VARIABLES
  evidx,        \* es->evidx
  event_age,    \* now - es->event_times[i], saturated at Window
  last_evtype,  \* es->last_evtype
  taps,         \* reference: ages of the last Num ARRIVEs, oldest first
  fired,        \* did the last edge event trigger focus_neighbor()?
  rmask         \* the remote's own edge bit for this direction, as it
                \* last reported it in an EDGEMASKCHANGE

vars == <<evidx, event_age, last_evtype, taps, fired, rmask>>

Init ==
  /\ evidx = 0
  /\ event_age = [i \in 0..HistLen - 1 |-> Window]
  /\ last_evtype \in InitEvType
  /\ taps = <<>>
  /\ fired = FALSE
  /\ rmask = FALSE

\* Mutant: the look-back lands one entry too far back.
EdgehistEntry_offByOne(idx, ages, rel) == ages[(idx - rel - 1 + 2 * HistLen) % HistLen]

\* get_edgehist_entry(es, rel_idx), as an age.
EdgehistEntry(idx, ages, rel) == ages[(idx - rel + HistLen) % HistLen]

\* One tick of get_microtime() between two events.
Tick ==
  /\ event_age' = [i \in DOMAIN event_age |-> Older(event_age[i])]
  /\ taps' = [i \in DOMAIN taps |-> Older(taps[i])]
  /\ UNCHANGED <<evidx, last_evtype, fired, rmask>>

\* Mutant: record_edgeevent() advances evidx without wrapping it.
TriggerEdgeevent_noWrap(t) ==
  IF t = last_evtype
  THEN /\ fired' = FALSE
       /\ UNCHANGED <<evidx, event_age, last_evtype, taps>>
  ELSE LET idx == evidx + 1
           ages == [event_age EXCEPT ![idx % HistLen] = 0]
       IN /\ evidx' = idx
          /\ event_age' = ages
          /\ last_evtype' = t
          /\ fired' = (t = "ARRIVE"
                       /\ ages[(idx - (Num - 1) * 2 + HistLen) % HistLen]
                            < Window)
          /\ taps' = IF t = "ARRIVE"
                     THEN IF Len(taps) < Num THEN Append(taps, 0)
                          ELSE Append(Tail(taps), 0)
                     ELSE taps

\* trigger_edgeevent(): an event of the same type as the last one is out of
\* sync and ignored (record_edgeevent returns 1); otherwise it is recorded,
\* and an ARRIVE whose first tap, (Num - 1) * 2 entries back, is less than
\* Window old triggers focus_neighbor().
TriggerEdgeevent(t) ==
  IF t = last_evtype
  THEN /\ fired' = FALSE
       /\ UNCHANGED <<evidx, event_age, last_evtype, taps>>
  ELSE LET idx == (evidx + 1) % HistLen
           ages == [event_age EXCEPT ![idx] = 0]
       IN /\ evidx' = idx
          /\ event_age' = ages
          /\ last_evtype' = t
          /\ fired' = (t = "ARRIVE"
                       /\ EdgehistEntry(idx, ages, (Num - 1) * 2) < Window)
          /\ taps' = IF t = "ARRIVE"
                     THEN IF Len(taps) < Num THEN Append(taps, 0)
                          ELSE Append(Tail(taps), 0)
                     ELSE taps

\* handle_message(EDGEMASKCHANGE) -> check_edgeevents(): the remote reports
\* its bit changing from old to new; a set bit is an ARRIVE, a cleared one
\* a DEPART.
EdgeMaskChange ==
  /\ TriggerEdgeevent(IF rmask THEN "DEPART" ELSE "ARRIVE")
  /\ rmask' = ~rmask

\* The remote fails and is set up again (disconnect_remote, setup_remote).
\* The new remote process starts with an empty edge mask; neither function
\* touches rmt->edgehist, so the master's history is kept.
RemoteRestart ==
  /\ rmask' = FALSE
  /\ UNCHANGED <<evidx, event_age, last_evtype, taps, fired>>

Next == Tick \/ EdgeMaskChange \/ RemoteRestart

Spec == Init /\ [][Next]_vars

TypeOK ==
  /\ evidx \in 0..HistLen - 1
  /\ event_age \in [0..HistLen - 1 -> Ages]
  /\ last_evtype \in EvTypes
  /\ taps \in Seq(Ages) /\ Len(taps) <= Num
  /\ fired \in BOOLEAN
  /\ rmask \in BOOLEAN

(***************************************************************************)
(* Reference: Num taps are Num recorded ARRIVEs, the first of them less   *)
(* than Window before the last.                                           *)
(***************************************************************************)
MultiTap(tp) == Len(tp) = Num /\ tp[1] < Window

\* The ring look-back in trigger_edgeevent() fires exactly when the user has
\* made Num taps on the edge within the window: through ring wrap-around,
\* ignored out-of-sync events and a history shorter than Num taps.
MultiTapMatchesReference ==
  [][\A t \in EvTypes :
       TriggerEdgeevent(t) /\ t # last_evtype
         => (fired' <=> (t = "ARRIVE" /\ MultiTap(taps')))]_vars

\* Spec 4.4: out-of-sync events are protocol errors. A genuine edge
\* transition of the remote, one whose old mask is what it reported last
\* time, is therefore never ignored as out of sync, also after a reconnect.
NoEdgeEventIgnored == [][rmask' # rmask => last_evtype' # last_evtype]_vars
=============================================================================

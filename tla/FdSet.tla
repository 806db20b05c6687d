------------------------------- MODULE FdSet -------------------------------
(***************************************************************************)
(* What the fd monitor of src/x11.c promises its users, without the list: *)
(* a set of registered fds, and passes over it.  A pass visits the fds   *)
(* registered when it starts, each at most once, skips those removed     *)
(* before their turn and never visits one added during the pass; a       *)
(* callback runs only for the fd being visited, and only while it is      *)
(* registered.                                                             *)
(***************************************************************************)
CONSTANTS Ctx, NULL

VARIABLES members,  \* the registered fds
          pending,  \* those the current pass has yet to visit
          current,  \* the fd being visited, or NULL
          calling   \* a callback of current is running

avars == <<members, pending, current, calling>>

Init ==
    /\ members = {} /\ pending = {}
    /\ current = NULL /\ calling = FALSE

Add(c) ==
    /\ c \notin members \cup {current}
    /\ members' = members \cup {c}
    /\ UNCHANGED <<pending, current, calling>>

Remove(c) ==
    /\ c \in members
    /\ members' = members \ {c}
    /\ pending' = pending \ {c}
    /\ UNCHANGED <<current, calling>>

StartPass ==
    /\ pending = {} /\ current = NULL
    /\ pending' = members
    /\ UNCHANGED <<members, current, calling>>

Visit(c) ==
    /\ current = NULL /\ c \in pending
    /\ current' = c
    /\ pending' = pending \ {c}
    /\ UNCHANGED <<members, calling>>

Call ==
    /\ current \in members /\ ~calling
    /\ calling' = TRUE
    /\ UNCHANGED <<members, pending, current>>

Return ==
    /\ calling
    /\ calling' = FALSE
    /\ UNCHANGED <<members, pending, current>>

Done ==
    /\ current # NULL /\ ~calling
    /\ current' = NULL
    /\ UNCHANGED <<members, pending, calling>>

Next ==
    \/ \E c \in Ctx : Add(c) \/ Remove(c) \/ Visit(c)
    \/ StartPass \/ Call \/ Return \/ Done

Spec == Init /\ [][Next]_avars
====

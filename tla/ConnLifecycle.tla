---------------------------- MODULE ConnLifecycle ---------------------------
(***************************************************************************)
(* What the master promises about each remote's connection state (spec.md *)
(* section 3, "Connection state"): SETTINGUP -> CONNECTED on READY, any   *)
(* live state -> FAILED on an error, FAILED -> SETTINGUP when the         *)
(* reconnect time comes, FAILED -> PERMFAILED once the failure count      *)
(* exceeds MaxAttempts, and PERMFAILED left only by the RECONNECT action, *)
(* which also clears every failure count.  A READY resets the count.     *)
(***************************************************************************)
EXTENDS Naturals

CONSTANTS Remotes, MaxAttempts

VARIABLES state, failcount

Live == {"SETTINGUP", "CONNECTED"}

Init ==
  /\ state = [r \in Remotes |-> "SETTINGUP"]
  /\ failcount = [r \in Remotes |-> 0]

Ready(r) ==
  /\ state[r] = "SETTINGUP"
  /\ state' = [state EXCEPT ![r] = "CONNECTED"]
  /\ failcount' = [failcount EXCEPT ![r] = 0]

Fail(r) ==
  /\ state[r] \in Live
  /\ failcount' = [failcount EXCEPT ![r] = @ + 1]
  /\ state' = [state EXCEPT ![r] = IF failcount'[r] > MaxAttempts
                                   THEN "PERMFAILED" ELSE "FAILED"]

Retry(r) ==
  /\ state[r] = "FAILED"
  /\ state' = [state EXCEPT ![r] = "SETTINGUP"]
  /\ UNCHANGED failcount

Reconnect ==
  /\ state' = [r \in Remotes |->
                 IF state[r] = "PERMFAILED" THEN "FAILED" ELSE state[r]]
  /\ failcount' = [r \in Remotes |-> 0]

Next == Reconnect \/ \E r \in Remotes : Ready(r) \/ Fail(r) \/ Retry(r)

Spec == Init /\ [][Next]_<<state, failcount>>
=============================================================================

------------------------------ MODULE Hotkeys ------------------------------
(***************************************************************************)
(* Hotkey binding and matching in src/x11.c, and the key events the       *)
(* master's handle_event receives.  At startup bind_hotkeys (main.c)       *)
(* binds every configured key string: parse_keystring turns it into a     *)
(* keycode and a modifier mask, bind_hotkey rejects a collision with an    *)
(* earlier binding, pushes the hotkey on xhotkeys and grabs the key with   *)
(* every combination of CapsLock, NumLock and ScrollLock; any failure      *)
(* exits.  At run time a KeyPress that find_hotkey matches runs the        *)
(* hotkey's action; other key events go to handle_keyevent, which         *)
(* forwards them to the focused remote.  A KeyRelease is dropped when      *)
(* find_hotkey matches it.                                                 *)
(*                                                                         *)
(* Modifier masks are sets of xmodifiers[] names.  The X server is part of *)
(* the environment: while the master is focused it delivers a key event   *)
(* to the master only through a passive grab, which stays active until    *)
(* the grabbed key is released; while a remote is focused the keyboard is *)
(* grabbed and every key event is delivered.                               *)
(***************************************************************************)
EXTENDS Naturals, Sequences, SequencesExt

CONSTANTS
    MaxKeyPerMod,   \* max_keypermod of the server's modifier map
    ModMap,         \* XGetModifierMapping: slot -> keycode, 0 for an empty
                    \* slot; slot i belongs to modifier i \div MaxKeyPerMod
    NumLockKey,     \* XKeysymToKeycode(XK_Num_Lock), 0 when it has none
    ScrollLockKey,  \* XKeysymToKeycode(XK_Scroll_Lock), 0 when it has none
    Syms,           \* key symbols a hotkey string may name
    ModifierSyms,   \* the Syms for which IsModifierKey holds
    SymKeycode,     \* XKeysymToKeycode on Syms; AnyKey (0) when unmapped
    Keys,           \* keycodes of the physical keys
    ModKeyBit,      \* the modifier bit of each modifier key (a function on keys)
    Setups,         \* configurations: [hotkeys : key strings as token
                    \* sequences, others : key grabs held by other clients]
    ActionFocus     \* focus values a hotkey's action may switch to

ASSUME DOMAIN ModMap = 0..(8 * MaxKeyPerMod - 1)
ASSUME ActionFocus \subseteq {"master", "remote"}

VARIABLES
    setup,     \* the configuration main() was started with
    phase,     \* "bind" (bind_hotkeys), "run" (run_event_loop) or "exit"
    nbound,    \* hotkeys of setup bound so far
    xhotkeys,  \* the xhotkeys list, head first: [key, mask] records
    grabs,     \* the master's passive key grabs: <<keycode, mask>>
    focus,     \* "master", or "remote" (keyboard grabbed)
    down,      \* keys the user holds
    locks,     \* lock modifiers that are on
    active,    \* the key whose passive grab is active, or AnyKey
    rheld,     \* non-modifier keys the focused remote was sent pressed
    callback   \* index in xhotkeys of the hotkey whose action the last
               \* key event ran, or 0

vars == <<setup, phase, nbound, xhotkeys, grabs, focus, down, locks, active,
          rheld, callback>>

AnyKey == 0

(* xmodifiers[]: the names of the eight modifier bits, by map index.     *)
XModifiers == <<"shift", "lock", "control", "mod1", "mod2", "mod3", "mod4", "mod5">>
ModBits == Range(XModifiers)

(* The modifier bits the X server sets while key kc is down, or a lock    *)
(* key is on: every row of the modifier map that holds kc.               *)
KeyBits(kc) ==
    {XModifiers[i \div MaxKeyPerMod + 1] : i \in {j \in DOMAIN ModMap : kc # 0 /\ ModMap[j] = kc}}

(* The bits the lock keys of this keyboard really carry.                 *)
ServerLockBits == {"lock"} \cup KeyBits(NumLockKey) \cup KeyBits(ScrollLockKey)

(* Mutant: the modifier index taken as the slot within the row.           *)
GetModMask_rem(kc) ==
    LET hits == {i \in DOMAIN ModMap : ModMap[i] = kc}
    IN IF hits = {} THEN {} ELSE {XModifiers[(Min(hits) % MaxKeyPerMod) + 1]}

(* get_mod_mask: the bit of the row holding the first slot, in map order, *)
(* equal to the keysym's keycode; 0 when no slot is.  A keysym with no    *)
(* keycode (0) matches the first empty slot.                              *)
GetModMask(kc) ==
    LET hits == {i \in DOMAIN ModMap : ModMap[i] = kc}
    IN IF hits = {} THEN {} ELSE {XModifiers[Min(hits) \div MaxKeyPerMod + 1]}

NumLockMask == GetModMask(NumLockKey)
ScrollLockMask == GetModMask(ScrollLockKey)

(* set_keygrab's three loops: CapsLock is LockMask; a lock that no       *)
(* modifier carries (mask 0) adds no combination.                        *)
LockBits == {"lock"} \cup NumLockMask \cup ScrollLockMask

LockCombos_noCaps ==
    {s \cup n : s \in {{}, ScrollLockMask}, n \in {{}, NumLockMask}}

LockCombos ==
    {c \cup s \cup n : c \in {{}, {"lock"}}, s \in {{}, ScrollLockMask},
                       n \in {{}, NumLockMask}}

KeyGrabs(kc, mask) == {<<kc, mask \cup l>> : l \in LockCombos}

(* relevant_modmask after platform_init: neither lock bit counts.        *)
RelevantModmask_keepScroll == ModBits \ ({"lock"} \cup NumLockMask)

RelevantModmask == ModBits \ ({"lock"} \cup ScrollLockMask \cup NumLockMask)

MatchHotkey(h, kc, st) ==
    /\ h.key = kc
    /\ st \cap RelevantModmask = h.mask \cap RelevantModmask

(* find_hotkey: the first matching hotkey from the head, 0 if none.      *)
FindHotkey(kc, st) == SelectInSeq(xhotkeys, LAMBDA h : MatchHotkey(h, kc, st))

(* parse_keystring over the '+'-separated tokens: a modifier name adds   *)
(* its bit; otherwise the token must name a non-modifier key symbol with *)
(* a keycode, and only one.  A string of modifier names alone leaves kc  *)
(* at 0.                                                                  *)
Fail(r) == [r EXCEPT !.ok = FALSE]

RECURSIVE ParseTokens_noKeycodeCheck(_, _)
ParseTokens_noKeycodeCheck(ts, r) ==
    IF ts = <<>> \/ ~r.ok THEN r
    ELSE LET t == Head(ts) IN
         ParseTokens_noKeycodeCheck(Tail(ts),
            CASE t \in ModBits      -> [r EXCEPT !.mask = @ \cup {t}]
              [] t \notin Syms      -> Fail(r)
              [] t \in ModifierSyms -> Fail(r)
              [] r.kc # AnyKey      -> Fail(r)
              [] OTHER              -> [r EXCEPT !.kc = SymKeycode[t]])

RECURSIVE ParseTokens(_, _)
ParseTokens(ts, r) ==
    IF ts = <<>> \/ ~r.ok THEN r
    ELSE LET t == Head(ts) IN
         ParseTokens(Tail(ts),
            CASE t \in ModBits               -> [r EXCEPT !.mask = @ \cup {t}]
              [] t \notin Syms               -> Fail(r)   \* NoSymbol
              [] t \in ModifierSyms          -> Fail(r)   \* not a hotkey key
              [] r.kc # AnyKey               -> Fail(r)   \* two keys
              [] SymKeycode[t] = AnyKey      -> Fail(r)   \* no keycode
              [] OTHER                       -> [r EXCEPT !.kc = SymKeycode[t]])

ParseKeystring(ts) == ParseTokens(ts, [ok |-> TRUE, kc |-> AnyKey, mask |-> {}])

(* The modifier state X reports with a key event: held modifier keys and *)
(* the locks that are on, as before the event.                            *)
State == {ModKeyBit[k] : k \in down \cap DOMAIN ModKeyBit} \cup locks

Init ==
    /\ setup \in Setups
    /\ phase = "bind" /\ nbound = 0
    /\ xhotkeys = <<>>
    /\ grabs = {}            \* XUngrabKey(AnyKey, AnyModifier)
    /\ focus = "master"
    /\ down = {} /\ locks \in SUBSET ServerLockBits
    /\ active = AnyKey /\ rheld = {} /\ callback = 0

KeyboardVars == <<focus, down, locks, active, rheld, callback>>

(* bind_hotkey for the next key string; bind_hotkeys exits on failure.   *)
(* A grab some other client holds fails with BadAccess.                  *)
BindHotkey ==
    /\ phase = "bind" /\ nbound < Len(setup.hotkeys)
    /\ LET p == ParseKeystring(setup.hotkeys[nbound + 1]) IN
       \/ /\ \/ ~p.ok
             \/ FindHotkey(p.kc, p.mask) # 0
             \/ KeyGrabs(p.kc, p.mask) \cap setup.others # {}
          /\ phase' = "exit"
          /\ UNCHANGED <<nbound, xhotkeys, grabs>>
       \/ /\ p.ok /\ FindHotkey(p.kc, p.mask) = 0
          /\ KeyGrabs(p.kc, p.mask) \cap setup.others = {}
          /\ xhotkeys' = <<[key |-> p.kc, mask |-> p.mask]>> \o xhotkeys
          /\ grabs' = grabs \cup KeyGrabs(p.kc, p.mask)
          /\ nbound' = nbound + 1
          /\ UNCHANGED phase
    /\ UNCHANGED <<setup, KeyboardVars>>

BindingsDone ==
    /\ phase = "bind" /\ nbound = Len(setup.hotkeys)
    /\ phase' = "run"
    /\ UNCHANGED <<setup, nbound, xhotkeys, grabs, KeyboardVars>>

(* Whether the X server hands a key event to the master.                 *)
Delivered(kc, st) ==
    \/ focus = "remote"
    \/ active # AnyKey
    \/ <<kc, st>> \in grabs \/ <<AnyKey, st>> \in grabs

(* A press delivered while the master is focused activates its grab.     *)
PassiveActive(kc) == IF focus = "master" /\ active = AnyKey THEN kc ELSE active

(* handle_keyevent: forwarded to the focused remote, else dropped.       *)
Forward(kc, pressed) ==
    IF focus = "remote" /\ kc \notin DOMAIN ModKeyBit
    THEN IF pressed THEN rheld \cup {kc} ELSE rheld \ {kc}
    ELSE rheld

(* handle_event(KeyPress): do_hotkey runs the action of the hotkey       *)
(* find_hotkey matches; the action (action_cb, modelled in Master) may   *)
(* switch focus, which grabs or ungrabs the keyboard.  Any other press   *)
(* goes to handle_keyevent.                                               *)
Press(kc) ==
    /\ phase = "run" /\ kc \notin down
    /\ down' = down \cup {kc}
    /\ LET st == State
           hk == FindHotkey(kc, st)
       IN \/ /\ ~Delivered(kc, st)
             /\ callback' = 0
             /\ UNCHANGED <<focus, active, rheld>>
          \/ /\ Delivered(kc, st) /\ hk = 0
             /\ rheld' = Forward(kc, TRUE)
             /\ active' = PassiveActive(kc)
             /\ callback' = 0
             /\ UNCHANGED focus
          \/ /\ Delivered(kc, st) /\ hk # 0
             /\ callback' = hk
             /\ focus' \in ActionFocus \cup {focus}
             /\ active' = IF focus = "master" /\ focus' = "master"
                          THEN PassiveActive(kc) ELSE AnyKey
             /\ UNCHANGED rheld
    /\ UNCHANGED <<setup, phase, nbound, xhotkeys, grabs, locks>>

(* handle_event(KeyRelease): dropped if find_hotkey matches it with the  *)
(* modifiers held at the release, else handle_keyevent.  Releasing the   *)
(* key of an active passive grab ends it.                                 *)
Release(kc) ==
    /\ phase = "run" /\ kc \in down
    /\ down' = down \ {kc}
    /\ rheld' = IF FindHotkey(kc, State) = 0 THEN Forward(kc, FALSE) ELSE rheld
    /\ active' = IF active = kc THEN AnyKey ELSE active
    /\ callback' = 0
    /\ UNCHANGED <<setup, phase, nbound, xhotkeys, grabs, focus, locks>>

(* The user turns CapsLock, NumLock or ScrollLock on or off.             *)
ToggleLock(b) ==
    /\ phase = "run"
    /\ locks' = IF b \in locks THEN locks \ {b} ELSE locks \cup {b}
    /\ callback' = 0
    /\ UNCHANGED <<setup, phase, nbound, xhotkeys, grabs, focus, down,
                   active, rheld>>

Next ==
    \/ BindHotkey \/ BindingsDone
    \/ \E kc \in Keys : Press(kc) \/ Release(kc)
    \/ \E b \in ServerLockBits : ToggleLock(b)

Spec == Init /\ [][Next]_vars

-----------------------------------------------------------------------------
TypeOK ==
    /\ phase \in {"bind", "run", "exit"}
    /\ \A i \in DOMAIN xhotkeys :
          xhotkeys[i].key \in Keys /\ xhotkeys[i].mask \subseteq ModBits
    /\ grabs \subseteq (Keys \cup {AnyKey}) \X SUBSET ModBits
    /\ focus \in {"master", "remote"}
    /\ down \subseteq Keys /\ locks \subseteq ServerLockBits
    /\ active \in Keys \cup {AnyKey}
    /\ rheld \subseteq Keys \ DOMAIN ModKeyBit
    /\ callback \in 0..Len(xhotkeys)

(* Every key combination the master grabs from the desktop is one that   *)
(* find_hotkey recognises: bind_hotkey's grabs (set_keygrab) and the     *)
(* matching (match_hotkey with relevant_modmask) agree, so no key event  *)
(* is taken from the local clients only to be dropped.                   *)
GrabsAreHotkeys ==
    phase = "run" =>
        \A g \in grabs : \A kc \in Keys :
            g[1] \in {kc, AnyKey} => FindHotkey(kc, g[2]) # 0

(* A press of a bound hotkey's key with exactly its modifiers held runs  *)
(* its action, whatever the lock keys and whichever node is focused.     *)
HeldCombo(kc, st) ==
    \E h \in Range(xhotkeys) :
        h.key = kc /\ h.mask \subseteq st /\ st \ h.mask \subseteq ServerLockBits

HotkeyAlwaysFires ==
    [][\A kc \in Keys :
          (phase = "run" /\ down' = down \cup {kc} /\ kc \notin down
           /\ HeldCombo(kc, State)) => callback' # 0]_vars

(* No press runs a hotkey's action unless it is that hotkey's key with   *)
(* exactly its modifiers held, the lock keys aside: the lock bits        *)
(* platform_init and set_keygrab take from get_mod_mask are the ones the *)
(* keyboard's lock keys really set.                                       *)
HeldMods == {ModKeyBit[k] : k \in down \cap DOMAIN ModKeyBit}

NoSpuriousHotkey ==
    [][\A kc \in Keys :
          (phase = "run" /\ kc \notin down /\ down' = down \cup {kc}
           /\ callback' # 0)
          => /\ xhotkeys[callback'].key = kc
             /\ xhotkeys[callback'].mask \ ServerLockBits = HeldMods \ ServerLockBits]_vars

(* A key the focused remote was sent pressed is one the user still       *)
(* holds: every press forwarded by handle_keyevent is followed by its    *)
(* release.                                                               *)
FocusedKeysReleased == focus = "remote" => rheld \subseteq down
====

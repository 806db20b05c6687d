----------------------------- MODULE MC_Hotkeys -----------------------------
(* Hotkeys with four physical keys (X keycodes of a pc105 keyboard), NumLock *)
(* on mod2 and ScrollLock on mod3, and configurations that reach every       *)
(* outcome of bind_hotkey.                                                   *)
EXTENDS Hotkeys, TLC

CONSTANTS XK_a, XK_Right, XK_Shift_L, XK_F20, Bogus

\* xmodmap -pm of a pc105 keyboard, with Scroll_Lock added to mod3.
Rows == << <<50, 62, 0, 0>>,        \* shift: Shift_L Shift_R
           <<66, 0, 0, 0>>,         \* lock: Caps_Lock
           <<37, 105, 0, 0>>,       \* control: Control_L Control_R
           <<64, 205, 0, 0>>,       \* mod1: Alt_L Meta_L
           <<77, 0, 0, 0>>,         \* mod2: Num_Lock
           <<78, 0, 0, 0>>,         \* mod3: Scroll_Lock
           <<133, 134, 206, 207>>,  \* mod4: Super_L Super_R Super_L Hyper_L
           <<92, 203, 0, 0>> >>     \* mod5: ISO_Level3_Shift Mode_switch
MC_ModMap == [i \in 0..31 |-> Rows[i \div 4 + 1][(i % 4) + 1]]
MC_Syms == {XK_a, XK_Right, XK_Shift_L, XK_F20}
MC_ModifierSyms == {XK_Shift_L}
MC_SymKeycode == (XK_a :> 38) @@ (XK_Right :> 114) @@ (XK_Shift_L :> 50)
                 @@ (XK_F20 :> 0)
MC_Keys == {38, 114, 50, 37}
MC_ModKeyBit == (50 :> "shift") @@ (37 :> "control")

Good     == << <<"control", XK_Right>>, <<"shift", "control", XK_a>> >>
MC_Setups ==
    { [hotkeys |-> Good, others |-> {}],
      \* "control+mod2+Right" collides with "control+Right": mod2 is NumLock
      [hotkeys |-> << <<"control", XK_Right>>, <<"control", "mod2", XK_Right>> >>,
       others |-> {}],
      [hotkeys |-> << <<"control", Bogus>> >>, others |-> {}],
      [hotkeys |-> << <<XK_a, XK_Right>> >>, others |-> {}],
      [hotkeys |-> << <<"shift", XK_Shift_L>> >>, others |-> {}],
      [hotkeys |-> << <<"control", XK_F20>> >>, others |-> {}],
      [hotkeys |-> << <<"control", XK_Right>> >>,
       others |-> {<<114, {"control", "lock"}>>}] }
MC_GoodSetup == {[hotkeys |-> Good, others |-> {}]}
====

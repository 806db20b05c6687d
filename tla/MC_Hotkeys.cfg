\* Hotkey binding under every outcome, then key events with both focus modes.
CONSTANTS
  XK_a = XK_a
  XK_Right = XK_Right
  XK_Shift_L = XK_Shift_L
  XK_F20 = XK_F20
  Bogus = Bogus
  MaxKeyPerMod = 4
  ModMap <- MC_ModMap
  NumLockKey = 77
  ScrollLockKey = 78
  Syms <- MC_Syms
  ModifierSyms <- MC_ModifierSyms
  SymKeycode <- MC_SymKeycode
  Keys <- MC_Keys
  ModKeyBit <- MC_ModKeyBit
  Setups <- MC_Setups
  ActionFocus = {"master", "remote"}
SPECIFICATION Spec
\* bind_hotkeys exits the master on a bad or colliding hotkey.
CHECK_DEADLOCK FALSE
INVARIANT TypeOK GrabsAreHotkeys
PROPERTY HotkeyAlwaysFires NoSpuriousHotkey

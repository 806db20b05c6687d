\* Only SWITCHTO(remote) hotkeys: a key whose release matches a hotkey stays pressed on the remote.
CONSTANTS
  XK_a = XK_a
  XK_Right = XK_Right
  XK_Shift_L = XK_Shift_L
  XK_F20 = XK_F20
  Bogus = Bogus
  MaxKeyPerMod = 4
  ModMap <- MC_ModMap
  NumLockKey = 77
  ScrollLockKey = 78
  Syms <- MC_Syms
  ModifierSyms <- MC_ModifierSyms
  SymKeycode <- MC_SymKeycode
  Keys <- MC_Keys
  ModKeyBit <- MC_ModKeyBit
  Setups <- MC_GoodSetup
  ActionFocus = {"remote"}
SPECIFICATION Spec
INVARIANT FocusedKeysReleased

SPECIFICATION ClientsSpec
CONSTANTS
  Session <- MCSession
  ShiftKeys = {3}
  LockKeys = {4}
  GroupKeys = {5}
  Layouts = 2
  Locks = {"Lock"}
  Text = {"a", "A", "b", "B", "x", "y", "z"}
  Capital <- MCCapital
  Keysyms = {"a", "A", "x", "y", "Caps_Lock"}
  Codes = {3, 5}
  Buttons = {1}
  MaxExtra = 1
  MaxHeld = 2
  MaxKeymaps = 2
  Content = {1, 2}
  MaxCopies = 4
  Window = {w1, w2}
  Kind = {"card", "frame", "shapes", "plain"}
  Mode = {"disabled", "glass", "liquid"}
  Region = {"left", "right"}
  Strength = {50}
  MaxSurfaces = 2
  Button = {"b1", "b2", "b3"}
  WindowOf <- MCWindowOf
  Address = {"p", "q"}
  MaxAge = 2
INVARIANTS
  ClientsTypeOK
  KeysGivenBack
  SymbolsKept
  ClipboardAgrees
  EffectShown
PROPERTIES
  PointerRests
CHECK_DEADLOCK FALSE

---------------------------- MODULE VirtualInput ----------------------------
(***************************************************************************)
(* The guest's keyboard and buttons (sharing_host/rd_wayland.c with        *)
(* rd_keymap.c): a virtual keyboard that types the symbols a guest sends   *)
(* with the keymap of the session, to which it adds the symbols that       *)
(* keymap has no key for.                                                  *)
(*                                                                         *)
(* A keymap is one of the session's, by name, and the symbols added on its *)
(* unused keys.  A key is a sequence of layouts, a layout a sequence of    *)
(* levels: a symbol and the sets of modifiers that choose it.  Layouts are *)
(* counted from 1.  What xkbcommon and the compositor do with a keymap is  *)
(* external: a new keymap starts with no modifier and the first layout on  *)
(* both sides, and the compositor may send a keymap it was given back to   *)
(* the client, as it does when the keyboard in use changes.                *)
(***************************************************************************)
EXTENDS Integers, Sequences, FiniteSets

CONSTANTS
  Session,       \* the session's keymaps: name |-> [keycode |-> layouts]
  ShiftKeys,     \* keycodes that hold Shift down
  LockKeys,      \* keycodes that lock Caps Lock
  GroupKeys,     \* keycodes that switch to the next layout
  Layouts,       \* how many layouts a keymap has
  Locks,         \* lock_mods: "Lock" and "Num"
  Text,          \* the symbols that are characters (rd_keysym_is_text)
  Capital,       \* symbol |-> its capital
  Keysyms,       \* symbols the guest sends
  Codes,         \* keycodes the guest sends
  Buttons,       \* buttons the guest sends
  MaxExtra,      \* RD_MAX_EXTRA_KEYSYMS
  MaxHeld,       \* bound: symbols, keycodes and buttons held at once
  MaxKeymaps     \* bound: keymaps the compositor sends to the client

(* A keymap has finitely many keycodes.  A level of a key is chosen by sets *)
(* of modifiers, no two levels of a layout by the same one.                *)
Key == Seq(Seq([sym : STRING, masks : SUBSET SUBSET STRING]))
Distinct(levels) ==
  \A i, j \in DOMAIN levels : i # j => levels[i].masks \cap levels[j].masks = {}

ASSUME LimitsAssumption == Layouts \in Nat \ {0} /\ MaxExtra \in Nat \ {0}
ASSUME SessionAssumption ==
  \A b \in DOMAIN Session :
    /\ IsFiniteSet(DOMAIN Session[b]) /\ DOMAIN Session[b] \subseteq Nat
    /\ \A kc \in DOMAIN Session[b] :
         /\ Session[b][kc] \in Key
         /\ \A l \in DOMAIN Session[b][kc] :
              /\ Distinct(Session[b][kc][l])
              /\ \A i \in DOMAIN Session[b][kc][l] :
                   \A m \in Session[b][kc][l][i].masks : IsFiniteSet(m)

VARIABLES
  d,        \* the input half of RdDisplay
  seat,     \* compositor: the virtual keyboard and pointer
  coming,   \* keymaps on their way to the client, in order
  news,     \* how many keymaps the compositor has sent to the client
  orphan,   \* keys held for symbols when their keymap was replaced
  typed     \* the character just typed, as meant and as it is read

inputVars == <<d, seat, coming, news, orphan, typed>>

NoKeymap == [base |-> "none", extra |-> <<>>]
NoTarget == [keycode |-> 0]
Nothing == [meant |-> "NoSymbol", read |-> "NoSymbol", caps |-> FALSE]
Unused(b) == {kc \in DOMAIN Session[b] : Session[b][kc] = <<>>}
Added(n) == UNION {[1 .. k -> Text \cap Keysyms] : k \in 0 .. n}
Room == [b \in DOMAIN Session |-> Cardinality(Unused(b))]
Keymaps == UNION {[base : {b}, extra : Added(Room[b])] : b \in DOMAIN Session}

(* The function itself; TLC compares it, and keeps the table of its values.*)
Table(f) == CHOOSE g \in {f} : g = f

(* The keys of each keymap: its extra symbols are on the unused keys, the  *)
(* first of them on the highest.                                           *)
Keys ==
  LET nth(b, kc) == Cardinality({c \in Unused(b) : c >= kc})
      key(m, kc) ==
        IF kc \in Unused(m.base) /\ nth(m.base, kc) <= Len(m.extra)
        THEN <<<<[sym |-> m.extra[nth(m.base, kc)], masks |-> {{}}]>>>>
        ELSE Session[m.base][kc]
  IN  Table([m \in Keymaps |-> [kc \in DOMAIN Session[m.base] |-> key(m, kc)]])

-----------------------------------------------------------------------------
(* xkbcommon (external).                                                   *)

ModKeys == ShiftKeys \cup LockKeys \cup GroupKeys
Modifier(kc) ==
  IF kc \in ShiftKeys THEN {"Shift"} ELSE IF kc \in LockKeys THEN {"Lock"} ELSE {}

NewState == [held |-> [kc \in ModKeys |-> 0], locked |-> {}, unlocks |-> {}, layout |-> 1]
Depressed(st) == UNION {Modifier(kc) : kc \in {k \in ModKeys : st.held[k] > 0}}

update_key(st, kc, down) ==
  IF kc \notin ModKeys \/ (~down /\ st.held[kc] = 0) THEN st ELSE
  LET first == down /\ st.held[kc] = 0
      last  == ~down /\ st.held[kc] = 1
  IN  [held    |-> [st.held EXCEPT ![kc] = IF down THEN @ + 1 ELSE @ - 1],
       locked  |-> IF kc \notin LockKeys THEN st.locked
                   ELSE IF first THEN st.locked \cup Modifier(kc)
                   ELSE IF last /\ kc \in st.unlocks
                        THEN st.locked \ Modifier(kc) ELSE st.locked,
       unlocks |-> IF first /\ kc \in LockKeys /\ Modifier(kc) \cap st.locked # {}
                   THEN st.unlocks \cup {kc}
                   ELSE IF last THEN st.unlocks \ {kc} ELSE st.unlocks,
       layout  |-> IF first /\ kc \in GroupKeys
                   THEN (st.layout % Layouts) + 1 ELSE st.layout]

(* The modifiers a layout of a key looks at (level_mods of rd_keymap.c,    *)
(* and the modifiers of the key's type in xkbcommon).                      *)
level_mods(levels) == UNION UNION {levels[i].masks : i \in DOMAIN levels}

(* xkb_state_key_get_layout: a layout the key does not have is wrapped.    *)
KeyLayout(key, layout) ==
  IF key = <<>> THEN 0 ELSE ((layout - 1) % Len(key)) + 1

(* xkb_state_key_get_one_sym, the capitals of Caps Lock included.          *)
OneSym(key, layout, mods) ==
  IF key = <<>> THEN "NoSymbol" ELSE
  LET levels == key[KeyLayout(key, layout)]
      chosen == {i \in DOMAIN levels : (mods \cap level_mods(levels)) \in levels[i].masks}
      sym    == levels[IF chosen = {} THEN 1 ELSE CHOOSE i \in chosen : TRUE].sym
  IN  IF "Lock" \in mods \ level_mods(levels) /\ sym \in DOMAIN Capital
      THEN Capital[sym] ELSE sym

-----------------------------------------------------------------------------
(* Finding the key of a symbol (rd_keymap.c).                              *)

Score(mask) == Cardinality(mask \ Locks) + (IF mask \cap Locks # {} THEN 16 ELSE 0)

best_mask(masks) ==
  CHOOSE m \in masks : \A n \in masks : Score(m) <= Score(n)

(* Every place of the symbol in a layout, as <<level, keycode>>.           *)
Places(keys, sym, layout) ==
  {p \in (1 .. 8) \X DOMAIN keys :
     /\ layout <= Len(keys[p[2]])
     /\ p[1] <= Len(keys[p[2]][layout])
     /\ keys[p[2]][layout][p[1]].sym = sym
     /\ keys[p[2]][layout][p[1]].masks # {}}

find_in_layout(keys, sym, layout) ==
  LET places == Places(keys, sym, layout)
      first  == CHOOSE p \in places :
                  \A q \in places : p[1] < q[1] \/ (p[1] = q[1] /\ p[2] <= q[2])
      levels == keys[first[2]][layout]
  IN  IF places = {} THEN NoTarget
      ELSE [keycode |-> first[2], layout |-> layout,
            mods |-> best_mask(levels[first[1]].masks),
            level_mods |-> level_mods(levels)]

(* The layout in use first, then the others in order.                      *)
rd_keymap_find ==
  LET find(m, sym, prefer) ==
        LET found == {l \in 1 .. Layouts : find_in_layout(Keys[m], sym, l) # NoTarget}
        IN  IF found = {} THEN NoTarget
            ELSE find_in_layout(Keys[m], sym,
                   IF prefer \in found THEN prefer
                   ELSE CHOOSE l \in found : \A k \in found : l <= k)
  IN  Table([k \in Keymaps \X Keysyms \X (1 .. Layouts) |-> find(k[1], k[2], k[3])])

rd_keymap_add_keysyms(m, syms) ==
  IF Len(syms) = 0 \/ Len(m.extra) + Len(syms) > Room[m.base]
  THEN NoKeymap ELSE [m EXCEPT !.extra = @ \o syms]

-----------------------------------------------------------------------------
(* Requests.  A world w is the pair of the client and the compositor.      *)

World == [d |-> d, seat |-> seat]

KeyEvent(w, kc, down) ==
  [w EXCEPT !.seat.down = IF down THEN @ \cup {kc} ELSE @ \ {kc}]

Modifiers(w, depressed, locked, layout) ==
  [w EXCEPT !.seat.depressed = depressed, !.seat.locked = locked,
            !.seat.layout = layout]

send_modifiers(w) ==
  Modifiers(w, Depressed(w.d.state), w.d.state.locked, w.d.state.layout)

send_key(w, kc, down) ==
  send_modifiers([KeyEvent(w, kc, down)
                    EXCEPT !.d.state = update_key(w.d.state, kc, down)])

(* The character the compositor's applications read from a key.            *)
Reads(w, kc) ==
  OneSym(Keys[w.seat.keymap][kc], w.seat.layout, w.seat.depressed \cup w.seat.locked)

(* install_keymap: the keymap sent and the state made anew.                *)
install_keymap(w, m) ==
  [d    |-> [w.d EXCEPT !.keymap = m, !.state = NewState],
   seat |-> [w.seat EXCEPT !.keymap = m, !.depressed = {}, !.locked = {},
                           !.layout = 1]]

HeldSyms(w) == DOMAIN w.d.pressed_syms
KeysOf(w) == {w.d.pressed_syms[s].keycode : s \in HeldSyms(w)}
Forget(w, sym) ==
  [w EXCEPT !.d.pressed_syms = [s \in DOMAIN @ \ {sym} |-> @[s]]]

-----------------------------------------------------------------------------
(* Symbols.                                                                *)

(* rd_display_keysym (display, keysym, FALSE): the key it was pressed on.  *)
Released(w, sym) ==
  IF sym \notin HeldSyms(w) THEN w ELSE
  LET p == w.d.pressed_syms[sym]
  IN  IF p.override THEN KeyEvent(Forget(w, sym), p.keycode, FALSE)
      ELSE send_key(Forget(w, sym), p.keycode, FALSE)

(* extend_keymap: the outcomes, a keymap that cannot be sent included.     *)
\* Wrong: the keymap is replaced under keys that are held
extend_keymap_Held(w, sym) ==
  LET list == Append(IF Len(w.d.extra) >= MaxExtra THEN <<>> ELSE w.d.extra, sym)
      m    == rd_keymap_add_keysyms(w.d.base, list)
  IN  IF m = NoKeymap THEN {w}
      ELSE {install_keymap([w EXCEPT !.d.extra = list], m)}

\* Wrong: the list of added symbols never starts anew
extend_keymap_NoLimit(w, sym) ==
  LET list == Append(w.d.extra, sym)
      m    == rd_keymap_add_keysyms(w.d.base, list)
  IN  IF m = NoKeymap THEN {[w EXCEPT !.d.extra = list]}
      ELSE {install_keymap([w EXCEPT !.d.extra = list], m)}

extend_keymap(w, sym) ==
  LET kept == IF Len(w.d.extra) >= MaxExtra THEN <<>> ELSE w.d.extra
      list == Append(kept, sym)
      m    == rd_keymap_add_keysyms(w.d.base, list)
      none == [w EXCEPT !.d.extra = kept]
  IN  IF m = NoKeymap \/ HeldSyms(w) # {} \/ w.d.pressed_codes # {} THEN {none}
      ELSE {none, install_keymap([w EXCEPT !.d.extra = list], m)}

(* The rest of a press once the key is known.  A character the key would   *)
(* not give now is sent with the modifiers and the layout it needs, and    *)
(* the modifiers of the state are sent again behind it.                    *)
Borrowed(w, t) ==
  Modifiers(w, (Depressed(w.d.state) \ t.level_mods) \cup t.mods,
               w.d.state.locked \ t.level_mods, t.layout)

Overrides(w, sym, t) ==
  LET key == Keys[w.d.keymap][t.keycode]
      st  == w.d.state
  IN  /\ sym \in Text
      /\ \/ OneSym(key, st.layout, Depressed(st) \cup st.locked) # sym
         \/ KeyLayout(key, st.layout) # t.layout

\* Wrong: the borrowed modifiers are not given back
Pressed_Keep(w, sym, t) ==
  LET override == Overrides(w, sym, t)
      held == [w EXCEPT !.d.pressed_syms =
                 [s \in HeldSyms(w) \cup {sym} |->
                    IF s = sym THEN [keycode |-> t.keycode, override |-> override]
                    ELSE @[s]]]
  IN  IF override THEN KeyEvent(Borrowed(held, t), t.keycode, TRUE)
      ELSE send_key(held, t.keycode, TRUE)

Pressed(w, sym, t) ==
  LET override == Overrides(w, sym, t)
      held == [w EXCEPT !.d.pressed_syms =
                 [s \in HeldSyms(w) \cup {sym} |->
                    IF s = sym THEN [keycode |-> t.keycode, override |-> override]
                    ELSE @[s]]]
  IN  IF override THEN send_modifiers(KeyEvent(Borrowed(held, t), t.keycode, TRUE))
      ELSE send_key(held, t.keycode, TRUE)

(* What the compositor reads at the key event of that press.               *)
Read(w, sym, t) ==
  Reads(IF Overrides(w, sym, t) THEN Borrowed(w, t) ELSE w, t.keycode)

-----------------------------------------------------------------------------
InputTypeOK ==
  /\ d.base \in Keymaps \cup {NoKeymap} /\ d.keymap \in Keymaps \cup {NoKeymap}
  /\ Len(d.extra) <= MaxExtra
  /\ \A s \in DOMAIN d.pressed_syms :
       s \in Keysyms /\ d.pressed_syms[s].keycode \in DOMAIN Keys[d.keymap]
  /\ d.pressed_codes \subseteq Codes /\ d.pressed_buttons \subseteq Buttons
  /\ \A kc \in ModKeys : d.state.held[kc] \in Nat
  /\ d.state.layout \in 1 .. Layouts
  /\ seat.keymap = d.keymap
  /\ coming \in Seq(Keymaps)

InputInit ==
  /\ d = [base |-> NoKeymap, keymap |-> NoKeymap, extra |-> <<>>,
          pressed_syms |-> <<>>, pressed_codes |-> {}, pressed_buttons |-> {},
          state |-> NewState]
  /\ seat = [keymap |-> NoKeymap, down |-> {}, depressed |-> {}, locked |-> {},
             layout |-> 1, buttons |-> {}]
  /\ coming \in {<<[base |-> b, extra |-> <<>>]>> : b \in DOMAIN Session}
  /\ news = 1
  /\ orphan = {}
  /\ typed = Nothing

(* The step ends in world w; keys lost their symbols with the old keymap.  *)
Becomes(w, lost) ==
  /\ d' = w.d /\ seat' = w.seat
  /\ orphan' = (orphan \cup lost) \cap w.seat.down

(* The compositor sends a keymap to the client behind those on their way.  *)
Sends(rest, m) ==
  /\ news < MaxKeymaps
  /\ coming' = Append(rest, m) /\ news' = news + 1

(* It may answer a keymap that was sent by sending it back.                *)
Echo(w, rest) ==
  \/ coming' = rest /\ news' = news
  \/ w.seat.keymap # seat.keymap /\ Sends(rest, w.seat.keymap)

Held(w) == Cardinality(HeldSyms(w)) + Cardinality(w.d.pressed_codes)
           + Cardinality(w.d.pressed_buttons)

(* rd_display_keysym (display, keysym, TRUE).                              *)
PressKeysym(sym) ==
  LET w == Released(World, sym)
      t == rd_keymap_find[<<w.d.keymap, sym, w.d.state.layout>>]
  IN
  /\ d.keymap # NoKeymap /\ Held(w) < MaxHeld
  /\ \E x \in IF t # NoTarget \/ sym \notin Text THEN {w} ELSE extend_keymap(w, sym) :
       LET u == rd_keymap_find[<<x.d.keymap, sym, w.d.state.layout>>]
       IN  IF u = NoTarget
           THEN Becomes(x, {}) /\ Echo(x, coming) /\ typed' = Nothing
           ELSE /\ Becomes(Pressed(x, sym, u), {}) /\ Echo(x, coming)
                /\ typed' = IF sym \notin Text THEN Nothing ELSE
                     [meant |-> sym, read |-> Read(x, sym, u),
                      caps |-> "Lock" \in Depressed(x.d.state) \cup x.d.state.locked]

ReleaseKeysym(sym) ==
  /\ sym \in DOMAIN d.pressed_syms
  /\ Becomes(Released(World, sym), {})
  /\ UNCHANGED <<coming, news>> /\ typed' = Nothing

rd_display_keycode(code, pressed) ==
  /\ d.keymap # NoKeymap
  /\ pressed # (code \in d.pressed_codes)
  /\ pressed => Held(World) < MaxHeld
  /\ Becomes(send_key([World EXCEPT !.d.pressed_codes =
                         IF pressed THEN @ \cup {code} ELSE @ \ {code}],
                      code, pressed), {})
  /\ UNCHANGED <<coming, news>> /\ typed' = Nothing

rd_display_pointer_button(button, pressed) ==
  /\ pressed # (button \in d.pressed_buttons)
  /\ pressed => Held(World) < MaxHeld
  /\ LET b == IF pressed THEN d.pressed_buttons \cup {button}
              ELSE d.pressed_buttons \ {button}
     IN  d' = [d EXCEPT !.pressed_buttons = b] /\ seat' = [seat EXCEPT !.buttons = b]
  /\ UNCHANGED <<coming, news, orphan>> /\ typed' = Nothing

(* Every key of a symbol or a code and every button is released, and the   *)
(* state is told: a key held twice is released twice.                      *)
release_all(w) ==
  LET ups(kc) == Cardinality({s \in HeldSyms(w) : w.d.pressed_syms[s].keycode = kc})
                 + Cardinality({kc} \cap w.d.pressed_codes)
      st == w.d.state
      left(kc) == IF st.held[kc] > ups(kc) THEN st.held[kc] - ups(kc) ELSE 0
      lifted == {kc \in ModKeys : st.held[kc] > 0 /\ left(kc) = 0}
      after == [st EXCEPT !.held = [kc \in ModKeys |-> left(kc)],
                          !.locked = @ \ UNION {Modifier(kc) : kc \in st.unlocks \cap lifted},
                          !.unlocks = @ \ lifted]
      gone == [w EXCEPT !.seat.down = @ \ (KeysOf(w) \cup w.d.pressed_codes),
                        !.seat.buttons = {},
                        !.d.pressed_syms = <<>>, !.d.pressed_codes = {},
                        !.d.pressed_buttons = {}, !.d.state = after]
  IN  IF w.d.keymap = NoKeymap
      THEN [w EXCEPT !.seat.buttons = {}, !.d.pressed_buttons = {}]
      ELSE send_modifiers(gone)

rd_display_release_all ==
  /\ Becomes(release_all(World), {})
  /\ UNCHANGED <<coming, news>> /\ typed' = Nothing

(* adopt_keymap: our own keymap and the one in use are no news; another    *)
(* takes the place of the base, and what is held for symbols is forgotten. *)
adopt_keymap(w, m) ==
  IF m \in {w.d.keymap, w.d.base} THEN {w} ELSE
  LET new == [w EXCEPT !.d.base = m, !.d.extra = <<>>, !.d.pressed_syms = <<>>]
  IN  {new, install_keymap(new, m)}

keyboard_keymap ==
  /\ coming # <<>>
  /\ \E w \in adopt_keymap(World, Head(coming)) :
       /\ Becomes(w, KeysOf(World) \ KeysOf(w))
       /\ Echo(w, Tail(coming))
  /\ typed' = Nothing

(* The user chooses another keymap for the session (external).             *)
ChooseKeymap(b) ==
  /\ Sends(coming, [base |-> b, extra |-> <<>>])
  /\ UNCHANGED <<d, seat, orphan>> /\ typed' = Nothing

InputNext ==
  \/ \E sym \in Keysyms : PressKeysym(sym) \/ ReleaseKeysym(sym)
  \/ \E code \in Codes, pressed \in BOOLEAN : rd_display_keycode(code, pressed)
  \/ \E b \in Buttons, pressed \in BOOLEAN : rd_display_pointer_button(b, pressed)
  \/ rd_display_release_all
  \/ keyboard_keymap
  \/ \E b \in DOMAIN Session : ChooseKeymap(b)

InputSpec == InputInit /\ [][InputNext]_inputVars

-----------------------------------------------------------------------------
(* A key that is down was pressed by something still recorded, so that it  *)
(* is released with it or when the guest leaves; but for the keys held     *)
(* when a keymap was adopted, which are forgotten without being released.  *)
NothingStuck ==
  /\ seat.down \subseteq KeysOf(World) \cup d.pressed_codes \cup orphan
  /\ seat.buttons = d.pressed_buttons

(* The modifiers and the layout borrowed for one character are given back: *)
(* after each call the compositor has those of the keys really held.       *)
ModifiersReturned ==
  /\ seat.depressed = Depressed(d.state)
  /\ seat.locked = d.state.locked
  /\ seat.layout = d.state.layout

(* A character the guest types is the character the applications read,     *)
(* whatever is held, locked or chosen meanwhile; only Caps Lock makes a    *)
(* capital of it on a key that has no level for a capital.                 *)
TypedAsMeant ==
  \/ typed.read = typed.meant
  \/ typed.caps /\ typed.meant \in DOMAIN Capital /\ typed.read = Capital[typed.meant]

(* The key recorded for a held symbol has that symbol on the keymap in     *)
(* use: the keymap is never replaced under a key that is held.             *)
HeldKeysKeepTheirSymbol ==
  \A s \in DOMAIN d.pressed_syms :
    \E l \in 1 .. Layouts :
      LET key == Keys[d.keymap][d.pressed_syms[s].keycode]
      IN  l <= Len(key) /\ \E i \in DOMAIN key[l] : key[l][i].sym = s

(* What a key, a button or a borrowed modifier changed is undone by its    *)
(* release, or when the guest leaves.                                      *)
KeysGivenBack == NothingStuck /\ ModifiersReturned

(* What is typed, and what is still held, means what the guest meant.      *)
SymbolsKept == TypedAsMeant /\ HeldKeysKeepTheirSymbol
=============================================================================

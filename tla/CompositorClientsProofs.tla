----------------------- MODULE CompositorClientsProofs -----------------------
(***************************************************************************)
(* The safety of what the compositor is asked for, for every number of     *)
(* buttons, windows, surfaces and copies.                                  *)
(*                                                                         *)
(* The guest's keyboard comes first, for every keymap of the session,      *)
(* every number of layouts and of symbols added, and every way of holding  *)
(* keys.  The operators of VirtualInput are functions of a world, the      *)
(* client and the compositor, so the invariant is one of worlds: what is   *)
(* held is recorded with a key of the keymap in use that has its symbol    *)
(* (WorldOK), the compositor has the modifiers of the keys held            *)
(* (Informed), and every key that is down is recorded (Recorded).  There   *)
(* is a lemma for each operator, and a call keeps the invariant as its     *)
(* world does (BecomesOK).                                                 *)
(*                                                                         *)
(* That what is typed is what was meant needs a fact about keymaps besides *)
(* (LevelRead): the level of a key whose modifiers are borrowed is the one *)
(* that is read, as no two levels are chosen by the same modifiers, and a  *)
(* modifier the key does not look at changes nothing but the case.         *)
(*                                                                         *)
(* Snap buttons: the address a button remembers is that of its window's    *)
(* surface as long as the pointer is over the button, because a window is  *)
(* unmapped, and its buttons left, before its surface goes away; so the one*)
(* surface the compositor takes the pointer to rest on is that of the      *)
(* button that remembers one.                                              *)
(*                                                                         *)
(* Surface effects: what a widget and a surface remember of the calls made *)
(* is what those calls made of the surface (CachesAgree), as both forget   *)
(* when the surface goes away; so a call that is not made again because it *)
(* is remembered would change nothing.  A paint has four outcomes          *)
(* (PaintCases), whichever of the calls are missing or fail.               *)
(*                                                                         *)
(* The clipboard: client and compositor change the selection on both ends  *)
(* of a queue of events, so the invariant is about what is still in it: a  *)
(* source that lost the selection is cancelled there (SourceOwns), and     *)
(* before the device is told of the next one (Reporting); an offer that was*)
(* announced is followed by what is made of it (Offered).                  *)
(*                                                                         *)
(* At the end, the model of all four together does of each what that one   *)
(* may do.                                                                 *)
(***************************************************************************)
EXTENDS MCCompositorClients, FiniteSetTheorems, SequenceTheorems,
  WellFoundedInduction, TLAPS

-----------------------------------------------------------------------------
(* Least elements.                                                         *)

LEMMA LeastNat ==
  ASSUME NEW S \in SUBSET Nat, S # {}
  PROVE  \E m \in S : \A n \in S : m <= n
<1>1. \E m \in S : \A n \in S : ~(<<n, m>> \in OpToRel(<, Nat))
  BY NatLessThanWellFounded, WFMin
<1>2. PICK m \in S : \A n \in S : ~(<<n, m>> \in OpToRel(<, Nat))
  BY <1>1
<1>3. \A n \in S : ~(n < m)
  BY <1>2 DEF OpToRel
<1> QED
  BY <1>3

LEMMA LeastPair ==
  ASSUME NEW P \in SUBSET (Nat \X Nat), P # {}
  PROVE  \E p \in P : \A q \in P : p[1] < q[1] \/ (p[1] = q[1] /\ p[2] <= q[2])
<1> DEFINE levels == {p[1] : p \in P}
<1>1. PICK a \in levels : \A b \in levels : a <= b
  <2>1. levels \in SUBSET Nat /\ levels # {}
    OBVIOUS
  <2> QED
    BY <2>1, LeastNat
<1> DEFINE codes == {n \in Nat : <<a, n>> \in P}
<1>2. PICK c \in codes : \A n \in codes : c <= n
  <2>1. PICK p \in P : p[1] = a
    BY <1>1
  <2>2. p = <<a, p[2]>> /\ p[2] \in Nat
    BY <2>1
  <2>3. codes \in SUBSET Nat /\ codes # {}
    BY <2>1, <2>2
  <2> QED
    BY <2>3, LeastNat
<1>3. ASSUME NEW q \in P
      PROVE  a < q[1] \/ (a = q[1] /\ c <= q[2])
  <2>1. q = <<q[1], q[2]>> /\ q[1] \in Nat /\ q[2] \in Nat
    OBVIOUS
  <2>2. a \in Nat /\ a <= q[1]
    <3>1. q[1] \in levels
      OBVIOUS
    <3>2. levels \subseteq Nat
      OBVIOUS
    <3> QED
      BY <1>1, <3>1, <3>2
  <2>3. a = q[1] => q[2] \in codes
    BY <2>1
  <2> QED
    BY <1>2, <2>1, <2>2, <2>3
<1> QED
  <2>1. <<a, c>> \in P
    BY <1>2
  <2>2. <<a, c>>[1] = a /\ <<a, c>>[2] = c
    OBVIOUS
  <2> QED
    BY <1>3, <2>1, <2>2

-----------------------------------------------------------------------------
(* Keys.                                                                   *)

\* What the assumption says of a layout of a key, whatever its symbols are.
Layout(levels) ==
  /\ Len(levels) \in Nat /\ DOMAIN levels = 1 .. Len(levels)
  /\ Distinct(levels)
  /\ \A i \in DOMAIN levels : \A m \in levels[i].masks : IsFiniteSet(m) /\ m \subseteq STRING

Readable(key) ==
  Len(key) \in Nat /\ \A l \in 1 .. Len(key) : Layout(key[l])

LEMMA OneKey ==
  ASSUME NEW sym
  PROVE  Readable(<<<<[sym |-> sym, masks |-> {{}}]>>>>)
<1> DEFINE level == [sym |-> sym, masks |-> {{}}]
           levels == <<level>>
<1>1. level.masks = {{}}
  OBVIOUS
<1>2. \A m \in level.masks : IsFiniteSet(m) /\ m \subseteq STRING
  BY <1>1, FS_EmptySet
<1> HIDE DEF level
<1>3. Len(levels) = 1 /\ DOMAIN levels = 1 .. 1 /\ levels[1] = level
  OBVIOUS
<1> HIDE DEF levels
<1>4. Distinct(levels)
  BY <1>3 DEF Distinct
<1>5. Layout(levels)
  BY <1>2, <1>3, <1>4 DEF Layout
<1>6. Len(<<levels>>) = 1 /\ <<levels>>[1] = levels
  OBVIOUS
<1>7. Readable(<<levels>>)
  BY <1>5, <1>6 DEF Readable
<1> QED
  BY <1>7 DEF levels, level

LEMMA SessionKeys ==
  ASSUME NEW b \in DOMAIN Session, NEW kc \in DOMAIN Session[b]
  PROVE  Readable(Session[b][kc])
<1> DEFINE key == Session[b][kc]
<1>1. key \in Key
  BY SessionAssumption
<1>2. \A l \in DOMAIN key : /\ Distinct(key[l])
                            /\ \A i \in DOMAIN key[l] : \A m \in key[l][i].masks : IsFiniteSet(m)
  BY SessionAssumption
<1> HIDE DEF key
<1>3. Len(key) \in Nat /\ DOMAIN key = 1 .. Len(key)
  BY <1>1 DEF Key
<1>4. ASSUME NEW l \in 1 .. Len(key)
      PROVE  /\ Len(key[l]) \in Nat /\ DOMAIN key[l] = 1 .. Len(key[l])
             /\ \A i \in DOMAIN key[l] : key[l][i].masks \in SUBSET SUBSET STRING
  <2> DEFINE level == [sym : STRING, masks : SUBSET SUBSET STRING]
  <2>1. key[l] \in Seq(level)
    BY <1>1 DEF Key
  <2>2. \A v \in level : v.masks \in SUBSET SUBSET STRING
    OBVIOUS
  <2> HIDE DEF level
  <2>3. Len(key[l]) \in Nat /\ DOMAIN key[l] = 1 .. Len(key[l])
    BY <2>1, LenProperties
  <2>4. \A i \in DOMAIN key[l] : key[l][i] \in level
    BY <2>1, <2>3, ElementOfSeq
  <2> QED
    BY <2>2, <2>3, <2>4
<1>5. Readable(key)
  BY <1>2, <1>3, <1>4 DEF Readable, Layout
<1> QED
  BY <1>5 DEF key

LEMMA TableIsFunction == \A f : Table(f) = f
BY DEF Table

\* The key an added symbol is on.
Nth(b, kc) == Cardinality({c \in Unused(b) : c >= kc})
IsAdded(m, kc) == kc \in Unused(m.base) /\ Nth(m.base, kc) <= Len(m.extra)

LEMMA KeysOfKeymap ==
  ASSUME NEW m \in Keymaps
  PROVE  /\ m.base \in DOMAIN Session
         /\ DOMAIN Keys[m] = DOMAIN Session[m.base]
         /\ \A kc \in DOMAIN Keys[m] :
              Keys[m][kc] = IF IsAdded(m, kc)
                            THEN <<<<[sym |-> m.extra[Nth(m.base, kc)], masks |-> {{}}]>>>>
                            ELSE Session[m.base][kc]
<1> DEFINE key(n, kc) == IF IsAdded(n, kc)
                         THEN <<<<[sym |-> n.extra[Nth(n.base, kc)], masks |-> {{}}]>>>>
                         ELSE Session[n.base][kc]
           keys == [n \in Keymaps |-> [kc \in DOMAIN Session[n.base] |-> key(n, kc)]]
<1>1. Keys = keys
  BY TableIsFunction DEF Keys, Nth, IsAdded
<1>2. m.base \in DOMAIN Session
  BY DEF Keymaps
<1> HIDE DEF key
<1>3. Keys[m] = [kc \in DOMAIN Session[m.base] |-> key(m, kc)]
  BY <1>1
<1>4. DOMAIN Keys[m] = DOMAIN Session[m.base] /\ \A kc \in DOMAIN Keys[m] : Keys[m][kc] = key(m, kc)
  BY <1>3
<1> QED
  BY <1>2, <1>4 DEF key

LEMMA ReadableKeys ==
  ASSUME NEW m \in Keymaps
  PROVE  /\ DOMAIN Keys[m] \subseteq Nat
         /\ \A kc \in DOMAIN Keys[m] : Readable(Keys[m][kc])
<1>1. m.base \in DOMAIN Session /\ DOMAIN Keys[m] = DOMAIN Session[m.base]
  BY KeysOfKeymap
<1>2. DOMAIN Keys[m] \subseteq Nat
  BY <1>1, SessionAssumption
<1>3. ASSUME NEW kc \in DOMAIN Keys[m]
      PROVE  Readable(Keys[m][kc])
  <2>1. CASE IsAdded(m, kc)
    BY <2>1, KeysOfKeymap, OneKey
  <2>2. CASE ~IsAdded(m, kc)
    BY <1>1, <2>2, KeysOfKeymap, SessionKeys
  <2> QED
    BY <2>1, <2>2
<1> QED
  BY <1>2, <1>3

\* A layout the key has is not wrapped.
LEMMA OwnLayout ==
  ASSUME NEW key, Readable(key), NEW l \in 1 .. Len(key)
  PROVE  key # <<>> /\ KeyLayout(key, l) = l
<1>1. Len(key) \in Nat /\ Len(key) # 0 /\ l - 1 \in 0 .. Len(key) - 1
  BY DEF Readable
<1>2. key # <<>>
  BY <1>1
<1>3. (l - 1) % Len(key) = l - 1
  BY <1>1, SMTT(30)
<1> QED
  BY <1>1, <1>2, <1>3 DEF KeyLayout

\* The level whose masks hold the modifiers is the one that is read.
LEMMA LevelRead ==
  ASSUME NEW key, Readable(key), NEW l \in 1 .. Len(key),
         NEW i \in DOMAIN key[l], NEW mods,
         mods \cap level_mods(key[l]) \in key[l][i].masks
  PROVE  OneSym(key, l, mods) =
           IF "Lock" \in mods \ level_mods(key[l]) /\ key[l][i].sym \in DOMAIN Capital
           THEN Capital[key[l][i].sym] ELSE key[l][i].sym
<1> DEFINE levels == key[l]
           chosen == {j \in DOMAIN levels : (mods \cap level_mods(levels)) \in levels[j].masks}
<1>1. key # <<>> /\ KeyLayout(key, l) = l
  BY OwnLayout
<1>2. \A j \in chosen : j = i
  <2>1. Distinct(levels)
    BY DEF Readable, Layout
  <2> QED
    BY <2>1 DEF Distinct
<1>3. i \in chosen
  OBVIOUS
<1>4. (IF chosen = {} THEN 1 ELSE CHOOSE j \in chosen : TRUE) = i
  BY <1>2, <1>3
<1> DEFINE sym == levels[IF chosen = {} THEN 1 ELSE CHOOSE j \in chosen : TRUE].sym
<1>5. OneSym(key, l, mods) =
        IF "Lock" \in mods \ level_mods(levels) /\ sym \in DOMAIN Capital
        THEN Capital[sym] ELSE sym
  <2>1. key # <<>> /\ key[KeyLayout(key, l)] = levels
    BY <1>1
  <2> HIDE DEF levels
  <2> QED
    BY <2>1 DEF OneSym
<1> QED
  BY <1>4, <1>5

-----------------------------------------------------------------------------
(* Finding the key of a symbol.                                            *)

LEMMA BestMask ==
  ASSUME NEW masks, masks # {}, \A m \in masks : IsFiniteSet(m)
  PROVE  best_mask(masks) \in masks
<1>1. ASSUME NEW m \in masks
      PROVE  Score(m) \in Nat
  <2>1. IsFiniteSet(m \ Locks)
    BY FS_Difference
  <2>2. Cardinality(m \ Locks) \in Nat
    BY <2>1, FS_CardinalityType
  <2> QED
    BY <2>2 DEF Score
<1> DEFINE scores == {Score(m) : m \in masks}
<1>2. scores \in SUBSET Nat /\ scores # {}
  BY <1>1
<1>3. PICK least \in scores : \A n \in scores : least <= n
  BY <1>2, LeastNat
<1>4. \E m \in masks : \A n \in masks : Score(m) <= Score(n)
  BY <1>3
<1> QED
  BY <1>4 DEF best_mask

\* What a target found for a symbol says: at its place is the symbol, on a level that
\* its modifiers choose.
IsTarget(m, sym, t) ==
  LET key == Keys[m][t.keycode]
      levels == key[t.layout]
  IN  /\ t.keycode \in DOMAIN Keys[m]
      /\ t.layout \in 1 .. Layouts /\ t.layout <= Len(key)
      /\ t.level_mods = level_mods(levels)
      /\ \E i \in DOMAIN levels : levels[i].sym = sym /\ t.mods \in levels[i].masks

LEMMA FoundInLayout ==
  ASSUME NEW m \in Keymaps, NEW sym, NEW l \in 1 .. Layouts,
         find_in_layout(Keys[m], sym, l) # NoTarget
  PROVE  IsTarget(m, sym, find_in_layout(Keys[m], sym, l))
<1> DEFINE keys == Keys[m]
           places == Places(keys, sym, l)
           first == CHOOSE p \in places :
                      \A q \in places : p[1] < q[1] \/ (p[1] = q[1] /\ p[2] <= q[2])
           levels == keys[first[2]][l]
           t == [keycode |-> first[2], layout |-> l,
                 mods |-> best_mask(levels[first[1]].masks),
                 level_mods |-> level_mods(levels)]
<1>1. places # {} /\ find_in_layout(keys, sym, l) = t
  BY DEF find_in_layout
<1>2. places \in SUBSET (Nat \X Nat)
  <2>1. DOMAIN keys \subseteq Nat
    BY ReadableKeys
  <2> QED
    BY <2>1 DEF Places
<1>3. first \in places
  BY <1>1, <1>2, LeastPair
<1>4. /\ first[1] \in 1 .. 8 /\ first[2] \in DOMAIN keys
      /\ l <= Len(keys[first[2]])
      /\ first[1] <= Len(levels)
      /\ levels[first[1]].sym = sym
      /\ levels[first[1]].masks # {}
  <2> HIDE DEF first, keys
  <2> QED
    BY <1>3 DEF Places
<1> HIDE DEF first
<1>5. l \in 1 .. Len(keys[first[2]])
  <2>1. Len(keys[first[2]]) \in Nat /\ Layouts \in Nat
    BY <1>4, ReadableKeys, LimitsAssumption DEF Readable
  <2> QED
    BY <1>4, <2>1
<1>6. Layout(levels)
  BY <1>4, <1>5, ReadableKeys DEF Readable
<1>7. first[1] \in DOMAIN levels
  BY <1>4, <1>6 DEF Layout
<1>8. best_mask(levels[first[1]].masks) \in levels[first[1]].masks
  <2>1. \A k \in levels[first[1]].masks : IsFiniteSet(k)
    BY <1>6, <1>7 DEF Layout
  <2> QED
    BY <1>4, <2>1, BestMask
<1>9. /\ t.keycode = first[2] /\ t.layout = l /\ t.level_mods = level_mods(levels)
      /\ t.mods = best_mask(levels[first[1]].masks)
  OBVIOUS
<1> HIDE DEF t
<1>10. IsTarget(m, sym, t)
  BY <1>4, <1>7, <1>8, <1>9 DEF IsTarget
<1> QED
  BY <1>1, <1>10

LEMMA FoundTarget ==
  ASSUME NEW m \in Keymaps, NEW sym \in Keysyms, NEW prefer \in 1 .. Layouts,
         rd_keymap_find[<<m, sym, prefer>>] # NoTarget
  PROVE  IsTarget(m, sym, rd_keymap_find[<<m, sym, prefer>>])
<1> DEFINE found(n, y) == {l \in 1 .. Layouts : find_in_layout(Keys[n], y, l) # NoTarget}
           find(n, y, p) ==
             IF found(n, y) = {} THEN NoTarget
             ELSE find_in_layout(Keys[n], y,
                    IF p \in found(n, y) THEN p
                    ELSE CHOOSE l \in found(n, y) : \A k \in found(n, y) : l <= k)
           F == [k \in Keymaps \X Keysyms \X (1 .. Layouts) |-> find(k[1], k[2], k[3])]
<1>1. rd_keymap_find = F
  BY TableIsFunction DEF rd_keymap_find
<1>2. F[<<m, sym, prefer>>] = find(m, sym, prefer)
  <2> DEFINE k == <<m, sym, prefer>>
  <2> HIDE DEF find
  <2>1. k \in Keymaps \X Keysyms \X (1 .. Layouts) /\ k[1] = m /\ k[2] = sym /\ k[3] = prefer
    OBVIOUS
  <2> HIDE DEF k
  <2>2. F[k] = find(k[1], k[2], k[3])
    BY <2>1
  <2> QED
    BY <2>1, <2>2 DEF k
<1>3. found(m, sym) # {}
  BY <1>1, <1>2
<1>4. \E l \in found(m, sym) : \A k \in found(m, sym) : l <= k
  <2>1. found(m, sym) \in SUBSET Nat
    BY LimitsAssumption
  <2> QED
    BY <1>3, <2>1, LeastNat
<1>5. PICK l \in found(m, sym) : find(m, sym, prefer) = find_in_layout(Keys[m], sym, l)
  BY <1>3, <1>4
<1> QED
  BY <1>1, <1>2, <1>5, FoundInLayout

-----------------------------------------------------------------------------
(* Worlds: what is true of client and compositor after every request.      *)

Locking == {"Shift", "Lock"}
AnyModifier == STRING \cup Locking
KeyState ==
  [held : [ModKeys -> Nat], locked : SUBSET Locking, unlocks : SUBSET ModKeys,
   layout : 1 .. Layouts]
HeldSymbols ==
  UNION {[S -> [keycode : Nat, override : BOOLEAN]] : S \in SUBSET Keysyms}
Display ==
  [base : Keymaps \cup {NoKeymap}, keymap : Keymaps \cup {NoKeymap},
   extra : Seq(Text \cap Keysyms), pressed_syms : HeldSymbols,
   pressed_codes : SUBSET Codes, pressed_buttons : SUBSET Buttons, state : KeyState]
Seat ==
  [keymap : Keymaps \cup {NoKeymap}, down : SUBSET (Nat \cup Codes),
   depressed : SUBSET AnyModifier, locked : SUBSET Locking, layout : 1 .. Layouts,
   buttons : SUBSET Buttons]

HasSymbol(m, kc, sym) ==
  /\ kc \in DOMAIN Keys[m]
  /\ \E l \in 1 .. Layouts :
       l <= Len(Keys[m][kc]) /\ \E i \in DOMAIN Keys[m][kc][l] : Keys[m][kc][l][i].sym = sym

\* What is held is recorded with the keymap in use, which both sides know.
WorldOK(w) ==
  /\ w \in [d : Display, seat : Seat]
  /\ w.seat.keymap = w.d.keymap
  /\ Len(w.d.extra) <= MaxExtra
  /\ w.d.keymap # NoKeymap => w.d.keymap \in Keymaps /\ w.d.base \in Keymaps
  /\ IsFiniteSet(HeldSyms(w))
  /\ \A s \in HeldSyms(w) : /\ w.d.keymap # NoKeymap
                            /\ HasSymbol(w.d.keymap, w.d.pressed_syms[s].keycode, s)

\* The compositor has the modifiers and the layout of the keys held.
Informed(w) ==
  /\ w.seat.depressed = Depressed(w.d.state)
  /\ w.seat.locked = w.d.state.locked
  /\ w.seat.layout = w.d.state.layout

\* The keys that are down are those recorded, but for those in o.
Recorded(w, o) ==
  /\ w.seat.down \subseteq KeysOf(w) \cup w.d.pressed_codes \cup o
  /\ w.seat.buttons = w.d.pressed_buttons

\* A world differs from another in modifiers and the keys that are down only.
SameHeld(u, w) ==
  /\ u.d.base = w.d.base /\ u.d.keymap = w.d.keymap /\ u.d.extra = w.d.extra
  /\ u.d.pressed_syms = w.d.pressed_syms /\ u.d.pressed_codes = w.d.pressed_codes
  /\ u.d.pressed_buttons = w.d.pressed_buttons
  /\ u.seat.keymap = w.seat.keymap /\ u.seat.buttons = w.seat.buttons

LEMMA SameHeldOK ==
  ASSUME NEW w, WorldOK(w), NEW u \in [d : Display, seat : Seat], SameHeld(u, w)
  PROVE  WorldOK(u) /\ HeldSyms(u) = HeldSyms(w) /\ KeysOf(u) = KeysOf(w)
<1>1. HeldSyms(u) = HeldSyms(w)
  BY DEF SameHeld, HeldSyms
<1>2. KeysOf(u) = KeysOf(w)
  BY <1>1 DEF SameHeld, KeysOf
<1>3. WorldOK(u)
  BY <1>1 DEF SameHeld, WorldOK
<1> QED
  BY <1>1, <1>2, <1>3

LEMMA DepressedType == \A st : Depressed(st) \in SUBSET AnyModifier
<1>1. \A kc : Modifier(kc) \in SUBSET AnyModifier
  BY DEF Modifier, AnyModifier, Locking
<1> QED
  BY <1>1 DEF Depressed

LEMMA UpdateKeyType ==
  ASSUME NEW st \in KeyState, NEW kc, NEW down \in BOOLEAN
  PROVE  update_key(st, kc, down) \in KeyState
<1>1. CASE kc \notin ModKeys \/ (~down /\ st.held[kc] = 0)
  BY <1>1 DEF update_key
<1>2. CASE kc \in ModKeys /\ ~(~down /\ st.held[kc] = 0)
  <2> DEFINE u == update_key(st, kc, down)
             first == down /\ st.held[kc] = 0
             last == ~down /\ st.held[kc] = 1
             held == [st.held EXCEPT ![kc] = IF down THEN @ + 1 ELSE @ - 1]
             locked == IF kc \notin LockKeys THEN st.locked
                   ELSE IF first THEN st.locked \cup Modifier(kc)
                   ELSE IF last /\ kc \in st.unlocks
                        THEN st.locked \ Modifier(kc) ELSE st.locked
             unlocks == IF first /\ kc \in LockKeys /\ Modifier(kc) \cap st.locked # {}
                   THEN st.unlocks \cup {kc}
                   ELSE IF last THEN st.unlocks \ {kc} ELSE st.unlocks
             layout == IF first /\ kc \in GroupKeys
                   THEN (st.layout % Layouts) + 1 ELSE st.layout
  <2>1. /\ st.held \in [ModKeys -> Nat] /\ st.locked \in SUBSET Locking
        /\ st.unlocks \in SUBSET ModKeys /\ st.layout \in 1 .. Layouts
    BY DEF KeyState
  <2>2. u = [held |-> held, locked |-> locked, unlocks |-> unlocks, layout |-> layout]
    BY <1>2 DEF update_key
  <2>3. held \in [ModKeys -> Nat]
    BY <1>2, <2>1
  <2>4. locked \in SUBSET Locking
    BY <2>1 DEF Modifier, Locking
  <2>5. unlocks \in SUBSET ModKeys
    BY <1>2, <2>1
  <2>6. layout \in 1 .. Layouts
    <3>1. st.layout % Layouts \in 0 .. Layouts - 1
      BY <2>1, LimitsAssumption
    <3> QED
      BY <2>1, <3>1, LimitsAssumption
  <2> HIDE DEF held, locked, unlocks, layout
  <2> QED
    BY <2>2, <2>3, <2>4, <2>5, <2>6 DEF KeyState
<1> QED
  BY <1>1, <1>2

LEMMA SetModifiers ==
  ASSUME NEW w, WorldOK(w), NEW down \in SUBSET AnyModifier, NEW locks \in SUBSET Locking,
         NEW layout \in 1 .. Layouts
  PROVE  LET u == Modifiers(w, down, locks, layout)
         IN  /\ WorldOK(u) /\ SameHeld(u, w) /\ u.d = w.d /\ u.seat.down = w.seat.down
             /\ u.seat.depressed = down /\ u.seat.locked = locks /\ u.seat.layout = layout
<1> DEFINE u == Modifiers(w, down, locks, layout)
<1>1. w.d \in Display /\ w.seat \in Seat /\ w \in [d : Display, seat : Seat]
  BY DEF WorldOK
<1>2. /\ u.d = w.d
      /\ u.seat = [w.seat EXCEPT !.depressed = down, !.locked = locks, !.layout = layout]
      /\ u = [d |-> u.d, seat |-> u.seat]
  <2>1. u = [w EXCEPT !.seat.depressed = down, !.seat.locked = locks, !.seat.layout = layout]
    BY DEF Modifiers
  <2> HIDE DEF u
  <2> QED
    BY <1>1, <2>1
<1> HIDE DEF u
<1>3. /\ u.seat.depressed = down /\ u.seat.locked = locks
      /\ u.seat.layout = layout /\ u.seat.keymap = w.seat.keymap
      /\ u.seat.down = w.seat.down /\ u.seat.buttons = w.seat.buttons
  BY <1>1, <1>2 DEF Seat
<1>4. u.seat \in Seat
  BY <1>1, <1>2 DEF Seat
<1>5. u \in [d : Display, seat : Seat] /\ SameHeld(u, w)
  BY <1>1, <1>2, <1>3, <1>4 DEF SameHeld
<1>6. WorldOK(u)
  BY <1>5, SameHeldOK
<1> QED
  BY <1>2, <1>3, <1>5, <1>6 DEF u

LEMMA SendModifiers ==
  ASSUME NEW w, WorldOK(w)
  PROVE  /\ WorldOK(send_modifiers(w)) /\ Informed(send_modifiers(w))
         /\ SameHeld(send_modifiers(w), w)
         /\ send_modifiers(w).seat.down = w.seat.down /\ send_modifiers(w).d = w.d
<1>1. w.d.state \in KeyState
  BY DEF WorldOK, Display
<1>2. /\ Depressed(w.d.state) \in SUBSET AnyModifier /\ w.d.state.locked \in SUBSET Locking
      /\ w.d.state.layout \in 1 .. Layouts
  BY <1>1, DepressedType DEF KeyState
<1> QED
  BY <1>2, SetModifiers DEF send_modifiers, Informed

LEMMA PressOrRelease ==
  ASSUME NEW w, WorldOK(w), NEW kc \in Nat \cup Codes, NEW down \in BOOLEAN
  PROVE  LET u == KeyEvent(w, kc, down)
         IN  /\ WorldOK(u) /\ SameHeld(u, w) /\ u.d = w.d
             /\ u.seat.down = IF down THEN w.seat.down \cup {kc} ELSE w.seat.down \ {kc}
             /\ Informed(w) => Informed(u)
<1> DEFINE now == IF down THEN w.seat.down \cup {kc} ELSE w.seat.down \ {kc}
           u == KeyEvent(w, kc, down)
<1>1. w.d \in Display /\ w.seat \in Seat /\ w \in [d : Display, seat : Seat]
  BY DEF WorldOK
<1>2. now \in SUBSET (Nat \cup Codes)
  BY <1>1 DEF Seat
<1>3. u = [w EXCEPT !.seat.down = now]
  BY DEF KeyEvent
<1> HIDE DEF u, now
<1>4. u.d = w.d /\ u.seat = [w.seat EXCEPT !.down = now] /\ u = [d |-> u.d, seat |-> u.seat]
  BY <1>1, <1>3
<1>5. /\ u.seat \in Seat /\ u.seat.down = now /\ u.seat.keymap = w.seat.keymap
      /\ u.seat.buttons = w.seat.buttons /\ u.seat.depressed = w.seat.depressed
      /\ u.seat.locked = w.seat.locked /\ u.seat.layout = w.seat.layout
  BY <1>1, <1>2, <1>4 DEF Seat
<1>6. u \in [d : Display, seat : Seat] /\ SameHeld(u, w)
  BY <1>1, <1>4, <1>5 DEF SameHeld
<1>7. WorldOK(u)
  BY <1>6, SameHeldOK
<1>8. Informed(w) => Informed(u)
  BY <1>4, <1>5 DEF Informed
<1> QED
  BY <1>4, <1>5, <1>6, <1>7, <1>8 DEF u, now

LEMMA SendKey ==
  ASSUME NEW w, WorldOK(w), NEW kc \in Nat \cup Codes, NEW down \in BOOLEAN
  PROVE  /\ WorldOK(send_key(w, kc, down)) /\ Informed(send_key(w, kc, down))
         /\ SameHeld(send_key(w, kc, down), w)
         /\ send_key(w, kc, down).seat.down =
              IF down THEN w.seat.down \cup {kc} ELSE w.seat.down \ {kc}
<1> DEFINE st == update_key(w.d.state, kc, down)
           now == IF down THEN w.seat.down \cup {kc} ELSE w.seat.down \ {kc}
           u == [KeyEvent(w, kc, down) EXCEPT !.d.state = st]
<1>1. w.d \in Display /\ w.seat \in Seat /\ w \in [d : Display, seat : Seat]
  BY DEF WorldOK
<1>2. st \in KeyState
  BY <1>1, UpdateKeyType DEF Display
<1>3. now \in SUBSET (Nat \cup Codes)
  BY <1>1 DEF Seat
<1>4. send_key(w, kc, down) = send_modifiers(u)
  BY DEF send_key
<1>5. u.d = [w.d EXCEPT !.state = st] /\ u.seat = [w.seat EXCEPT !.down = now]
      /\ u = [d |-> u.d, seat |-> u.seat]
  <2> HIDE DEF st
  <2>1. KeyEvent(w, kc, down) = [w EXCEPT !.seat.down = now]
    BY DEF KeyEvent
  <2> HIDE DEF now
  <2>2. u = [[w EXCEPT !.seat.down = now] EXCEPT !.d.state = st]
    BY <2>1
  <2> HIDE DEF u
  <2> QED
    BY <1>1, <2>2
<1> HIDE DEF u, st, now
<1>6. u.d \in Display /\ u.seat \in Seat
  BY <1>1, <1>2, <1>3, <1>5 DEF Display, Seat
<1>7. u \in [d : Display, seat : Seat] /\ SameHeld(u, w) /\ u.seat.down = now
  <2>1. SameHeld(u, w)
    BY <1>1, <1>5 DEF Display, Seat, SameHeld
  <2>2. u.seat.down = now
    BY <1>1, <1>5 DEF Seat
  <2> QED
    BY <1>5, <1>6, <2>1, <2>2
<1>8. WorldOK(u)
  BY <1>7, SameHeldOK
<1>9. /\ WorldOK(send_modifiers(u)) /\ Informed(send_modifiers(u)) /\ SameHeld(send_modifiers(u), u)
      /\ send_modifiers(u).seat.down = now
  BY <1>7, <1>8, SendModifiers
<1>10. SameHeld(send_modifiers(u), w)
  BY <1>7, <1>9 DEF SameHeld
<1> QED
  BY <1>4, <1>9, <1>10 DEF now

-----------------------------------------------------------------------------
(* Releasing and pressing symbols.                                         *)

\* Only what is recorded of held symbols differs.
LEMMA NewSymbols ==
  ASSUME NEW w, WorldOK(w), NEW S \in SUBSET Keysyms, IsFiniteSet(S),
         NEW f \in [S -> [keycode : Nat, override : BOOLEAN]],
         \A s \in S : w.d.keymap # NoKeymap /\ HasSymbol(w.d.keymap, f[s].keycode, s),
         NEW u, u = [w EXCEPT !.d.pressed_syms = f]
  PROVE  /\ WorldOK(u) /\ u.seat = w.seat /\ u.d = [w.d EXCEPT !.pressed_syms = f]
         /\ HeldSyms(u) = S /\ KeysOf(u) = {f[s].keycode : s \in S}
         /\ u.d.base = w.d.base /\ u.d.keymap = w.d.keymap /\ u.d.extra = w.d.extra
         /\ u.d.pressed_codes = w.d.pressed_codes /\ u.d.state = w.d.state
         /\ u.d.pressed_buttons = w.d.pressed_buttons
         /\ Informed(w) => Informed(u)
<1>1. w.d \in Display /\ w.seat \in Seat /\ w \in [d : Display, seat : Seat]
  BY DEF WorldOK
<1>2. u.seat = w.seat /\ u.d = [w.d EXCEPT !.pressed_syms = f] /\ u = [d |-> u.d, seat |-> u.seat]
  BY <1>1
<1>3. /\ u.d.base = w.d.base /\ u.d.keymap = w.d.keymap /\ u.d.extra = w.d.extra
      /\ u.d.pressed_codes = w.d.pressed_codes /\ u.d.state = w.d.state
      /\ u.d.pressed_buttons = w.d.pressed_buttons /\ u.d.pressed_syms = f
  BY <1>1, <1>2 DEF Display
<1>4. f \in HeldSymbols
  BY DEF HeldSymbols
<1>5. u.d \in Display
  BY <1>1, <1>2, <1>4 DEF Display
<1>6. HeldSyms(u) = S /\ KeysOf(u) = {f[s].keycode : s \in S}
  BY <1>3 DEF HeldSyms, KeysOf
<1>7. u \in [d : Display, seat : Seat]
  BY <1>1, <1>2, <1>5
<1>8. WorldOK(u)
  BY <1>2, <1>3, <1>6, <1>7 DEF WorldOK
<1>9. Informed(w) => Informed(u)
  BY <1>2, <1>3 DEF Informed
<1> QED
  BY <1>2, <1>3, <1>6, <1>8, <1>9

LEMMA HeldFunction ==
  ASSUME NEW w, WorldOK(w)
  PROVE  /\ HeldSyms(w) \in SUBSET Keysyms
         /\ w.d.pressed_syms \in [HeldSyms(w) -> [keycode : Nat, override : BOOLEAN]]
<1>1. w.d.pressed_syms \in HeldSymbols
  BY DEF WorldOK, Display
<1> QED
  BY <1>1 DEF HeldSymbols, HeldSyms

\* What a release leaves alone.
Kept(u, w) ==
  /\ u.d.base = w.d.base /\ u.d.keymap = w.d.keymap /\ u.d.extra = w.d.extra
  /\ u.d.pressed_codes = w.d.pressed_codes /\ u.d.pressed_buttons = w.d.pressed_buttons

LEMMA ReleasedOK ==
  ASSUME NEW w, WorldOK(w), Informed(w), NEW o, Recorded(w, o), NEW sym
  PROVE  /\ WorldOK(Released(w, sym)) /\ Informed(Released(w, sym)) /\ Recorded(Released(w, sym), o)
         /\ HeldSyms(Released(w, sym)) = HeldSyms(w) \ {sym}
         /\ Kept(Released(w, sym), w)
<1>1. CASE sym \notin HeldSyms(w)
  <2>1. Released(w, sym) = w
    BY <1>1 DEF Released
  <2> QED
    BY <1>1, <2>1 DEF Kept
<1>2. CASE sym \in HeldSyms(w)
  <2> DEFINE p == w.d.pressed_syms[sym]
             kc == p.keycode
             S == HeldSyms(w) \ {sym}
             f == [s \in S |-> w.d.pressed_syms[s]]
             g == Forget(w, sym)
  <2>1. /\ HeldSyms(w) \in SUBSET Keysyms
        /\ w.d.pressed_syms \in [HeldSyms(w) -> [keycode : Nat, override : BOOLEAN]]
    BY HeldFunction
  <2>2. p \in [keycode : Nat, override : BOOLEAN] /\ kc \in Nat
    BY <1>2, <2>1
  <2>3. S \in SUBSET Keysyms /\ f \in [S -> [keycode : Nat, override : BOOLEAN]]
    BY <2>1
  <2>4. IsFiniteSet(S)
    BY FS_Subset DEF WorldOK
  <2>5. \A s \in S : w.d.keymap # NoKeymap /\ HasSymbol(w.d.keymap, f[s].keycode, s)
    BY DEF WorldOK
  <2>6. g = [w EXCEPT !.d.pressed_syms = f]
    BY DEF Forget, HeldSyms
  <2> HIDE DEF g, f, S
  <2>7. /\ WorldOK(g) /\ g.seat = w.seat /\ Informed(g)
        /\ HeldSyms(g) = S /\ KeysOf(g) = {f[s].keycode : s \in S}
        /\ Kept(g, w)
    BY <2>3, <2>4, <2>5, <2>6, NewSymbols DEF Kept
  <2>8. KeysOf(w) \subseteq KeysOf(g) \cup {kc}
    BY <2>7 DEF KeysOf, f, S
  <2>9. ASSUME NEW u, u = Released(w, sym), SameHeld(u, g), WorldOK(u), Informed(u),
               u.seat.down = g.seat.down \ {kc}
        PROVE  Recorded(u, o) /\ HeldSyms(u) = S /\ Kept(u, w)
    <3>1. HeldSyms(u) = S /\ KeysOf(u) = KeysOf(g)
      BY <2>7, <2>9 DEF SameHeld, HeldSyms, KeysOf
    <3>2. Kept(u, w)
      BY <2>7, <2>9 DEF SameHeld, Kept
    <3>3. Recorded(u, o)
      BY <2>7, <2>8, <2>9, <3>1, <3>2 DEF Recorded, Kept, SameHeld
    <3> QED
      BY <3>1, <3>2, <3>3
  <2>10. CASE p.override
    <3> DEFINE u == KeyEvent(g, kc, FALSE)
    <3>1. Released(w, sym) = u
      BY <1>2, <2>10 DEF Released, g
    <3>2. /\ WorldOK(u) /\ SameHeld(u, g) /\ u.seat.down = g.seat.down \ {kc} /\ Informed(u)
      BY <2>2, <2>7, PressOrRelease
    <3> QED
      BY <2>9, <3>1, <3>2 DEF S
  <2>11. CASE ~p.override
    <3> DEFINE u == send_key(g, kc, FALSE)
    <3>1. Released(w, sym) = u
      BY <1>2, <2>11 DEF Released, g
    <3>2. /\ WorldOK(u) /\ SameHeld(u, g) /\ u.seat.down = g.seat.down \ {kc} /\ Informed(u)
      BY <2>2, <2>7, SendKey
    <3> QED
      BY <2>9, <3>1, <3>2 DEF S
  <2> QED
    BY <2>10, <2>11
<1> QED
  BY <1>1, <1>2

\* What a found target says of the key, as far as types go.
LEMMA TargetType ==
  ASSUME NEW m \in Keymaps, NEW sym, NEW t, IsTarget(m, sym, t)
  PROVE  /\ t.keycode \in Nat /\ t.layout \in 1 .. Layouts
         /\ Readable(Keys[m][t.keycode]) /\ t.layout \in 1 .. Len(Keys[m][t.keycode])
         /\ t.mods \in SUBSET AnyModifier
         /\ HasSymbol(m, t.keycode, sym)
<1> DEFINE key == Keys[m][t.keycode]
           levels == key[t.layout]
<1>1. /\ t.keycode \in DOMAIN Keys[m] /\ t.layout \in 1 .. Layouts /\ t.layout <= Len(key)
      /\ \E i \in DOMAIN levels : levels[i].sym = sym /\ t.mods \in levels[i].masks
  BY DEF IsTarget
<1>2. t.keycode \in Nat /\ Readable(key)
  BY <1>1, ReadableKeys
<1>3. t.layout \in 1 .. Len(key)
  BY <1>1, <1>2, LimitsAssumption DEF Readable
<1>4. Layout(levels)
  BY <1>2, <1>3 DEF Readable
<1>5. t.mods \in SUBSET AnyModifier
  BY <1>1, <1>4 DEF Layout, AnyModifier
<1>6. HasSymbol(m, t.keycode, sym)
  BY <1>1 DEF HasSymbol
<1> QED
  BY <1>1, <1>2, <1>3, <1>5, <1>6

LEMMA BorrowedOK ==
  ASSUME NEW w, WorldOK(w), NEW sym, NEW t, w.d.keymap # NoKeymap, IsTarget(w.d.keymap, sym, t)
  PROVE  LET u == Borrowed(w, t)
         IN  /\ WorldOK(u) /\ SameHeld(u, w) /\ u.d = w.d /\ u.seat.down = w.seat.down
             /\ u.seat.depressed = (Depressed(w.d.state) \ t.level_mods) \cup t.mods
             /\ u.seat.locked = w.d.state.locked \ t.level_mods /\ u.seat.layout = t.layout
<1>1. w.d.state \in KeyState /\ w.d.keymap \in Keymaps
  BY DEF WorldOK, Display
<1>2. t.mods \in SUBSET AnyModifier /\ t.layout \in 1 .. Layouts
  BY <1>1, TargetType
<1>3. /\ (Depressed(w.d.state) \ t.level_mods) \cup t.mods \in SUBSET AnyModifier
      /\ w.d.state.locked \ t.level_mods \in SUBSET Locking
  BY <1>1, <1>2, DepressedType DEF KeyState
<1> QED
  BY <1>2, <1>3, SetModifiers DEF Borrowed

LEMMA PressedOK ==
  ASSUME NEW w, WorldOK(w), NEW o, Recorded(w, o), NEW sym \in Keysyms, NEW t,
         sym \notin HeldSyms(w), w.d.keymap # NoKeymap, IsTarget(w.d.keymap, sym, t)
  PROVE  LET u == Pressed(w, sym, t)
         IN  /\ WorldOK(u) /\ Informed(u) /\ Recorded(u, o)
             /\ u.d.keymap = w.d.keymap /\ u.seat.keymap = w.seat.keymap
<1> DEFINE u == Pressed(w, sym, t)
           override == Overrides(w, sym, t)
           S == HeldSyms(w) \cup {sym}
           f == [s \in S |-> IF s = sym THEN [keycode |-> t.keycode, override |-> override]
                             ELSE w.d.pressed_syms[s]]
           held == [w EXCEPT !.d.pressed_syms = f]
<1>1. /\ HeldSyms(w) \in SUBSET Keysyms
      /\ w.d.pressed_syms \in [HeldSyms(w) -> [keycode : Nat, override : BOOLEAN]]
  BY HeldFunction
<1>2. /\ w.d.keymap \in Keymaps /\ t.keycode \in Nat /\ override \in BOOLEAN
      /\ HasSymbol(w.d.keymap, t.keycode, sym)
  <2>1. w.d.keymap \in Keymaps
    BY DEF WorldOK
  <2>2. override \in BOOLEAN
    BY DEF Overrides
  <2> QED
    BY <2>1, <2>2, TargetType
<1>3. S \in SUBSET Keysyms /\ f \in [S -> [keycode : Nat, override : BOOLEAN]]
  <2> HIDE DEF override
  <2> QED
    BY <1>1, <1>2
<1>4. IsFiniteSet(S)
  BY FS_AddElement DEF WorldOK
<1>5. \A s \in S : w.d.keymap # NoKeymap /\ HasSymbol(w.d.keymap, f[s].keycode, s)
  <2> HIDE DEF override
  <2>1. f[sym].keycode = t.keycode
    OBVIOUS
  <2>2. \A s \in HeldSyms(w) : f[s] = w.d.pressed_syms[s]
    OBVIOUS
  <2> HIDE DEF f
  <2>3. \A s \in HeldSyms(w) : HasSymbol(w.d.keymap, w.d.pressed_syms[s].keycode, s)
    BY DEF WorldOK
  <2> QED
    BY <1>2, <2>1, <2>2, <2>3
<1>6. f[sym].keycode = t.keycode /\ \A s \in HeldSyms(w) : f[s].keycode = w.d.pressed_syms[s].keycode
  <2> HIDE DEF override
  <2> QED
    OBVIOUS
<1>7. Pressed(w, sym, t) = IF override
                           THEN send_modifiers(KeyEvent(Borrowed(held, t), t.keycode, TRUE))
                           ELSE send_key(held, t.keycode, TRUE)
  BY DEF Pressed
<1> HIDE DEF f
<1>8. /\ WorldOK(held) /\ held.seat = w.seat
      /\ KeysOf(held) = {f[s].keycode : s \in S}
      /\ held.d.keymap = w.d.keymap
      /\ held.d.pressed_codes = w.d.pressed_codes
      /\ held.d.pressed_buttons = w.d.pressed_buttons
  <2> HIDE DEF held, S
  <2>1. held = [w EXCEPT !.d.pressed_syms = f]
    BY DEF held
  <2> QED
    BY <1>3, <1>4, <1>5, <2>1, NewSymbols
<1> HIDE DEF held, u
<1>9. KeysOf(w) \cup {t.keycode} \subseteq KeysOf(held)
  BY <1>6, <1>8 DEF KeysOf
<1>10. ASSUME NEW v, WorldOK(v), Informed(v), SameHeld(v, held),
              v.seat.down = held.seat.down \cup {t.keycode}
       PROVE  Recorded(v, o) /\ v.d.keymap = w.d.keymap /\ v.seat.keymap = w.seat.keymap
  <2>1. KeysOf(v) = KeysOf(held)
    BY <1>10 DEF SameHeld, KeysOf, HeldSyms
  <2> QED
    BY <1>8, <1>9, <1>10, <2>1 DEF Recorded, SameHeld
<1>11. CASE override
  <2> DEFINE b == Borrowed(held, t)
             k == KeyEvent(b, t.keycode, TRUE)
             v == send_modifiers(k)
  <2>1. WorldOK(b) /\ SameHeld(b, held) /\ b.seat.down = held.seat.down
    <3>1. WorldOK(held) /\ held.d.keymap # NoKeymap /\ IsTarget(held.d.keymap, sym, t)
      BY <1>8
    <3> QED
      BY <3>1, BorrowedOK
  <2> HIDE DEF b
  <2>2. WorldOK(k) /\ SameHeld(k, b) /\ k.seat.down = b.seat.down \cup {t.keycode}
    BY <1>2, <2>1, PressOrRelease
  <2> HIDE DEF k
  <2>3. WorldOK(v) /\ Informed(v) /\ SameHeld(v, k) /\ v.seat.down = k.seat.down
    BY <2>2, SendModifiers
  <2> HIDE DEF v
  <2>4. SameHeld(v, held)
    BY <2>1, <2>2, <2>3 DEF SameHeld
  <2>5. u = v
    BY <1>7, <1>11 DEF b, k, v, u
  <2> QED
    BY <1>10, <2>1, <2>2, <2>3, <2>4, <2>5 DEF u
<1>12. CASE ~override
  <2> DEFINE v == send_key(held, t.keycode, TRUE)
  <2>1. WorldOK(v) /\ Informed(v) /\ SameHeld(v, held) /\ v.seat.down = held.seat.down \cup {t.keycode}
    BY <1>2, <1>8, SendKey
  <2>2. u = v
    BY <1>7, <1>12 DEF u
  <2> HIDE DEF v
  <2> QED
    BY <1>10, <2>1, <2>2 DEF u
<1> QED
  BY <1>11, <1>12

\* The key a symbol is pressed on gives the symbol, or its capital under Caps Lock.
LEMMA ReadsSymbol ==
  ASSUME NEW w, WorldOK(w), Informed(w), NEW sym \in Text, NEW t, w.d.keymap # NoKeymap,
         IsTarget(w.d.keymap, sym, t)
  PROVE  \/ Read(w, sym, t) = sym
         \/ /\ "Lock" \in Depressed(w.d.state) \cup w.d.state.locked
            /\ sym \in DOMAIN Capital /\ Read(w, sym, t) = Capital[sym]
<1> DEFINE key == Keys[w.d.keymap][t.keycode]
           st == w.d.state
<1>1. w.d.keymap \in Keymaps /\ w.seat.keymap = w.d.keymap
  BY DEF WorldOK
<1>2. CASE ~Overrides(w, sym, t)
  <2>1. OneSym(key, st.layout, Depressed(st) \cup st.locked) = sym
    BY <1>2 DEF Overrides
  <2>2. Read(w, sym, t) = OneSym(key, w.seat.layout, w.seat.depressed \cup w.seat.locked)
    BY <1>1, <1>2 DEF Read, Reads
  <2> QED
    BY <2>1, <2>2 DEF Informed
<1>3. CASE Overrides(w, sym, t)
  <2> DEFINE u == Borrowed(w, t)
             levels == key[t.layout]
             mods == u.seat.depressed \cup u.seat.locked
  <2>1. /\ u.seat.keymap = w.d.keymap /\ u.seat.layout = t.layout
        /\ u.seat.depressed = (Depressed(st) \ t.level_mods) \cup t.mods
        /\ u.seat.locked = st.locked \ t.level_mods
    BY <1>1, BorrowedOK DEF SameHeld
  <2>2. Read(w, sym, t) = OneSym(key, t.layout, mods)
    BY <1>3, <2>1 DEF Read, Reads
  <2> HIDE DEF u
  <2>3. PICK i \in DOMAIN levels : levels[i].sym = sym /\ t.mods \in levels[i].masks
    BY DEF IsTarget
  <2>4. t.level_mods = level_mods(levels) /\ t.mods \subseteq level_mods(levels)
    <3>1. t.level_mods = level_mods(levels)
      BY DEF IsTarget
    <3>2. \A m \in levels[i].masks : m \subseteq level_mods(levels)
      BY DEF level_mods
    <3> QED
      BY <2>3, <3>1, <3>2
  <2>5. mods \cap level_mods(levels) = t.mods
    BY <2>1, <2>4
  <2>6. Readable(key) /\ t.layout \in 1 .. Len(key)
    BY <1>1, TargetType
  <2>7. OneSym(key, t.layout, mods) =
          IF "Lock" \in mods \ level_mods(levels) /\ sym \in DOMAIN Capital
          THEN Capital[sym] ELSE sym
    <3>1. mods \cap level_mods(levels) \in levels[i].masks
      BY <2>3, <2>5
    <3> HIDE DEF mods
    <3>2. OneSym(key, t.layout, mods) =
            IF "Lock" \in mods \ level_mods(levels) /\ levels[i].sym \in DOMAIN Capital
            THEN Capital[levels[i].sym] ELSE levels[i].sym
      <4> HIDE DEF key
      <4> QED
        BY <2>6, <3>1, LevelRead
    <3> QED
      BY <2>3, <3>2
  <2>8. mods \ level_mods(levels) \subseteq Depressed(st) \cup st.locked
    BY <2>1, <2>4
  <2> QED
    BY <2>2, <2>7, <2>8
<1> QED
  BY <1>2, <1>3

-----------------------------------------------------------------------------
(* Keymaps that are added to, installed and adopted.                       *)

LEMMA EmptyFunction == \A S : <<>> \in [{} -> S] /\ DOMAIN <<>> = {}
<1>1. \A S : <<>> \in Seq(S) /\ Len(<<>>) = 0
  BY EmptySeq
<1> QED
  BY <1>1

LEMMA RoomType == ASSUME NEW b \in DOMAIN Session PROVE Room[b] \in Nat
<1>1. IsFiniteSet(Unused(b))
  BY FS_Subset, SessionAssumption DEF Unused
<1> QED
  BY <1>1, FS_CardinalityType DEF Room

\* A keymap has at most as many added symbols as unused keys.
LEMMA IsKeymap ==
  ASSUME NEW m
  PROVE  m \in Keymaps <=>
           /\ m \in [base : DOMAIN Session, extra : Seq(Text \cap Keysyms)]
           /\ Len(m.extra) <= Room[m.base]
<1> DEFINE sym == Text \cap Keysyms
<1>1. ASSUME NEW n \in Nat, NEW e
      PROVE  e \in Added(n) <=> e \in Seq(sym) /\ Len(e) <= n
  <2>1. ASSUME NEW k \in 0 .. n, e \in [1 .. k -> sym]
        PROVE  e \in Seq(sym) /\ Len(e) <= n
    <3>1. k \in Nat
      OBVIOUS
    <3>2. e \in Seq(sym) /\ Len(e) = k
      BY <2>1, <3>1
    <3> QED
      BY <3>2
  <2>2. ASSUME e \in Seq(sym), Len(e) <= n
        PROVE  \E k \in 0 .. n : e \in [1 .. k -> sym]
    <3>1. Len(e) \in Nat /\ e \in [1 .. Len(e) -> sym]
      BY <2>2, LenProperties
    <3>2. Len(e) \in 0 .. n
      BY <2>2, <3>1
    <3> QED
      BY <3>1, <3>2
  <2> QED
    BY <2>1, <2>2 DEF Added
<1>2. ASSUME m \in Keymaps
      PROVE  /\ m \in [base : DOMAIN Session, extra : Seq(sym)]
             /\ Len(m.extra) <= Room[m.base]
  <2>1. PICK b \in DOMAIN Session : m \in [base : {b}, extra : Added(Room[b])]
    BY <1>2 DEF Keymaps
  <2>2. Room[b] \in Nat /\ m.base = b /\ m.extra \in Added(Room[b])
    BY <2>1, RoomType
  <2>3. m.extra \in Seq(sym) /\ Len(m.extra) <= Room[b]
    BY <1>1, <2>2
  <2> QED
    BY <2>1, <2>2, <2>3
<1>3. ASSUME m \in [base : DOMAIN Session, extra : Seq(sym)], Len(m.extra) <= Room[m.base]
      PROVE  m \in Keymaps
  <2>1. m.base \in DOMAIN Session /\ m.extra \in Seq(sym) /\ Room[m.base] \in Nat
    BY <1>3, RoomType
  <2>2. m.extra \in Added(Room[m.base])
    BY <1>1, <1>3, <2>1
  <2>3. m \in [base : {m.base}, extra : Added(Room[m.base])]
    BY <1>3, <2>2
  <2> QED
    BY <2>1, <2>3 DEF Keymaps
<1> QED
  BY <1>2, <1>3

LEMMA PlainKeymap ==
  ASSUME NEW b \in DOMAIN Session
  PROVE  [base |-> b, extra |-> <<>>] \in Keymaps
<1> DEFINE m == [base |-> b, extra |-> <<>>]
<1>1. m.base = b /\ m.extra = <<>> /\ m \in [base : DOMAIN Session, extra : Seq(Text \cap Keysyms)]
  OBVIOUS
<1>2. Len(<<>>) = 0 /\ Room[b] \in Nat
  BY RoomType
<1> HIDE DEF m
<1>3. m \in Keymaps
  BY <1>1, <1>2, IsKeymap
<1> QED
  BY <1>3 DEF m

LEMMA AddedKeymap ==
  ASSUME NEW m \in Keymaps, NEW syms \in Seq(Text \cap Keysyms),
         rd_keymap_add_keysyms(m, syms) # NoKeymap
  PROVE  rd_keymap_add_keysyms(m, syms) \in Keymaps
<1> DEFINE sym == Text \cap Keysyms
           n == rd_keymap_add_keysyms(m, syms)
<1>1. /\ m \in [base : DOMAIN Session, extra : Seq(sym)] /\ m.base \in DOMAIN Session
      /\ m.extra \in Seq(sym) /\ Room[m.base] \in Nat
  BY IsKeymap, RoomType
<1>2. n = [m EXCEPT !.extra = @ \o syms] /\ ~(Len(m.extra) + Len(syms) > Room[m.base])
  BY DEF rd_keymap_add_keysyms
<1>3. m.extra \o syms \in Seq(sym) /\ Len(m.extra \o syms) = Len(m.extra) + Len(syms)
  BY <1>1, ConcatProperties
<1>4. /\ n.base = m.base /\ n.extra = m.extra \o syms
      /\ n \in [base : DOMAIN Session, extra : Seq(sym)]
  BY <1>1, <1>2, <1>3
<1>5. Len(m.extra) \in Nat /\ Len(syms) \in Nat
  BY <1>1
<1> HIDE DEF n
<1>6. Len(n.extra) <= Room[n.base]
  <2>1. Len(n.extra) = Len(m.extra) + Len(syms)
    BY <1>3, <1>4
  <2> QED
    BY <1>1, <1>2, <1>4, <1>5, <2>1
<1>7. n \in Keymaps
  BY <1>4, <1>6, IsKeymap
<1> QED
  BY <1>7 DEF n

\* A keymap is installed when no symbol is held.
LEMMA Installed ==
  ASSUME NEW w, WorldOK(w), NEW o, Recorded(w, o), HeldSyms(w) = {}, w.d.base \in Keymaps,
         NEW m \in Keymaps
  PROVE  LET u == install_keymap(w, m)
         IN  /\ WorldOK(u) /\ Informed(u) /\ Recorded(u, o)
             /\ HeldSyms(u) = {} /\ u.d.keymap = m /\ u.seat.keymap = m
<1> DEFINE u == install_keymap(w, m)
<1>1. w.d \in Display /\ w.seat \in Seat /\ w \in [d : Display, seat : Seat]
  BY DEF WorldOK
<1>2. NewState \in KeyState /\ Depressed(NewState) = {} /\ NewState.locked = {} /\ NewState.layout = 1
  <2>1. NewState \in KeyState
    BY LimitsAssumption DEF NewState, KeyState
  <2>2. {k \in ModKeys : NewState.held[k] > 0} = {}
    BY DEF NewState
  <2> QED
    BY <2>1, <2>2 DEF Depressed, NewState
<1>3. /\ u = [d |-> u.d, seat |-> u.seat]
      /\ u.d = [w.d EXCEPT !.keymap = m, !.state = NewState]
      /\ u.seat = [w.seat EXCEPT !.keymap = m, !.depressed = {}, !.locked = {}, !.layout = 1]
  BY DEF install_keymap
<1> HIDE DEF u
<1>4. /\ u.d \in Display /\ u.d.keymap = m /\ u.d.state = NewState /\ u.d.base = w.d.base
      /\ u.d.extra = w.d.extra /\ u.d.pressed_syms = w.d.pressed_syms
      /\ u.d.pressed_codes = w.d.pressed_codes
      /\ u.d.pressed_buttons = w.d.pressed_buttons
  BY <1>1, <1>2, <1>3 DEF Display
<1>5. /\ u.seat \in Seat /\ u.seat.keymap = m /\ u.seat.depressed = {} /\ u.seat.locked = {}
      /\ u.seat.layout = 1 /\ u.seat.down = w.seat.down /\ u.seat.buttons = w.seat.buttons
  <2>1. 1 \in 1 .. Layouts
    BY LimitsAssumption
  <2> QED
    BY <1>1, <1>3, <2>1 DEF Seat
<1>6. HeldSyms(u) = HeldSyms(w) /\ KeysOf(u) = KeysOf(w)
  BY <1>4 DEF HeldSyms, KeysOf
<1>7. WorldOK(u)
  BY <1>3, <1>4, <1>5, <1>6 DEF WorldOK
<1>8. Informed(u)
  BY <1>2, <1>4, <1>5 DEF Informed
<1>9. Recorded(u, o)
  BY <1>4, <1>5, <1>6 DEF Recorded
<1> QED
  BY <1>4, <1>5, <1>6, <1>7, <1>8, <1>9 DEF u

LEMMA Listed ==
  ASSUME NEW w, WorldOK(w), Informed(w), NEW o, Recorded(w, o),
         NEW e \in Seq(Text \cap Keysyms), Len(e) <= MaxExtra
  PROVE  LET u == [w EXCEPT !.d.extra = e]
         IN  /\ WorldOK(u) /\ Informed(u) /\ Recorded(u, o) /\ HeldSyms(u) = HeldSyms(w)
             /\ u.d.keymap = w.d.keymap /\ u.seat.keymap = w.seat.keymap
             /\ u.d.base = w.d.base
<1> DEFINE u == [w EXCEPT !.d.extra = e]
<1>1. w.d \in Display /\ w.seat \in Seat /\ w \in [d : Display, seat : Seat]
  BY DEF WorldOK
<1>2. u.d = [w.d EXCEPT !.extra = e] /\ u.seat = w.seat /\ u = [d |-> u.d, seat |-> u.seat]
  BY <1>1
<1> HIDE DEF u
<1>3. /\ u.d \in Display /\ u.d.keymap = w.d.keymap /\ u.d.state = w.d.state
      /\ u.d.base = w.d.base /\ u.d.extra = e /\ u.d.pressed_syms = w.d.pressed_syms
      /\ u.d.pressed_codes = w.d.pressed_codes /\ u.d.pressed_buttons = w.d.pressed_buttons
  BY <1>1, <1>2 DEF Display
<1>4. HeldSyms(u) = HeldSyms(w) /\ KeysOf(u) = KeysOf(w)
  BY <1>3 DEF HeldSyms, KeysOf
<1>5. WorldOK(u)
  BY <1>1, <1>2, <1>3, <1>4 DEF WorldOK
<1>6. Informed(u) /\ Recorded(u, o)
  BY <1>2, <1>3, <1>4 DEF Informed, Recorded
<1> QED
  BY <1>2, <1>3, <1>4, <1>5, <1>6 DEF u

LEMMA Extended ==
  ASSUME NEW w, WorldOK(w), Informed(w), NEW o, Recorded(w, o), NEW sym \in Text \cap Keysyms,
         w.d.keymap # NoKeymap, NEW x \in extend_keymap(w, sym)
  PROVE  /\ WorldOK(x) /\ Informed(x) /\ Recorded(x, o) /\ HeldSyms(x) = HeldSyms(w)
         /\ x.d.keymap \in Keymaps /\ x.seat.keymap \in Keymaps /\ x.d.keymap # NoKeymap
<1> DEFINE syms == Text \cap Keysyms
           kept == IF Len(w.d.extra) >= MaxExtra THEN <<>> ELSE w.d.extra
           list == Append(kept, sym)
           m == rd_keymap_add_keysyms(w.d.base, list)
           none == [w EXCEPT !.d.extra = kept]
           more == [w EXCEPT !.d.extra = list]
<1>1. /\ w.d.extra \in Seq(syms) /\ Len(w.d.extra) <= MaxExtra
      /\ w.d.keymap \in Keymaps /\ w.d.base \in Keymaps
      /\ w.seat.keymap = w.d.keymap
  BY DEF WorldOK, Display
<1>2. kept \in Seq(syms) /\ Len(kept) \in Nat /\ Len(kept) < MaxExtra
  <2>1. Len(w.d.extra) \in Nat /\ Len(<<>>) = 0 /\ <<>> \in Seq(syms)
    BY <1>1
  <2> QED
    BY <1>1, <2>1, LimitsAssumption
<1>3. list \in Seq(syms) /\ Len(list) <= MaxExtra
  <2> HIDE DEF kept
  <2>1. list \in Seq(syms) /\ Len(list) = Len(kept) + 1
    BY <1>2, AppendProperties
  <2> QED
    BY <1>2, <2>1, LimitsAssumption
<1>4. \/ x = none
      \/ x = install_keymap(more, m) /\ m # NoKeymap /\ HeldSyms(w) = {}
  BY DEF extend_keymap
<1> HIDE DEF kept, list
<1>5. CASE x = none
  <2>1. Len(kept) <= MaxExtra
    BY <1>2, LimitsAssumption
  <2>2. /\ WorldOK(none) /\ Informed(none) /\ Recorded(none, o) /\ HeldSyms(none) = HeldSyms(w)
        /\ none.d.keymap = w.d.keymap /\ none.seat.keymap = w.seat.keymap
    BY <1>2, <2>1, Listed
  <2> HIDE DEF none
  <2> QED
    BY <1>1, <1>5, <2>2
<1>6. CASE x = install_keymap(more, m) /\ m # NoKeymap /\ HeldSyms(w) = {}
  <2>1. m \in Keymaps
    BY <1>1, <1>3, <1>6, AddedKeymap
  <2>2. /\ WorldOK(more) /\ Informed(more) /\ Recorded(more, o) /\ HeldSyms(more) = HeldSyms(w)
        /\ more.d.base = w.d.base
    BY <1>3, Listed
  <2> HIDE DEF more, m
  <2> QED
    BY <1>1, <1>6, <2>1, <2>2, Installed
<1> QED
  BY <1>4, <1>5, <1>6

-----------------------------------------------------------------------------
(* Releasing everything, and adopting a keymap.                            *)

LEMMA ReleasedAll ==
  ASSUME NEW w, WorldOK(w), Informed(w), NEW o, Recorded(w, o)
  PROVE  WorldOK(release_all(w)) /\ Informed(release_all(w)) /\ Recorded(release_all(w), o)
<1>1. w.d \in Display /\ w.seat \in Seat /\ w \in [d : Display, seat : Seat]
  BY DEF WorldOK
<1>2. CASE w.d.keymap = NoKeymap
  <2> DEFINE u == [w EXCEPT !.seat.buttons = {}, !.d.pressed_buttons = {}]
  <2>1. release_all(w) = u
    BY <1>2 DEF release_all
  <2>2. /\ u.seat = [w.seat EXCEPT !.buttons = {}] /\ u.d = [w.d EXCEPT !.pressed_buttons = {}]
        /\ u = [d |-> u.d, seat |-> u.seat]
    <3> DEFINE b == [w EXCEPT !.seat.buttons = {}]
    <3>1. b.seat = [w.seat EXCEPT !.buttons = {}] /\ b.d = w.d /\ b \in [d : {b.d}, seat : {b.seat}]
      BY <1>1
    <3>2. u = [b EXCEPT !.d.pressed_buttons = {}]
      OBVIOUS
    <3> HIDE DEF u, b
    <3> QED
      BY <3>1, <3>2
  <2> HIDE DEF u
  <2>3. /\ u.d \in Display /\ u.d.keymap = w.d.keymap /\ u.d.state = w.d.state
        /\ u.d.base = w.d.base /\ u.d.extra = w.d.extra /\ u.d.pressed_syms = w.d.pressed_syms
        /\ u.d.pressed_codes = w.d.pressed_codes /\ u.d.pressed_buttons = {}
    BY <1>1, <2>2 DEF Display
  <2>4. /\ u.seat \in Seat /\ u.seat.keymap = w.seat.keymap
        /\ u.seat.depressed = w.seat.depressed /\ u.seat.locked = w.seat.locked
        /\ u.seat.layout = w.seat.layout /\ u.seat.down = w.seat.down /\ u.seat.buttons = {}
    BY <1>1, <2>2 DEF Seat
  <2>5. HeldSyms(u) = HeldSyms(w) /\ KeysOf(u) = KeysOf(w)
    BY <2>3 DEF HeldSyms, KeysOf
  <2>6. WorldOK(u)
    BY <2>2, <2>3, <2>4, <2>5 DEF WorldOK
  <2>7. Informed(u) /\ Recorded(u, o)
    BY <2>3, <2>4, <2>5 DEF Informed, Recorded
  <2> QED
    BY <2>1, <2>6, <2>7
<1>3. CASE w.d.keymap # NoKeymap
  <2> DEFINE ups(kc) == Cardinality({s \in HeldSyms(w) : w.d.pressed_syms[s].keycode = kc})
                        + Cardinality({kc} \cap w.d.pressed_codes)
             st == w.d.state
             left(kc) == IF st.held[kc] > ups(kc) THEN st.held[kc] - ups(kc) ELSE 0
             lifted == {kc \in ModKeys : st.held[kc] > 0 /\ left(kc) = 0}
             held == [kc \in ModKeys |-> left(kc)]
             locks == st.locked \ UNION {Modifier(kc) : kc \in st.unlocks \cap lifted}
             after == [st EXCEPT !.held = held, !.locked = locks, !.unlocks = @ \ lifted]
             down == w.seat.down \ (KeysOf(w) \cup w.d.pressed_codes)
             u == [w EXCEPT !.seat.down = down, !.seat.buttons = {},
                            !.d.pressed_syms = <<>>, !.d.pressed_codes = {},
                            !.d.pressed_buttons = {}, !.d.state = after]
  <2>1. release_all(w) = send_modifiers(u)
    BY <1>3 DEF release_all
  <2>2. st \in KeyState
    BY <1>1 DEF Display
  <2>3. ASSUME NEW kc PROVE ups(kc) \in Nat
    <3> DEFINE A == {s \in HeldSyms(w) : w.d.pressed_syms[s].keycode = kc}
               B == {kc} \cap w.d.pressed_codes
    <3>1. IsFiniteSet(A)
      <4>1. IsFiniteSet(HeldSyms(w))
        BY DEF WorldOK
      <4> QED
        BY <4>1, FS_Subset
    <3>2. IsFiniteSet(B)
      BY FS_Singleton, FS_Intersection
    <3>3. ups(kc) = Cardinality(A) + Cardinality(B)
      OBVIOUS
    <3> HIDE DEF A, B, ups
    <3> QED
      BY <3>1, <3>2, <3>3, FS_CardinalityType
  <2> HIDE DEF ups
  <2>4. held \in [ModKeys -> Nat]
    BY <2>2, <2>3 DEF KeyState
  <2>5. locks \in SUBSET Locking
    BY <2>2 DEF KeyState
  <2> HIDE DEF held, locks, lifted
  <2>6. after \in KeyState
    BY <2>2, <2>4, <2>5 DEF KeyState
  <2> HIDE DEF after
  <2>7. down \in SUBSET (Nat \cup Codes) /\ down \subseteq o
    BY <1>1 DEF Seat, Recorded
  <2> HIDE DEF down
  <2>8. /\ u.seat = [w.seat EXCEPT !.down = down, !.buttons = {}]
        /\ u.d = [w.d EXCEPT !.pressed_syms = <<>>, !.pressed_codes = {},
                             !.pressed_buttons = {}, !.state = after]
        /\ u = [d |-> u.d, seat |-> u.seat]
    <3> DEFINE e == <<>>
               b == [w EXCEPT !.seat.down = down, !.seat.buttons = {}]
    <3>1. /\ b.seat = [w.seat EXCEPT !.down = down, !.buttons = {}] /\ b.d = w.d
          /\ b \in [d : {b.d}, seat : {b.seat}]
      BY <1>1
    <3>2. u = [b EXCEPT !.d.pressed_syms = e, !.d.pressed_codes = {},
                        !.d.pressed_buttons = {}, !.d.state = after]
      OBVIOUS
    <3> HIDE DEF u, b, e
    <3>3. /\ u.seat = b.seat /\ u.d = [w.d EXCEPT !.pressed_syms = e, !.pressed_codes = {},
                             !.pressed_buttons = {}, !.state = after]
          /\ u = [d |-> u.d, seat |-> u.seat]
      BY <3>1, <3>2
    <3> QED
      BY <3>1, <3>3 DEF e
  <2> HIDE DEF u
  <2>9. <<>> \in HeldSymbols /\ DOMAIN <<>> = {}
    BY EmptyFunction DEF HeldSymbols
  <2>10. /\ u.d.keymap = w.d.keymap
         /\ u.d.base = w.d.base /\ u.d.extra = w.d.extra /\ u.d.pressed_syms = <<>>
         /\ u.d.pressed_codes = {} /\ u.d.pressed_buttons = {}
    BY <1>1, <2>8 DEF Display
  <2>11. u.d \in Display
    <3> DEFINE e == <<>>
    <3>1. u.d = [w.d EXCEPT !.pressed_syms = e, !.pressed_codes = {},
                             !.pressed_buttons = {}, !.state = after]
      BY <2>8
    <3>2. e \in HeldSymbols
      BY <2>9
    <3> HIDE DEF e
    <3> QED
      BY <1>1, <2>6, <3>1, <3>2 DEF Display
  <2>12. u.seat \in Seat /\ u.seat.keymap = w.seat.keymap /\ u.seat.down = down
         /\ u.seat.buttons = {}
    BY <1>1, <2>7, <2>8 DEF Seat
  <2>13. HeldSyms(u) = {} /\ KeysOf(u) = {}
    BY <2>9, <2>10 DEF HeldSyms, KeysOf
  <2>14. WorldOK(u)
    BY <2>8, <2>10, <2>11, <2>12, <2>13, FS_EmptySet DEF WorldOK
  <2>15. Recorded(u, o)
    BY <2>7, <2>10, <2>12 DEF Recorded
  <2>16. /\ WorldOK(send_modifiers(u)) /\ Informed(send_modifiers(u))
         /\ SameHeld(send_modifiers(u), u) /\ send_modifiers(u).seat.down = u.seat.down
    BY <2>14, SendModifiers
  <2>17. Recorded(send_modifiers(u), o)
    BY <2>10, <2>15, <2>16 DEF Recorded, SameHeld, KeysOf, HeldSyms
  <2> QED
    BY <2>1, <2>16, <2>17
<1> QED
  BY <1>2, <1>3

LEMMA Adopted ==
  ASSUME NEW w, WorldOK(w), Informed(w), NEW o, Recorded(w, o), NEW m \in Keymaps,
         NEW x \in adopt_keymap(w, m)
  PROVE  /\ WorldOK(x) /\ Informed(x) /\ Recorded(x, o \cup (KeysOf(w) \ KeysOf(x)))
         /\ x.seat.keymap = w.seat.keymap \/ x.seat.keymap = m
<1> DEFINE new == [w EXCEPT !.d.base = m, !.d.extra = <<>>, !.d.pressed_syms = <<>>]
           p == o \cup KeysOf(w)
<1>1. w.d \in Display /\ w.seat \in Seat /\ w \in [d : Display, seat : Seat]
  BY DEF WorldOK
<1>2. x \in {w, new, install_keymap(new, m)}
  BY DEF adopt_keymap
<1>3. /\ new.seat = w.seat
      /\ new.d = [w.d EXCEPT !.base = m, !.extra = <<>>, !.pressed_syms = <<>>]
      /\ new = [d |-> new.d, seat |-> new.seat]
  <2> DEFINE e == <<>>
  <2>1. new = [w EXCEPT !.d.base = m, !.d.extra = e, !.d.pressed_syms = e]
    OBVIOUS
  <2> HIDE DEF new, e
  <2>2. /\ new.seat = w.seat
        /\ new.d = [w.d EXCEPT !.base = m, !.extra = e, !.pressed_syms = e]
        /\ new = [d |-> new.d, seat |-> new.seat]
    BY <1>1, <2>1
  <2> QED
    BY <2>2 DEF e
<1> HIDE DEF new
<1>4. <<>> \in HeldSymbols /\ DOMAIN <<>> = {}
  BY EmptyFunction DEF HeldSymbols
<1>5. <<>> \in Seq(Text \cap Keysyms) /\ Len(<<>>) = 0
  OBVIOUS
<1>6. new.d \in Display
  <2> DEFINE e == <<>>
  <2>1. new.d = [w.d EXCEPT !.base = m, !.extra = e, !.pressed_syms = e]
    BY <1>3
  <2>2. e \in HeldSymbols /\ e \in Seq(Text \cap Keysyms)
    BY <1>4, <1>5
  <2> HIDE DEF e
  <2> QED
    BY <1>1, <2>1, <2>2 DEF Display
<1>7. /\ new.d.keymap = w.d.keymap /\ new.d.state = w.d.state
      /\ new.d.base = m /\ new.d.extra = <<>> /\ new.d.pressed_syms = <<>>
      /\ new.d.pressed_codes = w.d.pressed_codes
      /\ new.d.pressed_buttons = w.d.pressed_buttons
  BY <1>1, <1>3 DEF Display
<1>8. HeldSyms(new) = {} /\ KeysOf(new) = {}
  BY <1>4, <1>7 DEF HeldSyms, KeysOf
<1>9. WorldOK(new)
  <2>1. Len(new.d.extra) <= MaxExtra
    BY <1>5, <1>7, LimitsAssumption
  <2> QED
    BY <1>1, <1>3, <1>6, <1>7, <1>8, <2>1, FS_EmptySet DEF WorldOK
<1>10. Informed(new) /\ Recorded(new, p)
  BY <1>3, <1>7, <1>8 DEF Informed, Recorded
<1>11. CASE x = w
  BY <1>11 DEF Recorded
<1>12. CASE x = new
  BY <1>3, <1>8, <1>9, <1>10, <1>12
<1>13. CASE x = install_keymap(new, m)
  <2>1. WorldOK(x) /\ Informed(x) /\ Recorded(x, p) /\ HeldSyms(x) = {} /\ x.seat.keymap = m
    BY <1>7, <1>8, <1>9, <1>10, <1>13, Installed
  <2>2. KeysOf(x) = {}
    BY <2>1 DEF KeysOf
  <2> QED
    BY <2>1, <2>2
<1> QED
  BY <1>2, <1>11, <1>12, <1>13

-----------------------------------------------------------------------------
(* The invariant, and one step for each call.                              *)

InputInv ==
  /\ WorldOK(World) /\ Informed(World) /\ Recorded(World, orphan)
  /\ coming \in Seq(Keymaps)
  /\ TypedAsMeant

LEMMA InputInvImplies == InputInv => InputTypeOK /\ KeysGivenBack /\ SymbolsKept
<1> SUFFICES ASSUME InputInv PROVE InputTypeOK /\ KeysGivenBack /\ SymbolsKept
  OBVIOUS
<1>1. World.d = d /\ World.seat = seat
  BY DEF World
<1>2. d \in Display /\ d.state \in KeyState
  BY <1>1 DEF InputInv, WorldOK, Display
<1>3. HeldSyms(World) = DOMAIN d.pressed_syms
  BY <1>1 DEF HeldSyms
<1>4. \A s \in DOMAIN d.pressed_syms : HasSymbol(d.keymap, d.pressed_syms[s].keycode, s)
  BY <1>1, <1>3 DEF InputInv, WorldOK
<1>5. DOMAIN d.pressed_syms \subseteq Keysyms
  BY <1>2 DEF Display, HeldSymbols
<1>6. InputTypeOK
  <2>1. /\ d.base \in Keymaps \cup {NoKeymap} /\ d.keymap \in Keymaps \cup {NoKeymap}
        /\ d.pressed_codes \subseteq Codes /\ d.pressed_buttons \subseteq Buttons
    BY <1>2 DEF Display
  <2>2. Len(d.extra) <= MaxExtra /\ seat.keymap = d.keymap
    BY <1>1 DEF InputInv, WorldOK
  <2>3. \A kc \in ModKeys : d.state.held[kc] \in Nat
    BY <1>2 DEF KeyState
  <2>4. d.state.layout \in 1 .. Layouts
    BY <1>2 DEF KeyState
  <2>5. \A s \in DOMAIN d.pressed_syms :
          s \in Keysyms /\ d.pressed_syms[s].keycode \in DOMAIN Keys[d.keymap]
    BY <1>4, <1>5 DEF HasSymbol
  <2> QED
    BY <2>1, <2>2, <2>3, <2>4, <2>5 DEF InputTypeOK, InputInv
<1>7. KeysGivenBack
  BY <1>1 DEF InputInv, KeysGivenBack, NothingStuck, ModifiersReturned, Informed, Recorded
<1>8. SymbolsKept
  BY <1>4 DEF InputInv, SymbolsKept, HeldKeysKeepTheirSymbol, HasSymbol
<1> QED
  BY <1>6, <1>7, <1>8

\* A step that ends in a world with everything in order leaves everything in order.
LEMMA BecomesOK ==
  ASSUME NEW w, NEW lost, WorldOK(w), Informed(w), Recorded(w, orphan \cup lost), Becomes(w, lost)
  PROVE  WorldOK(World)' /\ Informed(World)' /\ Recorded(World, orphan)'
<1>1. w = [d |-> w.d, seat |-> w.seat]
  BY DEF WorldOK
<1>2. World' = w
  BY <1>1 DEF World, Becomes
<1>3. Recorded(w, (orphan \cup lost) \cap w.seat.down)
  BY DEF Recorded
<1>4. orphan' = (orphan \cup lost) \cap w.seat.down
  BY DEF Becomes
<1>5. WorldOK(World')
  BY <1>2
<1>6. Informed(World')
  BY <1>2
<1>7. Recorded(World', orphan')
  BY <1>2, <1>3, <1>4
<1> QED
  BY <1>5, <1>6, <1>7

LEMMA EchoOK ==
  ASSUME NEW w, NEW rest \in Seq(Keymaps), Echo(w, rest),
         w.seat.keymap = seat.keymap \/ w.seat.keymap \in Keymaps
  PROVE  coming' \in Seq(Keymaps)
BY DEF Echo, Sends

LEMMA InputInvInit == InputInit => InputInv
<1> SUFFICES ASSUME InputInit PROVE InputInv
  OBVIOUS
<1> DEFINE e == <<>>
<1>1. /\ d = [base |-> NoKeymap, keymap |-> NoKeymap, extra |-> e,
              pressed_syms |-> e, pressed_codes |-> {}, pressed_buttons |-> {},
              state |-> NewState]
      /\ seat = [keymap |-> NoKeymap, down |-> {}, depressed |-> {}, locked |-> {},
                 layout |-> 1, buttons |-> {}]
      /\ orphan = {} /\ typed = Nothing
      /\ coming \in {<<[base |-> b, extra |-> <<>>]>> : b \in DOMAIN Session}
  BY DEF InputInit
<1>2. e \in HeldSymbols /\ DOMAIN e = {} /\ e \in Seq(Text \cap Keysyms) /\ Len(e) = 0
  <2>1. e \in HeldSymbols /\ DOMAIN e = {}
    BY EmptyFunction DEF HeldSymbols
  <2>2. e \in Seq(Text \cap Keysyms) /\ Len(e) = 0
    OBVIOUS
  <2> QED
    BY <2>1, <2>2
<1>3. NewState \in KeyState /\ Depressed(NewState) = {} /\ NewState.locked = {} /\ NewState.layout = 1
  <2>1. NewState \in KeyState
    BY LimitsAssumption DEF NewState, KeyState
  <2>2. {k \in ModKeys : NewState.held[k] > 0} = {}
    BY DEF NewState
  <2> QED
    BY <2>1, <2>2 DEF Depressed, NewState
<1>4. 1 \in 1 .. Layouts
  BY LimitsAssumption
<1> HIDE DEF e
<1>5. /\ d.base = NoKeymap /\ d.keymap = NoKeymap /\ d.extra = e /\ d.pressed_syms = e
      /\ d.pressed_codes = {} /\ d.pressed_buttons = {} /\ d.state = NewState
      /\ d \in Display
  BY <1>1, <1>2, <1>3 DEF Display
<1>6. /\ seat.keymap = NoKeymap /\ seat.down = {} /\ seat.depressed = {} /\ seat.locked = {}
      /\ seat.layout = 1 /\ seat.buttons = {} /\ seat \in Seat
  BY <1>1, <1>4 DEF Seat
<1>7. World \in [d : Display, seat : Seat] /\ World.d = d /\ World.seat = seat
  BY <1>5, <1>6 DEF World
<1>8. HeldSyms(World) = {} /\ KeysOf(World) = {}
  BY <1>2, <1>5, <1>7 DEF HeldSyms, KeysOf
<1>9. WorldOK(World)
  <2>1. Len(d.extra) <= MaxExtra
    BY <1>2, <1>5, LimitsAssumption
  <2> QED
    BY <1>5, <1>6, <1>7, <1>8, <2>1, FS_EmptySet DEF WorldOK
<1>10. Informed(World) /\ Recorded(World, orphan)
  BY <1>1, <1>3, <1>5, <1>6, <1>7 DEF Informed, Recorded
<1>11. coming \in Seq(Keymaps)
  <2>1. PICK b \in DOMAIN Session : coming = <<[base |-> b, extra |-> <<>>]>>
    BY <1>1
  <2> DEFINE m == [base |-> b, extra |-> <<>>]
  <2>2. m \in Keymaps
    BY PlainKeymap
  <2>3. coming = <<m>>
    BY <2>1
  <2> HIDE DEF m
  <2> QED
    BY <2>2, <2>3
<1>12. TypedAsMeant
  BY <1>1 DEF TypedAsMeant, Nothing
<1> QED
  BY <1>9, <1>10, <1>11, <1>12 DEF InputInv

\* What was typed is nothing, or is read as the key pressed gives it.
LEMMA TypedNothing == ASSUME typed' = Nothing PROVE TypedAsMeant'
BY DEF TypedAsMeant, Nothing

LEMMA PressKeysymStep ==
  ASSUME InputInv, NEW sym \in Keysyms, PressKeysym(sym)
  PROVE  InputInv'
<1> DEFINE w == Released(World, sym)
           t == rd_keymap_find[<<w.d.keymap, sym, w.d.state.layout>>]
           u(x) == rd_keymap_find[<<x.d.keymap, sym, w.d.state.layout>>]
<1>1. /\ WorldOK(w) /\ Informed(w) /\ Recorded(w, orphan) /\ sym \notin HeldSyms(w)
      /\ w.d.keymap = d.keymap /\ w.seat.keymap = seat.keymap /\ d.keymap # NoKeymap
  <2>1. World.d = d /\ World.seat = seat
    BY DEF World
  <2>2. /\ WorldOK(w) /\ Informed(w) /\ Recorded(w, orphan) /\ sym \notin HeldSyms(w)
        /\ Kept(w, World)
    BY ReleasedOK DEF InputInv
  <2>3. d.keymap # NoKeymap
    BY DEF PressKeysym
  <2>4. WorldOK(World)
    BY DEF InputInv
  <2> HIDE DEF w
  <2> QED
    BY <2>1, <2>2, <2>3, <2>4 DEF Kept, WorldOK
<1>2. w.d.state.layout \in 1 .. Layouts
  <2> HIDE DEF w
  <2> QED
    BY <1>1 DEF WorldOK, Display, KeyState
<1>3. PICK x \in IF t # NoTarget \/ sym \notin Text THEN {w} ELSE extend_keymap(w, sym) :
        IF u(x) = NoTarget
        THEN Becomes(x, {}) /\ Echo(x, coming) /\ typed' = Nothing
        ELSE /\ Becomes(Pressed(x, sym, u(x)), {}) /\ Echo(x, coming)
             /\ typed' = IF sym \notin Text THEN Nothing ELSE
                  [meant |-> sym, read |-> Read(x, sym, u(x)),
                   caps |-> "Lock" \in Depressed(x.d.state) \cup x.d.state.locked]
  BY DEF PressKeysym
<1> HIDE DEF w
<1>4. /\ WorldOK(x) /\ Informed(x) /\ Recorded(x, orphan) /\ sym \notin HeldSyms(x)
      /\ x.d.keymap # NoKeymap /\ x.d.keymap \in Keymaps
      /\ x.seat.keymap = seat.keymap \/ x.seat.keymap \in Keymaps
  <2>1. CASE x = w
    BY <1>1, <2>1 DEF WorldOK
  <2>2. CASE sym \in Text /\ x \in extend_keymap(w, sym)
    BY <1>1, <2>2, Extended
  <2> QED
    BY <1>3, <2>1, <2>2
<1> HIDE DEF t
<1>5. Echo(x, coming)
  BY <1>3
<1>6. coming' \in Seq(Keymaps)
  BY <1>4, <1>5, EchoOK DEF InputInv
<1>7. CASE u(x) = NoTarget
  <2>1. Becomes(x, {}) /\ typed' = Nothing
    BY <1>3, <1>7
  <2>2. WorldOK(World)' /\ Informed(World)' /\ Recorded(World, orphan)'
    BY <1>4, <2>1, BecomesOK
  <2> QED
    BY <1>6, <2>1, <2>2, TypedNothing DEF InputInv
<1>8. CASE u(x) # NoTarget
  <2> DEFINE y == Pressed(x, sym, u(x))
  <2>1. IsTarget(x.d.keymap, sym, u(x))
    BY <1>2, <1>4, <1>8, FoundTarget
  <2>2. /\ Becomes(y, {})
        /\ typed' = IF sym \notin Text THEN Nothing ELSE
                  [meant |-> sym, read |-> Read(x, sym, u(x)),
                   caps |-> "Lock" \in Depressed(x.d.state) \cup x.d.state.locked]
    BY <1>3, <1>8
  <2> HIDE DEF u
  <2>3. WorldOK(y) /\ Informed(y) /\ Recorded(y, orphan)
    BY <1>4, <2>1, PressedOK
  <2> HIDE DEF y
  <2>4. WorldOK(World)' /\ Informed(World)' /\ Recorded(World, orphan)'
    BY <2>2, <2>3, BecomesOK
  <2>5. TypedAsMeant'
    <3>1. CASE sym \notin Text
      BY <2>2, <3>1, TypedNothing
    <3>2. CASE sym \in Text
      <4>1. \/ Read(x, sym, u(x)) = sym
            \/ /\ "Lock" \in Depressed(x.d.state) \cup x.d.state.locked
               /\ sym \in DOMAIN Capital /\ Read(x, sym, u(x)) = Capital[sym]
        BY <1>4, <2>1, <3>2, ReadsSymbol
      <4>2. /\ typed'.meant = sym /\ typed'.read = Read(x, sym, u(x))
            /\ typed'.caps = ("Lock" \in Depressed(x.d.state) \cup x.d.state.locked)
        BY <2>2, <3>2
      <4> QED
        BY <4>1, <4>2 DEF TypedAsMeant
    <3> QED
      BY <3>1, <3>2
  <2> QED
    BY <1>6, <2>4, <2>5 DEF InputInv
<1> QED
  BY <1>7, <1>8

LEMMA KeycodeStep ==
  ASSUME InputInv, NEW code \in Codes, NEW pressed \in BOOLEAN, rd_display_keycode(code, pressed)
  PROVE  InputInv'
<1> DEFINE codes == IF pressed THEN d.pressed_codes \cup {code} ELSE d.pressed_codes \ {code}
           w == [World EXCEPT !.d.pressed_codes = codes]
           u == send_key(w, code, pressed)
<1>1. World.d = d /\ World.seat = seat /\ d \in Display /\ seat \in Seat
  BY DEF World, InputInv, WorldOK
<1>2. Becomes(u, {}) /\ UNCHANGED coming /\ typed' = Nothing
  BY <1>1 DEF rd_display_keycode
<1>3. codes \in SUBSET Codes
  BY <1>1 DEF Display
<1> HIDE DEF codes
<1>4. w.d = [d EXCEPT !.pressed_codes = codes] /\ w.seat = seat /\ w = [d |-> w.d, seat |-> w.seat]
  BY <1>1 DEF World
<1> HIDE DEF w
<1>5. /\ w.d \in Display /\ w.d.pressed_codes = codes /\ w.d.base = d.base
      /\ w.d.keymap = d.keymap /\ w.d.extra = d.extra /\ w.d.pressed_syms = d.pressed_syms
      /\ w.d.pressed_buttons = d.pressed_buttons
  BY <1>1, <1>3, <1>4 DEF Display
<1>6. HeldSyms(w) = HeldSyms(World) /\ KeysOf(w) = KeysOf(World)
  BY <1>1, <1>5 DEF HeldSyms, KeysOf
<1>7. WorldOK(w)
  BY <1>1, <1>4, <1>5, <1>6 DEF InputInv, WorldOK
<1>8. WorldOK(u) /\ Informed(u) /\ SameHeld(u, w)
      /\ u.seat.down = IF pressed THEN w.seat.down \cup {code} ELSE w.seat.down \ {code}
  BY <1>7, SendKey
<1> HIDE DEF u
<1>9. Recorded(u, orphan)
  <2>1. KeysOf(u) = KeysOf(World) /\ u.d.pressed_codes = codes
        /\ u.d.pressed_buttons = d.pressed_buttons /\ u.seat.buttons = seat.buttons
    <3>1. u.d.pressed_syms = w.d.pressed_syms /\ u.d.pressed_codes = w.d.pressed_codes
          /\ u.d.pressed_buttons = w.d.pressed_buttons /\ u.seat.buttons = w.seat.buttons
      BY <1>8 DEF SameHeld
    <3>2. KeysOf(u) = KeysOf(w)
      BY <3>1 DEF KeysOf, HeldSyms
    <3> QED
      BY <1>4, <1>5, <1>6, <3>1, <3>2
  <2>2. /\ seat.down \subseteq KeysOf(World) \cup d.pressed_codes \cup orphan
        /\ seat.buttons = d.pressed_buttons
    BY <1>1 DEF InputInv, Recorded
  <2> QED
    BY <1>4, <1>8, <2>1, <2>2 DEF Recorded, codes
<1>10. WorldOK(World)' /\ Informed(World)' /\ Recorded(World, orphan)'
  BY <1>2, <1>8, <1>9, BecomesOK
<1> QED
  BY <1>2, <1>10, TypedNothing DEF InputInv

LEMMA ButtonStep ==
  ASSUME InputInv, NEW b \in Buttons, NEW pressed \in BOOLEAN,
         rd_display_pointer_button(b, pressed)
  PROVE  InputInv'
<1> DEFINE bs == IF pressed THEN d.pressed_buttons \cup {b} ELSE d.pressed_buttons \ {b}
           w == [d |-> [d EXCEPT !.pressed_buttons = bs], seat |-> [seat EXCEPT !.buttons = bs]]
<1>1. World.d = d /\ World.seat = seat /\ d \in Display /\ seat \in Seat
  BY DEF World, InputInv, WorldOK
<1>2. /\ d' = w.d /\ seat' = w.seat
      /\ UNCHANGED <<coming, orphan>> /\ typed' = Nothing
  BY DEF rd_display_pointer_button
<1>3. bs \in SUBSET Buttons
  BY <1>1 DEF Display
<1> HIDE DEF bs
<1>4. /\ w.d \in Display /\ w.d.pressed_codes = d.pressed_codes /\ w.d.base = d.base
      /\ w.d.keymap = d.keymap /\ w.d.extra = d.extra /\ w.d.pressed_syms = d.pressed_syms
      /\ w.d.pressed_buttons = bs /\ w.d.state = d.state
  BY <1>1, <1>3 DEF Display
<1>5. /\ w.seat \in Seat /\ w.seat.keymap = seat.keymap /\ w.seat.down = seat.down
      /\ w.seat.depressed = seat.depressed /\ w.seat.locked = seat.locked
      /\ w.seat.layout = seat.layout /\ w.seat.buttons = bs
  BY <1>1, <1>3 DEF Seat
<1>6. HeldSyms(w) = HeldSyms(World) /\ KeysOf(w) = KeysOf(World)
  BY <1>1, <1>4 DEF HeldSyms, KeysOf
<1>7. w = [d |-> w.d, seat |-> w.seat]
  OBVIOUS
<1> HIDE DEF w
<1>8. WorldOK(w) /\ Informed(w) /\ Recorded(w, orphan)
  <2>1. WorldOK(w)
    BY <1>1, <1>4, <1>5, <1>6, <1>7 DEF InputInv, WorldOK
  <2>2. Informed(w)
    BY <1>1, <1>4, <1>5 DEF InputInv, Informed
  <2>3. Recorded(w, orphan)
    BY <1>1, <1>4, <1>5, <1>6 DEF InputInv, Recorded
  <2> QED
    BY <2>1, <2>2, <2>3
<1>9. World' = w /\ orphan' = orphan
  BY <1>2, <1>7 DEF World
<1>10. WorldOK(World') /\ Informed(World') /\ Recorded(World', orphan')
  BY <1>8, <1>9
<1> QED
  BY <1>2, <1>10, TypedNothing DEF InputInv

LEMMA AdoptStep == ASSUME InputInv, keyboard_keymap PROVE InputInv'
<1>1. /\ coming \in Seq(Keymaps) /\ coming # <<>> /\ typed' = Nothing
      /\ WorldOK(World) /\ Informed(World) /\ Recorded(World, orphan) /\ World.seat = seat
  BY DEF InputInv, keyboard_keymap, World
<1>2. PICK w \in adopt_keymap(World, Head(coming)) :
        Becomes(w, KeysOf(World) \ KeysOf(w)) /\ Echo(w, Tail(coming))
  BY DEF keyboard_keymap
<1>3. Head(coming) \in Keymaps /\ Tail(coming) \in Seq(Keymaps)
  BY <1>1
<1>4. /\ WorldOK(w) /\ Informed(w) /\ Recorded(w, orphan \cup (KeysOf(World) \ KeysOf(w)))
      /\ w.seat.keymap = seat.keymap \/ w.seat.keymap \in Keymaps
  <2> DEFINE v == World
             m == Head(coming)
  <2>1. WorldOK(v) /\ Informed(v) /\ Recorded(v, orphan) /\ m \in Keymaps /\ w \in adopt_keymap(v, m)
    BY <1>1, <1>2, <1>3
  <2> HIDE DEF v, m
  <2>2. /\ WorldOK(w) /\ Informed(w) /\ Recorded(w, orphan \cup (KeysOf(v) \ KeysOf(w)))
        /\ w.seat.keymap = v.seat.keymap \/ w.seat.keymap = m
    BY <2>1, Adopted
  <2> QED
    BY <1>1, <2>1, <2>2 DEF v
<1>5. coming' \in Seq(Keymaps)
  BY <1>2, <1>3, <1>4, EchoOK
<1>6. WorldOK(World)' /\ Informed(World)' /\ Recorded(World, orphan)'
  BY <1>2, <1>4, BecomesOK
<1> QED
  BY <1>1, <1>5, <1>6, TypedNothing DEF InputInv

LEMMA InputInvStep == InputInv /\ [InputNext]_inputVars => InputInv'
<1> SUFFICES ASSUME InputInv, [InputNext]_inputVars PROVE InputInv'
  OBVIOUS
<1>1. ASSUME NEW sym \in Keysyms, PressKeysym(sym) PROVE InputInv'
  BY <1>1, PressKeysymStep
<1>2. ASSUME NEW sym \in Keysyms, ReleaseKeysym(sym) PROVE InputInv'
  <2>1. /\ Becomes(Released(World, sym), {}) /\ UNCHANGED coming /\ typed' = Nothing
        /\ WorldOK(World) /\ Informed(World) /\ Recorded(World, orphan)
    BY <1>2 DEF ReleaseKeysym, InputInv
  <2>2. /\ WorldOK(Released(World, sym)) /\ Informed(Released(World, sym))
        /\ Recorded(Released(World, sym), orphan)
    BY <2>1, ReleasedOK
  <2>3. WorldOK(World)' /\ Informed(World)' /\ Recorded(World, orphan)'
    BY <2>1, <2>2, BecomesOK
  <2> QED
    BY <2>1, <2>3, TypedNothing DEF InputInv
<1>3. ASSUME NEW code \in Codes, NEW pressed \in BOOLEAN, rd_display_keycode(code, pressed)
      PROVE  InputInv'
  BY <1>3, KeycodeStep
<1>4. ASSUME NEW b \in Buttons, NEW pressed \in BOOLEAN, rd_display_pointer_button(b, pressed)
      PROVE  InputInv'
  BY <1>4, ButtonStep
<1>5. CASE rd_display_release_all
  <2>1. /\ Becomes(release_all(World), {}) /\ UNCHANGED coming /\ typed' = Nothing
        /\ WorldOK(World) /\ Informed(World) /\ Recorded(World, orphan)
    BY <1>5 DEF rd_display_release_all, InputInv
  <2>2. WorldOK(World)' /\ Informed(World)' /\ Recorded(World, orphan)'
    BY <2>1, ReleasedAll, BecomesOK
  <2> QED
    BY <2>1, <2>2, TypedNothing DEF InputInv
<1>6. CASE keyboard_keymap
  BY <1>6, AdoptStep
<1>7. ASSUME NEW b \in DOMAIN Session, ChooseKeymap(b) PROVE InputInv'
  <2> DEFINE m == [base |-> b, extra |-> <<>>]
  <2>1. m \in Keymaps
    BY PlainKeymap
  <2>2. coming' = Append(coming, m) /\ UNCHANGED <<d, seat, orphan>> /\ typed' = Nothing
    BY <1>7 DEF ChooseKeymap, Sends
  <2> HIDE DEF m
  <2>3. coming' \in Seq(Keymaps)
    BY <2>1, <2>2 DEF InputInv
  <2>4. World' = World
    BY <2>2 DEF World
  <2>5. WorldOK(World') /\ Informed(World') /\ Recorded(World', orphan')
    BY <2>2, <2>4 DEF InputInv
  <2> QED
    BY <2>2, <2>3, <2>5, TypedNothing DEF InputInv
<1>8. CASE UNCHANGED inputVars
  <2>1. World' = World /\ UNCHANGED <<orphan, coming, typed>>
    BY <1>8 DEF inputVars, World
  <2>2. WorldOK(World') /\ Informed(World') /\ Recorded(World', orphan')
    BY <2>1 DEF InputInv
  <2> QED
    BY <2>1, <2>2 DEF InputInv, TypedAsMeant
<1> QED
  BY <1>1, <1>2, <1>3, <1>4, <1>5, <1>6, <1>7, <1>8 DEF InputNext

LEMMA InputInductive == InputSpec => []InputInv
BY InputInvInit, InputInvStep, PTL DEF InputSpec

\* What the guest holds is recorded with a key of the keymap in use, which the client
\* and the compositor know alike (RdDisplay, install_keymap, extend_keymap, adopt_keymap).
THEOREM InputTypeCorrect == InputSpec => []InputTypeOK
<1>1. InputInv => InputTypeOK
  BY InputInvImplies
<1> QED
  BY <1>1, InputInductive, PTL

\* Every key, button, modifier and layout a guest changed is given back with the
\* release of what changed it, or when the guest leaves (rd_display_keysym,
\* rd_display_keycode, rd_display_release_all).
THEOREM GivenBack == InputSpec => []KeysGivenBack
<1>1. InputInv => KeysGivenBack
  BY InputInvImplies
<1> QED
  BY <1>1, InputInductive, PTL

\* A character is typed as the guest meant it, with any keymap, in any layout and under
\* any modifiers and locks, and what is held keeps its symbol (rd_keymap_find,
\* rd_display_keysym, extend_keymap).
THEOREM MeantIsRead == InputSpec => []SymbolsKept
<1>1. InputInv => SymbolsKept
  BY InputInvImplies
<1> QED
  BY <1>1, InputInductive, PTL

-----------------------------------------------------------------------------
(* Snap buttons.                                                           *)

WindowsOK ==
  /\ window \in [Windows -> [at : Address \cup {NoAddress}, age : 0 .. MaxAge, mapped : BOOLEAN]]
  /\ \A w \in Windows : window[w].mapped => window[w].at # NoAddress
  /\ entered \in [Button -> Address \cup {NoAddress}]

\* A button that remembers an address has its window's surface, and the compositor
\* was told so.
Remembered ==
  \A b \in Button : entered[b] # NoAddress =>
    /\ snapVersion >= 2
    /\ entered[b] = SurfaceOf(b).at
    /\ SurfaceOf(b) \in resting

SnapInv == SnapTypeOK /\ WindowsOK /\ Remembered /\ RestingIsOver

LEMMA SnapInvInit == SnapInit => SnapInv
BY NamesAssumption, MaxAgeAssumption
   DEF SnapInit, SnapInv, SnapTypeOK, WindowsOK, Remembered, RestingIsOver, Windows

\* At most one surface rests: that of the button under the pointer, if it remembers.
LEMMA RestingSurface ==
  ASSUME SnapInv
  PROVE  resting = IF over # NoButton /\ entered[over] # NoAddress THEN {SurfaceOf(over)} ELSE {}
<1>1. \A s \in resting : over # NoButton /\ s = SurfaceOf(over) /\ entered[over] = s.at
  BY DEF SnapInv, RestingIsOver
<1>2. over # NoButton => /\ over \in Button /\ window[WindowOf[over]].at # NoAddress
                         /\ SurfaceOf(over).at = window[WindowOf[over]].at
  BY DEF SnapInv, SnapTypeOK, WindowsOK, Windows, SurfaceOf
<1>3. over # NoButton /\ entered[over] # NoAddress => SurfaceOf(over) \in resting
  BY <1>2 DEF SnapInv, Remembered
<1> QED
  BY <1>1, <1>2, <1>3

\* Leaving the button under the pointer ends its rest.
LEMMA LeaveEffect ==
  ASSUME SnapInv, NEW b \in Button, singularity_snap_button_leave(b), over = b
  PROVE  /\ resting' = {} /\ LeavesOnce
         /\ entered' = [c \in Button |-> NoAddress]
<1>1. \A c \in Button : entered[c] # NoAddress => c = b
  BY DEF SnapInv, SnapTypeOK
<1>2. entered' = [c \in Button |-> NoAddress]
  BY <1>1 DEF singularity_snap_button_leave, Stolen, SnapInv, WindowsOK
<1>3. CASE entered[b] # NoAddress
  <2>1. /\ manager_for_widget(b) /\ SurfaceOf(b).at = entered[b] /\ SurfaceOf(b) \in resting
    BY <1>3 DEF SnapInv, Remembered, manager_for_widget
  <2>2. resting = {SurfaceOf(b)}
    BY <1>3, NamesAssumption, RestingSurface
  <2> QED
    BY <1>2, <1>3, <2>1, <2>2 DEF singularity_snap_button_leave, LeavesOnce
<1>4. CASE entered[b] = NoAddress
  <2>1. resting = {}
    BY <1>4, RestingSurface
  <2> QED
    BY <1>2, <1>4, <2>1 DEF singularity_snap_button_leave, LeavesOnce, Quiet
<1> QED
  BY <1>3, <1>4

\* Nothing rests and nothing is remembered.
LEMMA NothingRests ==
  ASSUME SnapInv, WindowsOK', resting' = {}, entered' = [c \in Button |-> NoAddress],
         over' \in Button \cup {NoButton}, over' # NoButton => window'[WindowOf[over']].mapped,
         \A v, w \in Windows : v # w /\ window'[v].at # NoAddress => window'[v].at # window'[w].at
  PROVE  SnapInv'
BY DEF SnapInv, SnapTypeOK, Remembered, RestingIsOver

LEMMA EnterStep ==
  ASSUME SnapInv, NEW b \in Button, PointerEnters(b)
  PROVE  SnapInv' /\ LeavesOnce
<1>1. /\ over = NoButton /\ over' = b /\ UNCHANGED <<snapVersion, window>>
      /\ window[WindowOf[b]].mapped /\ b # NoButton /\ WindowOf[b] \in Windows
  BY NamesAssumption DEF PointerEnters, Windows
<1>2. resting = {} /\ \A c \in Button : entered[c] = NoAddress
  BY <1>1, RestingSurface, NamesAssumption DEF SnapInv, SnapTypeOK
<1>3. CASE UNCHANGED <<entered, resting>> /\ request' = Quiet
  BY <1>1, <1>2, <1>3 DEF SnapInv, SnapTypeOK, WindowsOK, Remembered, RestingIsOver, LeavesOnce,
     Quiet
<1>4. CASE /\ manager_for_widget(b)
           /\ request' = <<"enter", SurfaceOf(b)>>
           /\ resting' = resting \cup {SurfaceOf(b)}
           /\ entered' = [entered EXCEPT ![b] = SurfaceOf(b).at]
  <2>1. /\ SurfaceOf(b).at \in Address /\ snapVersion >= 2
        /\ SurfaceOf(b).at = window[WindowOf[b]].at
    BY <1>1, <1>4 DEF SnapInv, WindowsOK, manager_for_widget, SurfaceOf
  <2>2. /\ entered'[b] = SurfaceOf(b).at /\ resting' = {SurfaceOf(b)}
        /\ \A c \in Button : c # b => entered'[c] = NoAddress
        /\ SurfaceOf(b)' = SurfaceOf(b)
        /\ entered' \in [Button -> Address \cup {NoAddress}]
    BY <1>1, <1>2, <1>4, <2>1 DEF SnapInv, WindowsOK, SurfaceOf
  <2>3. LeavesOnce
    BY <1>4 DEF LeavesOnce
  <2>4. SnapTypeOK'
    BY <1>1, <2>1, <2>2 DEF SnapInv, SnapTypeOK
  <2>5. WindowsOK'
    BY <1>1, <2>2 DEF SnapInv, WindowsOK
  <2>6. Remembered' /\ RestingIsOver'
    BY <1>1, <2>1, <2>2 DEF Remembered, RestingIsOver
  <2> QED
    BY <2>3, <2>4, <2>5, <2>6 DEF SnapInv
<1> QED
  BY <1>3, <1>4 DEF PointerEnters, singularity_snap_button_enter

LEMMA LeaveStep ==
  ASSUME SnapInv, NEW b \in Button, PointerLeaves(b) \/ OnPressed(b)
  PROVE  SnapInv' /\ LeavesOnce
<1>1. /\ over = b /\ singularity_snap_button_leave(b) /\ UNCHANGED <<snapVersion, window>>
      /\ over' \in {b, NoButton}
  BY DEF PointerLeaves, OnPressed
<1>2. resting' = {} /\ LeavesOnce /\ entered' = [c \in Button |-> NoAddress]
  BY <1>1, LeaveEffect
<1>3. WindowsOK' /\ (over' # NoButton => window'[WindowOf[over']].mapped)
  BY <1>1, <1>2 DEF SnapInv, SnapTypeOK, WindowsOK
<1> QED
  BY <1>1, <1>2, <1>3, NothingRests DEF SnapInv, SnapTypeOK

LEMMA WindowStep ==
  ASSUME SnapInv, NEW w \in Windows, Map(w) \/ Unmap(w) \/ UnrealizeWindow(w)
  PROVE  SnapInv' /\ LeavesOnce
<1>1. CASE Map(w) \/ UnrealizeWindow(w)
  <2>1. /\ ~window[w].mapped /\ request' = Quiet /\ UNCHANGED <<snapVersion, over, entered, resting>>
        /\ \A v \in Windows : v # w => window'[v] = window[v]
    BY <1>1 DEF Map, UnrealizeWindow, SnapInv, WindowsOK
  <2>2. LeavesOnce
    BY <2>1 DEF LeavesOnce, Quiet
  <2>3. /\ WindowsOK'
        /\ \A u, v \in Windows : u # v /\ window'[u].at # NoAddress => window'[u].at # window'[v].at
    <3>1. CASE Map(w) /\ window[w].at # NoAddress
      <4>1. window' = [window EXCEPT ![w].mapped = TRUE]
        BY <3>1 DEF Map
      <4>2. \A v \in Windows : /\ window'[v].at = window[v].at
                               /\ window'[v].mapped => window'[v].at # NoAddress
        BY <3>1, <4>1 DEF SnapInv, WindowsOK
      <4>3. window' \in [Windows -> [at : Address \cup {NoAddress}, age : 0 .. MaxAge, mapped : BOOLEAN]]
        BY <4>1 DEF SnapInv, WindowsOK
      <4>4. WindowsOK'
        BY <2>1, <4>2, <4>3 DEF SnapInv, WindowsOK
      <4>5. \A u, v \in Windows : u # v /\ window'[u].at # NoAddress => window'[u].at # window'[v].at
        BY <4>2 DEF SnapInv, SnapTypeOK
      <4> QED
        BY <4>4, <4>5
    <3>2. CASE Map(w) /\ window[w].at = NoAddress
      <4>1. PICK at \in Address :
              /\ \A v \in Windows : window[v].at # at
              /\ window' = [window EXCEPT ![w] = [at |-> at, age |-> @.age + 1, mapped |-> TRUE]]
        BY <3>2 DEF Map
      <4>2. window[w].age + 1 \in 0 .. MaxAge
        BY <3>2, MaxAgeAssumption DEF Map, SnapInv, WindowsOK
      <4>3. window'[w] = [at |-> at, age |-> window[w].age + 1, mapped |-> TRUE]
        BY <4>1 DEF SnapInv, WindowsOK
      <4> QED
        BY <2>1, <4>1, <4>2, <4>3, NamesAssumption DEF SnapInv, SnapTypeOK, WindowsOK
    <3>3. CASE UnrealizeWindow(w)
      BY <2>1, <3>3 DEF UnrealizeWindow, SnapInv, SnapTypeOK, WindowsOK
    <3> QED
      BY <1>1, <3>1, <3>2, <3>3
  <2>4. over # NoButton => over \in Button /\ WindowOf[over] \in Windows /\ WindowOf[over] # w
    BY <2>1 DEF SnapInv, SnapTypeOK, Windows
  <2>5. /\ SnapTypeOK'
        /\ over # NoButton => SurfaceOf(over)' = SurfaceOf(over)
    BY <2>1, <2>3, <2>4 DEF SnapInv, SnapTypeOK, SurfaceOf
  <2>6. Remembered' /\ RestingIsOver'
    BY <2>1, <2>4, <2>5, NamesAssumption
       DEF SnapInv, SnapTypeOK, Remembered, RestingIsOver, SurfaceOf
  <2> QED
    BY <2>2, <2>3, <2>5, <2>6 DEF SnapInv
<1>2. CASE Unmap(w)
  <2> DEFINE on == {b \in Button : WindowOf[b] = w /\ entered[b] # NoAddress}
  <2>1. /\ window' = [window EXCEPT ![w].mapped = FALSE] /\ UNCHANGED snapVersion
        /\ over' = IF over # NoButton /\ WindowOf[over] = w THEN NoButton ELSE over
    BY <1>2 DEF Unmap
  <2>2. /\ \A v \in Windows : /\ window'[v].at = window[v].at /\ window'[v].age = window[v].age
                              /\ v # w => window'[v] = window[v]
        /\ window' \in [Windows -> [at : Address \cup {NoAddress}, age : 0 .. MaxAge, mapped : BOOLEAN]]
        /\ \A v \in Windows : window'[v].mapped => window'[v].at # NoAddress
    BY <2>1 DEF SnapInv, WindowsOK
  <2>3. /\ over' \in Button \cup {NoButton}
        /\ over' # NoButton => window'[WindowOf[over']].mapped
        /\ \A u, v \in Windows : u # v /\ window'[u].at # NoAddress => window'[u].at # window'[v].at
    BY <2>1, <2>2 DEF SnapInv, SnapTypeOK, Windows
  <2>4. CASE on = {}
    <3>1. UNCHANGED <<entered, resting>> /\ request' = Quiet
      BY <1>2, <2>4 DEF Unmap
    <3>2. \A b \in Button : entered[b] # NoAddress => over' = b /\ over = b
      BY <2>1, <2>4, NamesAssumption DEF SnapInv, SnapTypeOK
    <3>3. \A b \in Button : SurfaceOf(b)' = SurfaceOf(b)
      BY <2>2 DEF SurfaceOf, Windows
    <3>4. SnapTypeOK' /\ WindowsOK'
      BY <2>2, <2>3, <3>1, <3>2 DEF SnapInv, SnapTypeOK, WindowsOK
    <3>5. Remembered'
      BY <2>1, <3>1, <3>3 DEF SnapInv, Remembered
    <3>6. RestingIsOver'
      <4>1. ASSUME NEW s \in resting
            PROVE  over' # NoButton /\ s = SurfaceOf(over)' /\ entered'[over'] = s.at
        <5>1. PICK b \in Button : /\ over = b /\ over # NoButton /\ s = SurfaceOf(b)
                                  /\ entered[b] = s.at /\ entered[b] # NoAddress
          BY RestingSurface DEF SnapInv, RestingIsOver, SnapTypeOK
        <5>2. over' = b
          BY <3>2, <5>1
        <5>3. SurfaceOf(over)' = SurfaceOf(b)'
          BY <5>2 DEF SurfaceOf
        <5> QED
          BY <3>1, <3>3, <5>1, <5>2, <5>3
      <4> QED
        BY <3>1, <4>1 DEF RestingIsOver
    <3>7. LeavesOnce
      BY <3>1 DEF LeavesOnce, Quiet
    <3> QED
      BY <3>4, <3>5, <3>6, <3>7 DEF SnapInv
  <2>5. CASE on # {}
    <3>1. PICK b \in on : singularity_snap_button_leave(b)
      BY <1>2, <2>5 DEF Unmap, OnUnmap
    <3>2. over = b /\ b \in Button
      BY <3>1 DEF SnapInv, SnapTypeOK
    <3>3. resting' = {} /\ LeavesOnce /\ entered' = [c \in Button |-> NoAddress]
      BY <3>1, <3>2, LeaveEffect
    <3>4. WindowsOK'
      BY <2>2, <3>3 DEF WindowsOK
    <3> QED
      BY <2>3, <3>3, <3>4, NothingRests
  <2> QED
    BY <2>4, <2>5
<1> QED
  BY <1>1, <1>2

LEMMA SnapInvStep == SnapInv /\ [SnapNext]_snapVars => SnapInv' /\ (LeavesOnce \/ UNCHANGED snapVars)
<1>1. SnapInv /\ UNCHANGED snapVars => SnapInv'
  BY DEF snapVars, SnapInv, SnapTypeOK, WindowsOK, Remembered, RestingIsOver, SurfaceOf
<1> QED
  BY <1>1, EnterStep, LeaveStep, WindowStep DEF SnapNext

LEMMA SnapInductive == SnapSpec => []SnapInv
BY SnapInvInit, SnapInvStep, PTL DEF SnapSpec

\* The pointer rests, for the compositor, on the surface of the button it is over
\* and on no other, and no surface is left that was not entered, though windows
\* come and go and their addresses are used again (singularity_snap_button_enter,
\* singularity_snap_button_leave and the handlers of attach_maximize_button).
THEOREM PointerAgrees == SnapSpec => PointerRests
<1>1. SnapInv /\ SnapInv' /\ [SnapNext]_snapVars => [RestingIsOver' /\ LeavesOnce]_snapVars
  BY SnapInvStep DEF SnapInv
<1> QED
  BY <1>1, SnapInductive, PTL DEF SnapSpec, PointerRests

-----------------------------------------------------------------------------
(* Surface effects.                                                        *)

Given == [mode : Mode \cup {"glass"}, region : Region \cup {Whole}, strength : Strength]
Material == Given \cup {Unset}
Shown == [mode : Mode \cup {"glass", "blur", "disabled", "unset"}, region : Region \cup {Whole},
          strength : Strength \cup {0}]

SurfacesOK ==
  /\ surface \in [Window -> Surfaces \cup {NoSurface}]
  /\ effect \in [Window -> [proxy : Surfaces \cup {NoSurface}, given : Material]]
  /\ card \in [Surfaces -> Material]
  /\ shown \in [Surfaces -> Shown]
  /\ native \in [Surfaces -> [given : Material, input : Region \cup {Whole},
                              by : {"unmade", "nobody", "region", "plain"}]]
  /\ asked \in [Window -> [given : Material, by : {"nobody", "region", "plain", "protocol"}]]
  /\ proxies \subseteq Surfaces
  /\ \A w \in Window : surface[w] # NoSurface => native[surface[w]].by # "unmade"

\* What is remembered of the calls made is what they made of the surface.
CachesAgree ==
  /\ \A s \in Surfaces : card[s] # Unset /\ native[s].by = "region" => native[s].given = card[s]
  /\ \A w \in Window :
       LET s == surface[w] IN
       /\ kind[w] = "card" /\ s # NoSurface /\ card[s] # Unset => native[s].input = card[s].region
       /\ effect[w].given # Unset => shown[s] = Protocol(effect[w].given)
       /\ effect[w].proxy # NoSurface => effect[w].proxy \in proxies
       /\ asked[w].by # "nobody" => s # NoSurface

EffectInv == EffectTypeOK /\ SurfacesOK /\ CachesAgree /\ EffectShown

\* What a paint of window w does, of the material it was asked for.
Ignored == UNCHANGED <<effect, hooked, card, shown, native, proxies, asked>>

Told(w, by, given) ==
  asked' = [asked EXCEPT ![w] = [given |-> given, by |-> by]]

Plainly(w, given) ==
  /\ native' = [native EXCEPT ![surface[w]] = [@ EXCEPT !.given = given, !.by = "plain"]]
  /\ Told(w, "plain", given)
  /\ UNCHANGED <<effect, hooked, card, shown, proxies>>

ByProtocol(w, given) ==
  /\ effect' = [effect EXCEPT ![w] = [proxy |-> surface[w], given |-> given]]
  /\ shown' = [shown EXCEPT ![surface[w]] = Protocol(given)]
  /\ proxies' = proxies \cup {surface[w]} /\ hooked' = hooked \cup {w}
  /\ Told(w, "protocol", given)
  /\ UNCHANGED <<card, native>>

ByRegion(w, given) ==
  /\ Told(w, "region", given)
  /\ \/ card[surface[w]] = given /\ UNCHANGED <<card, native>>
     \/ /\ card' = [card EXCEPT ![surface[w]] = given]
        /\ native' = [native EXCEPT ![surface[w]] =
             [given |-> given, by |-> "region",
              input |-> InputRegion(@.input, given, kind[w] = "card")]]
  /\ UNCHANGED <<effect, hooked, shown, proxies>>

\* Over the protocol: whether the request was made before or not.
LEMMA ToldCompositor ==
  ASSUME EffectInv, NEW w \in Window, surface[w] # NoSurface, NEW given \in Given,
         NEW r, r \in get_manager(Widgets),
         NEW q, q = TellCompositor(r, w, given), Settle(q)
  PROVE  ByProtocol(w, given)
<1> DEFINE s == surface[w]
           e == IF r.effect[w].proxy # NoSurface THEN r
                ELSE [r EXCEPT !.effect[w] = [proxy |-> s, given |-> Unset],
                               !.proxies = @ \cup {s},
                               !.hooked = @ \cup {w}]
           done == Asked(e, w, given, "protocol")
<1>1. /\ s \in Surfaces /\ effect \in [Window -> [proxy : Surfaces \cup {NoSurface}, given : Material]]
      /\ given # Unset
      /\ effect[w].proxy # NoSurface =>
           effect[w].proxy = s /\ w \in hooked /\ s \in proxies
      /\ effect[w].given # Unset => effect[w].proxy # NoSurface /\ shown[s] = Protocol(effect[w].given)
      /\ shown \in [Surfaces -> Shown]
  BY ModeAssumption DEF EffectInv, EffectTypeOK, SurfacesOK, CachesAgree, Given, Unset
<1>2. /\ r.effect = effect /\ r.hooked = hooked /\ r.card = card /\ r.shown = shown
      /\ r.native = native /\ r.proxies = proxies /\ r.asked = asked
      /\ r = [effect |-> effect, hooked |-> hooked, card |-> card, manager |-> r.manager,
              shown |-> shown, native |-> native, proxies |-> proxies, asked |-> asked]
  BY DEF get_manager, Widgets
<1>3. /\ e.effect = [effect EXCEPT ![w] = [proxy |-> s, given |-> effect[w].given]]
      /\ e.proxies = proxies \cup {s} /\ e.hooked = hooked \cup {w}
      /\ e.card = card /\ e.shown = shown /\ e.native = native /\ e.asked = asked
      /\ e = [effect |-> e.effect, hooked |-> e.hooked, card |-> card, manager |-> e.manager,
              shown |-> shown, native |-> native, proxies |-> e.proxies, asked |-> asked]
  <2>1. CASE effect[w].proxy # NoSurface
    BY <1>1, <1>2, <2>1
  <2>2. CASE effect[w].proxy = NoSurface
    BY <1>1, <1>2, <2>2
  <2> QED
    BY <2>1, <2>2
<1> HIDE DEF e
<1>4. /\ done.effect = e.effect /\ done.proxies = e.proxies /\ done.hooked = e.hooked
      /\ done.card = card /\ done.shown = shown /\ done.native = native
      /\ done.asked = [asked EXCEPT ![w] = [given |-> given, by |-> "protocol"]]
      /\ done = [effect |-> e.effect, hooked |-> e.hooked, card |-> card, manager |-> done.manager,
              shown |-> shown, native |-> native, proxies |-> e.proxies, asked |-> done.asked]
  BY <1>3 DEF Asked
<1> HIDE DEF done
<1>5. q = IF e.effect[w].given = given THEN done
          ELSE [done EXCEPT !.effect[w].given = given,
                            !.shown[done.effect[w].proxy] = Protocol(given)]
  BY DEF TellCompositor, e, done
<1>6. e.effect[w] = [proxy |-> s, given |-> effect[w].given]
  BY <1>1, <1>3
<1>7. CASE effect[w].given = given
  <2>1. q = done
    BY <1>5, <1>6, <1>7
  <2>2. effect' = [effect EXCEPT ![w] = [proxy |-> s, given |-> given]]
    BY <1>3, <1>4, <1>7, <2>1 DEF Settle
  <2>3. shown' = [shown EXCEPT ![s] = Protocol(given)]
    BY <1>1, <1>4, <1>7, <2>1 DEF Settle
  <2> QED
    BY <1>3, <1>4, <2>1, <2>2, <2>3 DEF Settle, ByProtocol, Told
<1>8. CASE effect[w].given # given
  <2>1. q = [done EXCEPT !.effect[w].given = given,
                         !.shown[done.effect[w].proxy] = Protocol(given)]
    BY <1>5, <1>6, <1>8
  <2>2. done.effect[w].proxy = s
    BY <1>4, <1>6
  <2>3. /\ q.effect = [e.effect EXCEPT ![w].given = given]
        /\ q.shown = [shown EXCEPT ![s] = Protocol(given)]
        /\ q.proxies = e.proxies /\ q.hooked = e.hooked /\ q.card = card /\ q.native = native
        /\ q.asked = done.asked
    BY <1>4, <2>1, <2>2
  <2>4. [e.effect EXCEPT ![w].given = given] = [effect EXCEPT ![w] = [proxy |-> s, given |-> given]]
    <3>1. [e.effect[w] EXCEPT !.given = given] = [proxy |-> s, given |-> given]
      BY <1>6
    <3>2. [e.effect EXCEPT ![w].given = given] = [e.effect EXCEPT ![w] = [proxy |-> s, given |-> given]]
      BY <3>1
    <3> QED
      BY <1>1, <1>3, <3>2
  <2> QED
    BY <1>3, <1>4, <2>3, <2>4 DEF Settle, ByProtocol, Told
<1> QED
  BY <1>7, <1>8

LEMMA EffectSet ==
  ASSUME EffectInv, NEW w \in Window, surface[w] # NoSurface, NEW given \in Given,
         NEW q \in singularity_surface_effect_set(Widgets, w, given), Settle(q)
  PROVE  \/ Ignored
         \/ \E g \in Given : Plainly(w, g) \/ ByProtocol(w, g)
<1> DEFINE plain == IF has.set THEN given ELSE Glass(given)
<1>1. plain \in Given
  BY DEF Given, Glass
<1>2. CASE has.set
  <2>1. q = Asked([Widgets EXCEPT !.native[surface[w]] = [@ EXCEPT !.given = plain, !.by = "plain"]],
                  w, plain, "plain")
    BY <1>2 DEF singularity_surface_effect_set
  <2> HIDE DEF plain
  <2>2. /\ q.native = [native EXCEPT ![surface[w]] = [@ EXCEPT !.given = plain, !.by = "plain"]]
        /\ q.asked = [asked EXCEPT ![w] = [given |-> plain, by |-> "plain"]]
        /\ q.effect = effect /\ q.hooked = hooked /\ q.card = card /\ q.shown = shown
        /\ q.proxies = proxies
    BY <2>1 DEF Asked, Widgets
  <2>3. Plainly(w, plain)
    BY <2>2 DEF Settle, Plainly, Told
  <2> QED
    BY <1>1, <2>3
<1>3. CASE ~has.set
  <2>1. PICK r \in get_manager(Widgets) :
          q = IF r.manager /\ has.version > 0 THEN TellCompositor(r, w, plain) ELSE r
    BY <1>3 DEF singularity_surface_effect_set
  <2> HIDE DEF plain
  <2>2. CASE q = TellCompositor(r, w, plain)
    BY <1>1, <2>1, <2>2, ToldCompositor
  <2>3. CASE q = r
    <3>1. /\ r.effect = effect /\ r.hooked = hooked /\ r.card = card /\ r.shown = shown
          /\ r.native = native /\ r.proxies = proxies /\ r.asked = asked
      BY DEF get_manager, Widgets
    <3> QED
      BY <2>3, <3>1 DEF Settle, Ignored
  <2> QED
    BY <2>1, <2>2, <2>3
<1> QED
  BY <1>2, <1>3

LEMMA PaintCases ==
  ASSUME EffectInv, NEW w \in Window, NEW given \in Given, Paint(w, given)
  PROVE  /\ surface[w] # NoSurface /\ UNCHANGED <<surface, kind, has>>
         /\ \/ Ignored
            \/ \E g \in Given : ByRegion(w, g)
            \/ kind[w] # "card" /\ \E g \in Given : Plainly(w, g) \/ ByProtocol(w, g)
<1>1. /\ surface[w] # NoSurface /\ UNCHANGED <<surface, kind, has>>
  BY DEF Paint, Settle
<1>2. CASE kind[w] = "plain"
  <2>1. PICK q \in singularity_surface_effect_set(Widgets, w, given) : Settle(q)
    BY <1>2 DEF Paint
  <2> QED
    BY <1>1, <1>2, <2>1, EffectSet
<1>3. CASE kind[w] # "plain"
  <2> DEFINE tried == with_region(Widgets, w, given, kind[w] = "card")
             whole == IF kind[w] = "shapes" THEN [given EXCEPT !.region = Whole] ELSE given
  <2>1. PICK t \in tried :
          \E q \in (IF t.ok \/ kind[w] = "card" THEN {t.r}
                    ELSE singularity_surface_effect_set(t.r, w, whole)) : Settle(q)
    BY <1>3 DEF Paint
  <2>2. whole \in Given
    BY DEF Given
  <2>3. \/ t = [ok |-> FALSE, r |-> Widgets]
        \/ t \in apply_region(Widgets, w, given, kind[w] = "card")
    BY <2>1 DEF with_region
  <2> HIDE DEF whole, tried
  <2>4. CASE t = [ok |-> FALSE, r |-> Widgets]
    <3>1. CASE kind[w] = "card"
      <4>1. Settle(Widgets)
        BY <2>1, <2>4, <3>1
      <4> QED
        BY <1>1, <4>1 DEF Settle, Ignored, Widgets
    <3>2. CASE kind[w] # "card"
      <4>1. PICK q \in singularity_surface_effect_set(Widgets, w, whole) : Settle(q)
        BY <2>1, <2>4, <3>2
      <4> QED
        BY <1>1, <2>2, <3>2, <4>1, EffectSet
    <3> QED
      BY <3>1, <3>2
  <2>5. CASE /\ card[surface[w]] = given
             /\ t = [ok |-> TRUE, r |-> Asked(Widgets, w, given, "region")]
    <3>1. Settle(Asked(Widgets, w, given, "region"))
      BY <2>1, <2>5
    <3>2. ByRegion(w, given)
      BY <2>5, <3>1 DEF Settle, Asked, Widgets, ByRegion, Told
    <3> QED
      BY <1>1, <3>2
  <2>6. CASE t = [ok |-> TRUE,
               r |-> [Asked(Widgets, w, given, "region") EXCEPT !.card[surface[w]] = given,
                      !.native[surface[w]] = [given |-> given, by |-> "region",
                         input |-> InputRegion(@.input, given, kind[w] = "card")]]]
    <3> DEFINE q == [Asked(Widgets, w, given, "region") EXCEPT !.card[surface[w]] = given,
                      !.native[surface[w]] = [given |-> given, by |-> "region",
                         input |-> InputRegion(@.input, given, kind[w] = "card")]]
    <3>1. /\ q.card = [card EXCEPT ![surface[w]] = given]
          /\ q.native = [native EXCEPT ![surface[w]] = [given |-> given, by |-> "region",
                           input |-> InputRegion(@.input, given, kind[w] = "card")]]
          /\ q.asked = [asked EXCEPT ![w] = [given |-> given, by |-> "region"]]
          /\ q.effect = effect /\ q.hooked = hooked /\ q.shown = shown /\ q.proxies = proxies
      BY DEF Asked, Widgets
    <3>2. Settle(q)
      BY <2>1, <2>6
    <3> HIDE DEF q
    <3>3. ByRegion(w, given)
      BY <3>1, <3>2 DEF Settle, ByRegion, Told
    <3> QED
      BY <1>1, <3>3
  <2>7. t \in apply_region(Widgets, w, given, kind[w] = "card") =>
          \/ t = [ok |-> FALSE, r |-> Widgets]
          \/ /\ card[surface[w]] = given
             /\ t = [ok |-> TRUE, r |-> Asked(Widgets, w, given, "region")]
          \/ t = [ok |-> TRUE,
               r |-> [Asked(Widgets, w, given, "region") EXCEPT !.card[surface[w]] = given,
                      !.native[surface[w]] = [given |-> given, by |-> "region",
                         input |-> InputRegion(@.input, given, kind[w] = "card")]]]
    <3>1. Widgets.card = card
      BY DEF Widgets
    <3> QED
      BY <3>1 DEF apply_region, SameCard
  <2> QED
    BY <2>3, <2>4, <2>5, <2>6, <2>7
<1> QED
  BY <1>2, <1>3

\* A paint keeps what is true of every surface.
LEMMA PaintStep ==
  ASSUME EffectInv, NEW w \in Window, NEW given \in Given, Paint(w, given)
  PROVE  EffectInv'
<1> DEFINE s == surface[w]
<1>1. /\ s # NoSurface /\ UNCHANGED <<surface, kind, has>>
      /\ \/ Ignored
         \/ \E g \in Given : ByRegion(w, g)
         \/ kind[w] # "card" /\ \E g \in Given : Plainly(w, g) \/ ByProtocol(w, g)
  BY PaintCases
<1>2. /\ s \in Surfaces /\ EffectTypeOK /\ SurfacesOK /\ CachesAgree /\ EffectShown
      /\ \A v \in Window : v # w => surface[v] # s
  BY <1>1 DEF EffectInv, EffectTypeOK, SurfacesOK
<1>3. \A g \in Given : Protocol(g) \in Shown /\ g # Unset
  BY ModeAssumption DEF Protocol, Given, Shown, Unset
<1>4. CASE Ignored
  BY <1>1, <1>2, <1>4 DEF Ignored, EffectInv, EffectTypeOK, SurfacesOK, CachesAgree, EffectShown,
     AskedIsShown, ProxiesOutlived, CardTakesInput, Protocol
<1>5. ASSUME NEW g \in Given, ByRegion(w, g) PROVE EffectInv'
  <2>1. /\ asked'[w] = [given |-> g, by |-> "region"]
        /\ \A v \in Window : v # w => asked'[v] = asked[v]
        /\ UNCHANGED <<effect, hooked, shown, proxies>>
        /\ asked' \in [Window -> [given : Material, by : {"nobody", "region", "plain", "protocol"}]]
    BY <1>2, <1>5 DEF ByRegion, Told, SurfacesOK, Material
  <2>2. /\ card'[s] = g /\ \A t \in Surfaces : t # s => card'[t] = card[t] /\ native'[t] = native[t]
        /\ native'[s].by \in {"region", "plain"}
        /\ native'[s].by = "region" => native'[s].given = g
        /\ kind[w] = "card" => native'[s].input = g.region
        /\ card' \in [Surfaces -> Material]
        /\ native' \in [Surfaces -> [given : Material, input : Region \cup {Whole},
                              by : {"unmade", "nobody", "region", "plain"}]]
    <3>1. CASE card[s] = g /\ UNCHANGED <<card, native>>
      BY <1>1, <1>2, <1>3, <3>1 DEF EffectTypeOK, SurfacesOK, CachesAgree
    <3>2. CASE /\ card' = [card EXCEPT ![s] = g]
               /\ native' = [native EXCEPT ![s] = [given |-> g, by |-> "region",
                                input |-> InputRegion(@.input, g, kind[w] = "card")]]
      <4>1. InputRegion(native[s].input, g, kind[w] = "card") \in Region \cup {Whole}
        BY <1>2 DEF InputRegion, SurfacesOK, Given
      <4>2. kind[w] = "card" => InputRegion(native[s].input, g, kind[w] = "card") = g.region
        BY DEF InputRegion
      <4> QED
        BY <1>2, <3>2, <4>1, <4>2 DEF SurfacesOK, Material
    <3> QED
      BY <1>5, <3>1, <3>2 DEF ByRegion
  <2>3. EffectTypeOK'
    BY <1>1, <1>2, <2>1, <2>2 DEF EffectTypeOK
  <2>4. SurfacesOK'
    BY <1>1, <1>2, <2>1, <2>2 DEF SurfacesOK
  <2>5. \A h : Protocol(h)' = Protocol(h)
    BY <1>1 DEF Protocol
  <2>6. ASSUME NEW v \in Window, v # w, surface[v] # NoSurface
        PROVE  /\ surface[v] \in Surfaces /\ surface[v] # s
               /\ card'[surface[v]] = card[surface[v]] /\ native'[surface[v]] = native[surface[v]]
    BY <1>2, <2>2, <2>6 DEF SurfacesOK
  <2>7. CachesAgree'
    <3>1. ASSUME NEW t \in Surfaces, card'[t] # Unset, native'[t].by = "region"
          PROVE  native'[t].given = card'[t]
      BY <1>2, <2>2, <3>1 DEF CachesAgree
    <3>2. ASSUME NEW v \in Window, kind'[v] = "card", surface'[v] # NoSurface,
                 card'[surface'[v]] # Unset
          PROVE  native'[surface'[v]].input = card'[surface'[v]].region
      BY <1>1, <1>2, <2>2, <2>6, <3>2 DEF CachesAgree
    <3>3. ASSUME NEW v \in Window
          PROVE  /\ effect'[v].given # Unset => shown'[surface'[v]] = Protocol(effect'[v].given)
                 /\ effect'[v].proxy # NoSurface => effect'[v].proxy \in proxies'
                 /\ asked'[v].by # "nobody" => surface'[v] # NoSurface
      BY <1>1, <1>2, <2>1 DEF CachesAgree
    <3> QED
      BY <2>5, <3>1, <3>2, <3>3 DEF CachesAgree
  <2>8. AskedIsShown'
    <3>1. ASSUME NEW v \in Window
          PROVE  /\ asked'[v].by = "plain" => native'[surface'[v]].given = asked'[v].given
                 /\ asked'[v].by = "region" =>
                       \/ native'[surface'[v]].given = asked'[v].given
                       \/ native'[surface'[v]].by = "plain"
                 /\ asked'[v].by = "protocol" => shown'[surface'[v]] = Protocol(asked'[v].given)
      <4>1. CASE v = w
        BY <1>1, <2>1, <2>2, <4>1
      <4>2. CASE v # w
        <5>1. asked[v].by # "nobody" => surface[v] # NoSurface
          BY <1>2 DEF CachesAgree
        <5> QED
          BY <1>1, <1>2, <2>1, <2>6, <4>2, <5>1 DEF EffectShown, AskedIsShown
      <4> QED
        BY <4>1, <4>2
    <3> QED
      BY <2>5, <3>1 DEF AskedIsShown
  <2>9. ProxiesOutlived'
    BY <1>1, <1>2, <2>1 DEF EffectShown, ProxiesOutlived
  <2>10. CardTakesInput'
    <3>1. ASSUME NEW v \in Window, kind'[v] = "card", asked'[v].by = "region"
          PROVE  native'[surface'[v]].input = asked'[v].given.region
      <4>1. CASE v = w
        BY <1>1, <2>1, <2>2, <3>1, <4>1
      <4>2. CASE v # w
        <5>1. asked[v].by # "nobody" => surface[v] # NoSurface
          BY <1>2 DEF CachesAgree
        <5> QED
          BY <1>1, <1>2, <2>1, <2>6, <3>1, <4>2, <5>1 DEF EffectShown, CardTakesInput
      <4> QED
        BY <4>1, <4>2
    <3> QED
      BY <3>1 DEF CardTakesInput
  <2> QED
    BY <2>3, <2>4, <2>7, <2>8, <2>9, <2>10 DEF EffectInv, EffectShown
<1>6. ASSUME NEW g \in Given, Plainly(w, g), kind[w] # "card" PROVE EffectInv'
  <2>1. /\ asked'[w] = [given |-> g, by |-> "plain"]
        /\ \A v \in Window : v # w => asked'[v] = asked[v]
        /\ UNCHANGED <<effect, hooked, card, shown, proxies>>
        /\ asked' \in [Window -> [given : Material, by : {"nobody", "region", "plain", "protocol"}]]
    BY <1>2, <1>6 DEF Plainly, Told, SurfacesOK, Material
  <2>2. /\ native'[s].given = g /\ native'[s].by = "plain"
        /\ \A t \in Surfaces : t # s => native'[t] = native[t]
        /\ native' \in [Surfaces -> [given : Material, input : Region \cup {Whole},
                              by : {"unmade", "nobody", "region", "plain"}]]
    <3> DEFINE plain == [native[s] EXCEPT !.given = g, !.by = "plain"]
    <3>1. native' = [native EXCEPT ![s] = plain]
      BY <1>6 DEF Plainly
    <3>2. /\ plain.given = g /\ plain.by = "plain"
          /\ plain \in [given : Material, input : Region \cup {Whole},
                        by : {"unmade", "nobody", "region", "plain"}]
      <4>1. native[s] \in [given : Material, input : Region \cup {Whole},
                           by : {"unmade", "nobody", "region", "plain"}]
        BY <1>2 DEF SurfacesOK
      <4>2. g \in Material
        BY DEF Material
      <4> QED
        BY <4>1, <4>2
    <3> HIDE DEF plain
    <3> QED
      BY <1>2, <3>1, <3>2 DEF SurfacesOK
  <2>3. EffectTypeOK'
    BY <1>1, <1>2, <2>1, <2>2 DEF EffectTypeOK
  <2>4. SurfacesOK'
    BY <1>1, <1>2, <2>1, <2>2 DEF SurfacesOK
  <2>5. \A h : Protocol(h)' = Protocol(h)
    BY <1>1 DEF Protocol
  <2>6. ASSUME NEW v \in Window, v # w, surface[v] # NoSurface
        PROVE  /\ surface[v] \in Surfaces /\ surface[v] # s
               /\ native'[surface[v]] = native[surface[v]]
    BY <1>2, <2>2, <2>6 DEF SurfacesOK
  <2>7. CachesAgree'
    <3>1. ASSUME NEW t \in Surfaces, card'[t] # Unset, native'[t].by = "region"
          PROVE  native'[t].given = card'[t]
      BY <1>2, <2>1, <2>2, <3>1 DEF CachesAgree
    <3>2. ASSUME NEW v \in Window, kind'[v] = "card", surface'[v] # NoSurface,
                 card'[surface'[v]] # Unset
          PROVE  native'[surface'[v]].input = card'[surface'[v]].region
      BY <1>1, <1>2, <1>6, <2>1, <2>6, <3>2 DEF CachesAgree
    <3>3. ASSUME NEW v \in Window
          PROVE  /\ effect'[v].given # Unset => shown'[surface'[v]] = Protocol(effect'[v].given)
                 /\ effect'[v].proxy # NoSurface => effect'[v].proxy \in proxies'
                 /\ asked'[v].by # "nobody" => surface'[v] # NoSurface
      BY <1>1, <1>2, <2>1 DEF CachesAgree
    <3> QED
      BY <2>5, <3>1, <3>2, <3>3 DEF CachesAgree
  <2>8. AskedIsShown'
    <3>1. ASSUME NEW v \in Window
          PROVE  /\ asked'[v].by = "plain" => native'[surface'[v]].given = asked'[v].given
                 /\ asked'[v].by = "region" =>
                       \/ native'[surface'[v]].given = asked'[v].given
                       \/ native'[surface'[v]].by = "plain"
                 /\ asked'[v].by = "protocol" => shown'[surface'[v]] = Protocol(asked'[v].given)
      <4>1. CASE v = w
        BY <1>1, <2>1, <2>2, <4>1
      <4>2. CASE v # w
        <5>1. asked[v].by # "nobody" => surface[v] # NoSurface
          BY <1>2 DEF CachesAgree
        <5> QED
          BY <1>1, <1>2, <2>1, <2>6, <4>2, <5>1 DEF EffectShown, AskedIsShown
      <4> QED
        BY <4>1, <4>2
    <3> QED
      BY <2>5, <3>1 DEF AskedIsShown
  <2>9. ProxiesOutlived'
    BY <1>1, <1>2, <2>1 DEF EffectShown, ProxiesOutlived
  <2>10. CardTakesInput'
    <3>1. ASSUME NEW v \in Window, kind'[v] = "card", asked'[v].by = "region"
          PROVE  native'[surface'[v]].input = asked'[v].given.region
      <4>1. CASE v = w
        BY <2>1, <3>1, <4>1
      <4>2. CASE v # w
        <5>1. asked[v].by # "nobody" => surface[v] # NoSurface
          BY <1>2 DEF CachesAgree
        <5> QED
          BY <1>1, <1>2, <2>1, <2>6, <3>1, <4>2, <5>1 DEF EffectShown, CardTakesInput
      <4> QED
        BY <4>1, <4>2
    <3> QED
      BY <3>1 DEF CardTakesInput
  <2> QED
    BY <2>3, <2>4, <2>7, <2>8, <2>9, <2>10 DEF EffectInv, EffectShown
<1>7. ASSUME NEW g \in Given, ByProtocol(w, g) PROVE EffectInv'
  <2>1. /\ asked'[w] = [given |-> g, by |-> "protocol"]
        /\ \A v \in Window : v # w => asked'[v] = asked[v] /\ effect'[v] = effect[v]
        /\ effect'[w] = [proxy |-> s, given |-> g]
        /\ UNCHANGED <<card, native>> /\ proxies' = proxies \cup {s} /\ hooked' = hooked \cup {w}
        /\ asked' \in [Window -> [given : Material, by : {"nobody", "region", "plain", "protocol"}]]
        /\ effect' \in [Window -> [proxy : Surfaces \cup {NoSurface}, given : Material]]
    BY <1>2, <1>7 DEF ByProtocol, Told, SurfacesOK, Material
  <2>2. /\ shown'[s] = Protocol(g) /\ \A t \in Surfaces : t # s => shown'[t] = shown[t]
        /\ shown' \in [Surfaces -> Shown]
    BY <1>2, <1>3, <1>7 DEF ByProtocol, SurfacesOK
  <2>3. EffectTypeOK'
    BY <1>1, <1>2, <2>1, <2>2 DEF EffectTypeOK
  <2>4. SurfacesOK'
    BY <1>1, <1>2, <2>1, <2>2 DEF SurfacesOK
  <2>5. \A h : Protocol(h)' = Protocol(h)
    BY <1>1 DEF Protocol
  <2>6. CachesAgree'
    <3>1. ASSUME NEW v \in Window, effect'[v].given # Unset
          PROVE  shown'[surface'[v]] = Protocol(effect'[v].given)
      <4>1. CASE v = w
        BY <1>1, <2>1, <2>2, <4>1
      <4>2. CASE v # w
        <5>1. surface[v] \in Surfaces /\ surface[v] # s
          BY <1>2, <2>1, <3>1, <4>2 DEF EffectTypeOK, SurfacesOK
        <5> QED
          BY <1>1, <1>2, <2>1, <2>2, <3>1, <4>2, <5>1 DEF CachesAgree
      <4> QED
        BY <4>1, <4>2
    <3> QED
      BY <1>1, <1>2, <2>1, <2>5, <3>1 DEF CachesAgree
  <2>7. AskedIsShown'
    <3>1. ASSUME NEW v \in Window, asked'[v].by = "protocol"
          PROVE  shown'[surface'[v]] = Protocol(asked'[v].given)
      <4>1. CASE v = w
        BY <1>1, <2>1, <2>2, <4>1
      <4>2. CASE v # w
        <5>1. surface[v] \in Surfaces /\ surface[v] # s
          BY <1>2, <2>1, <3>1, <4>2 DEF CachesAgree, SurfacesOK
        <5> QED
          BY <1>1, <1>2, <2>1, <2>2, <3>1, <4>2, <5>1 DEF EffectShown, AskedIsShown
      <4> QED
        BY <4>1, <4>2
    <3> QED
      BY <1>1, <1>2, <2>1, <2>5, <3>1 DEF EffectShown, AskedIsShown
  <2>8. ProxiesOutlived' /\ CardTakesInput'
    BY <1>1, <1>2, <2>1 DEF EffectShown, ProxiesOutlived, CardTakesInput, EffectTypeOK
  <2> QED
    BY <2>3, <2>4, <2>6, <2>7, <2>8 DEF EffectInv, EffectShown
<1> QED
  BY <1>1, <1>4, <1>5, <1>6, <1>7

LEMMA EffectInvInit == EffectInit => EffectInv
<1> SUFFICES ASSUME EffectInit PROVE EffectInv
  OBVIOUS
<1>1. /\ Unset \in Material /\ Unset \in Shown /\ NoSurface \notin Surfaces
      /\ [Untold EXCEPT !.by = "unmade"] = [given |-> Unset, input |-> Whole, by |-> "unmade"]
  BY DEF Unset, Material, Shown, Untold, NoSurface, Surfaces
<1>2. EffectTypeOK
  BY DEF EffectInit, EffectTypeOK, NoEffect
<1>3. SurfacesOK
  BY <1>1 DEF EffectInit, SurfacesOK, NoEffect, Unasked
<1>4. CachesAgree
  BY <1>1 DEF EffectInit, CachesAgree, NoEffect, Unasked
<1>5. EffectShown
  BY DEF EffectInit, EffectShown, AskedIsShown, ProxiesOutlived, CardTakesInput, Unasked
<1> QED
  BY <1>2, <1>3, <1>4, <1>5 DEF EffectInv

\* A surface that is made is nobody's yet, and nothing is remembered of it.
LEMMA RealizeStep ==
  ASSUME EffectInv, NEW w \in Window, Realize(w)
  PROVE  EffectInv'
<1>1. PICK s \in Surfaces :
        /\ native[s].by = "unmade"
        /\ surface' = [surface EXCEPT ![w] = s] /\ native' = [native EXCEPT ![s] = Untold]
  BY DEF Realize, Made
<1>2. /\ surface[w] = NoSurface
      /\ UNCHANGED <<kind, effect, hooked, card, manager, has, shown, proxies, asked>>
      /\ s # NoSurface
  BY DEF Realize, NoSurface, Surfaces
<1>3. EffectTypeOK /\ SurfacesOK /\ CachesAgree /\ AskedIsShown /\ ProxiesOutlived /\ CardTakesInput
  BY DEF EffectInv, EffectShown
<1>4. /\ card[s] = Unset /\ effect[w].proxy = NoSurface /\ effect[w].given = Unset
      /\ asked[w].by = "nobody" /\ surface'[w] = s
      /\ native'[s] = [given |-> Unset, input |-> Whole, by |-> "nobody"]
  BY <1>1, <1>2, <1>3 DEF EffectTypeOK, SurfacesOK, CachesAgree, Untold
<1>5. ASSUME NEW v \in Window, v # w
      PROVE  /\ surface'[v] = surface[v] /\ surface[v] # s
             /\ surface[v] # NoSurface => native'[surface[v]] = native[surface[v]]
  <2>1. surface[v] # s
    BY <1>1, <1>2, <1>3 DEF SurfacesOK
  <2> QED
    BY <1>1, <1>3, <1>5, <2>1 DEF SurfacesOK
<1>6. \A t \in Surfaces : t # s => native'[t] = native[t]
  BY <1>1, <1>3 DEF SurfacesOK
<1>7. \A h : Protocol(h)' = Protocol(h)
  BY <1>2 DEF Protocol
<1>8. EffectTypeOK'
  BY <1>1, <1>2, <1>3, <1>4, <1>5, <1>6 DEF EffectTypeOK
<1>9. SurfacesOK'
  <2>1. Untold \in [given : Material, input : Region \cup {Whole},
                    by : {"unmade", "nobody", "region", "plain"}]
    BY DEF Untold, Material
  <2>2. /\ surface' \in [Window -> Surfaces \cup {NoSurface}]
        /\ native' \in [Surfaces -> [given : Material, input : Region \cup {Whole},
                                     by : {"unmade", "nobody", "region", "plain"}]]
    BY <1>1, <1>3, <2>1 DEF SurfacesOK
  <2>3. \A v \in Window : surface'[v] # NoSurface => native'[surface'[v]].by # "unmade"
    BY <1>3, <1>4, <1>5 DEF SurfacesOK
  <2> QED
    BY <1>2, <1>3, <2>2, <2>3 DEF SurfacesOK
<1>10. CachesAgree'
  <2>1. \A t \in Surfaces : card'[t] # Unset /\ native'[t].by = "region" => native'[t].given = card'[t]
    BY <1>2, <1>3, <1>4, <1>6 DEF CachesAgree
  <2>2. ASSUME NEW v \in Window
        PROVE  /\ kind'[v] = "card" /\ surface'[v] # NoSurface /\ card'[surface'[v]] # Unset =>
                    native'[surface'[v]].input = card'[surface'[v]].region
               /\ effect'[v].given # Unset => shown'[surface'[v]] = Protocol(effect'[v].given)
               /\ effect'[v].proxy # NoSurface => effect'[v].proxy \in proxies'
               /\ asked'[v].by # "nobody" => surface'[v] # NoSurface
    BY <1>2, <1>3, <1>4, <1>5 DEF CachesAgree
  <2> QED
    BY <1>7, <2>1, <2>2 DEF CachesAgree
<1>11. AskedIsShown'
  <2>1. ASSUME NEW v \in Window
        PROVE  /\ asked'[v].by = "plain" => native'[surface'[v]].given = asked'[v].given
               /\ asked'[v].by = "region" =>
                     \/ native'[surface'[v]].given = asked'[v].given
                     \/ native'[surface'[v]].by = "plain"
               /\ asked'[v].by = "protocol" => shown'[surface'[v]] = Protocol(asked'[v].given)
    <3>1. asked[v].by # "nobody" => v # w /\ surface[v] # NoSurface
      BY <1>3, <1>4 DEF CachesAgree
    <3> QED
      BY <1>2, <1>3, <1>5, <3>1 DEF AskedIsShown
  <2> QED
    BY <1>7, <2>1 DEF AskedIsShown
<1>12. ProxiesOutlived'
  BY <1>2, <1>3, <1>5 DEF ProxiesOutlived, SurfacesOK, NoSurface, Surfaces
<1>13. CardTakesInput'
  BY <1>2, <1>3, <1>4, <1>5 DEF CardTakesInput, CachesAgree
<1> QED
  BY <1>8, <1>9, <1>10, <1>11, <1>12, <1>13 DEF EffectInv, EffectShown

\* A surface that goes away takes its material along, and the window its proxy.
LEMMA UnrealizeStep ==
  ASSUME EffectInv, NEW w \in Window, Unrealize(w)
  PROVE  EffectInv'
<1> DEFINE s == surface[w]
           r == handle_widget_unrealize(Widgets, w)
<1>1. EffectTypeOK /\ SurfacesOK /\ CachesAgree /\ AskedIsShown /\ ProxiesOutlived /\ CardTakesInput
  BY DEF EffectInv, EffectShown
<1>2. /\ s # NoSurface /\ s \in Surfaces
      /\ surface' = [surface EXCEPT ![w] = NoSurface]
      /\ effect' = r.effect /\ proxies' = r.proxies
      /\ card' = [card EXCEPT ![s] = Unset] /\ shown' = [shown EXCEPT ![s] = Unset]
      /\ native' = [native EXCEPT ![s] = Untold] /\ asked' = [asked EXCEPT ![w] = Unasked]
      /\ UNCHANGED <<kind, hooked, manager, has>>
  BY <1>1 DEF Unrealize, SurfacesOK
<1>3. /\ effect'[w] = NoEffect /\ \A v \in Window : v # w => effect'[v] = effect[v]
      /\ effect' \in [Window -> [proxy : Surfaces \cup {NoSurface}, given : Material]]
      /\ proxies' = proxies \ {s}
  <2>1. NoEffect \in [proxy : Surfaces \cup {NoSurface}, given : Material]
    BY DEF NoEffect, Material
  <2>2. s \in proxies => effect[w].proxy = s
    BY <1>1, <1>2 DEF ProxiesOutlived, EffectTypeOK
  <2>3. CASE w \in hooked
    <3>1. effect' = [effect EXCEPT ![w] = NoEffect] /\ proxies' = proxies \ {effect[w].proxy}
      BY <1>2, <2>3 DEF handle_widget_unrealize, Widgets
    <3>2. effect[w].proxy = s \/ effect[w].proxy \notin proxies
      BY <1>1 DEF EffectTypeOK, SurfacesOK, NoSurface, Surfaces
    <3> QED
      BY <1>1, <2>1, <2>2, <3>1, <3>2 DEF SurfacesOK
  <2>4. CASE w \notin hooked
    <3>1. effect' = effect /\ proxies' = proxies
      BY <1>2, <2>4 DEF handle_widget_unrealize, Widgets
    <3>2. effect[w].proxy = NoSurface /\ effect[w].given = Unset
      BY <1>1, <2>4 DEF EffectTypeOK
    <3>3. effect[w] = NoEffect
      BY <1>1, <3>2 DEF SurfacesOK, NoEffect
    <3> QED
      BY <1>1, <1>2, <2>2, <3>1, <3>2, <3>3 DEF SurfacesOK
  <2> QED
    BY <2>3, <2>4
<1> HIDE DEF r
<1>4. /\ card'[s] = Unset /\ native'[s].by = "nobody" /\ asked'[w] = Unasked /\ surface'[w] = NoSurface
      /\ \A t \in Surfaces : t # s =>
           card'[t] = card[t] /\ native'[t] = native[t] /\ shown'[t] = shown[t]
  BY <1>1, <1>2 DEF SurfacesOK, Untold
<1>5. ASSUME NEW v \in Window, v # w
      PROVE  /\ surface'[v] = surface[v] /\ effect'[v] = effect[v] /\ asked'[v] = asked[v]
             /\ surface[v] # s /\ surface[v] \in Surfaces \cup {NoSurface}
  BY <1>1, <1>2, <1>3, <1>5 DEF EffectTypeOK, SurfacesOK
<1>6. \A h : Protocol(h)' = Protocol(h)
  BY <1>2 DEF Protocol
<1>7. EffectTypeOK'
  <2>1. \A v \in Window :
          /\ effect'[v].proxy # NoSurface => effect'[v].proxy = surface'[v] /\ v \in hooked'
          /\ effect'[v].given # Unset => effect'[v].proxy # NoSurface
    BY <1>1, <1>2, <1>3, <1>5 DEF EffectTypeOK, NoEffect
  <2>2. \A u, v \in Window : surface'[u] = surface'[v] => u = v \/ surface'[u] = NoSurface
    BY <1>1, <1>4, <1>5 DEF EffectTypeOK
  <2>3. \A t \in Surfaces : card'[t] # Unset => native'[t].by \in {"region", "plain"}
    BY <1>1, <1>4 DEF EffectTypeOK
  <2> QED
    BY <2>1, <2>2, <2>3 DEF EffectTypeOK
<1>8. SurfacesOK'
  <2>1. /\ Untold \in [given : Material, input : Region \cup {Whole},
                       by : {"unmade", "nobody", "region", "plain"}]
        /\ Unasked \in [given : Material, by : {"nobody", "region", "plain", "protocol"}]
        /\ Unset \in Material /\ Unset \in Shown
    BY DEF Untold, Unasked, Material, Unset, Shown
  <2>2. /\ surface' \in [Window -> Surfaces \cup {NoSurface}]
        /\ card' \in [Surfaces -> Material] /\ shown' \in [Surfaces -> Shown]
        /\ native' \in [Surfaces -> [given : Material, input : Region \cup {Whole},
                                     by : {"unmade", "nobody", "region", "plain"}]]
        /\ asked' \in [Window -> [given : Material, by : {"nobody", "region", "plain", "protocol"}]]
        /\ proxies' \subseteq Surfaces
    BY <1>1, <1>2, <1>3, <2>1 DEF SurfacesOK
  <2>3. \A v \in Window : surface'[v] # NoSurface => native'[surface'[v]].by # "unmade"
    BY <1>1, <1>4, <1>5 DEF SurfacesOK
  <2> QED
    BY <1>3, <2>2, <2>3 DEF SurfacesOK
<1>9. CachesAgree'
  <2>1. \A t \in Surfaces : card'[t] # Unset /\ native'[t].by = "region" => native'[t].given = card'[t]
    BY <1>1, <1>4 DEF CachesAgree
  <2>2. ASSUME NEW v \in Window
        PROVE  /\ kind'[v] = "card" /\ surface'[v] # NoSurface /\ card'[surface'[v]] # Unset =>
                    native'[surface'[v]].input = card'[surface'[v]].region
               /\ effect'[v].given # Unset => shown'[surface'[v]] = Protocol(effect'[v].given)
               /\ effect'[v].proxy # NoSurface => effect'[v].proxy \in proxies'
               /\ asked'[v].by # "nobody" => surface'[v] # NoSurface
    <3>1. CASE v = w
      BY <1>3, <1>4, <3>1 DEF NoEffect, Unasked
    <3>2. CASE v # w
      <4>1. effect[v].given # Unset \/ effect[v].proxy # NoSurface =>
              effect[v].proxy = surface[v] /\ surface[v] # NoSurface
        BY <1>1 DEF EffectTypeOK
      <4> QED
        BY <1>1, <1>2, <1>3, <1>4, <1>5, <3>2, <4>1 DEF CachesAgree
    <3> QED
      BY <3>1, <3>2
  <2> QED
    BY <1>6, <2>1, <2>2 DEF CachesAgree
<1>10. AskedIsShown'
  <2>1. ASSUME NEW v \in Window
        PROVE  /\ asked'[v].by = "plain" => native'[surface'[v]].given = asked'[v].given
               /\ asked'[v].by = "region" =>
                     \/ native'[surface'[v]].given = asked'[v].given
                     \/ native'[surface'[v]].by = "plain"
               /\ asked'[v].by = "protocol" => shown'[surface'[v]] = Protocol(asked'[v].given)
    <3>1. CASE v = w
      BY <1>4, <3>1 DEF Unasked
    <3>2. CASE v # w
      <4>1. asked[v].by # "nobody" => surface[v] # NoSurface
        BY <1>1 DEF CachesAgree
      <4> QED
        BY <1>1, <1>4, <1>5, <3>2, <4>1 DEF AskedIsShown
    <3> QED
      BY <3>1, <3>2
  <2> QED
    BY <1>6, <2>1 DEF AskedIsShown
<1>11. ProxiesOutlived'
  <2>1. \A p \in proxies' : \E v \in Window : v # w /\ effect[v].proxy = p
    <3> SUFFICES ASSUME NEW p \in proxies'
                 PROVE  \E v \in Window : v # w /\ effect[v].proxy = p
      OBVIOUS
    <3>1. p \in proxies /\ p # s /\ p # NoSurface
      BY <1>1, <1>3 DEF SurfacesOK, NoSurface, Surfaces
    <3>2. PICK v \in Window : effect[v].proxy = p
      BY <1>1, <3>1 DEF ProxiesOutlived
    <3>3. effect[v].proxy = surface[v]
      BY <1>1, <3>1, <3>2 DEF EffectTypeOK
    <3> QED
      BY <3>1, <3>2, <3>3
  <2>2. \A p \in proxies' : \E v \in Window : v # w /\ surface[v] = p
    BY <1>1, <1>3 DEF ProxiesOutlived
  <2>3. \A p \in proxies' : \E v \in Window : effect'[v].proxy = p
    BY <1>5, <2>1
  <2>4. \A p \in proxies' : \E v \in Window : surface'[v] = p
    BY <1>5, <2>2
  <2> QED
    BY <2>3, <2>4 DEF ProxiesOutlived
<1>12. CardTakesInput'
  <2>1. ASSUME NEW v \in Window, kind'[v] = "card", asked'[v].by = "region"
        PROVE  native'[surface'[v]].input = asked'[v].given.region
    <3>1. v # w
      BY <1>4, <2>1 DEF Unasked
    <3>2. surface[v] # NoSurface
      BY <1>1, <1>5, <2>1, <3>1 DEF CachesAgree
    <3> QED
      BY <1>1, <1>2, <1>4, <1>5, <2>1, <3>1, <3>2 DEF CardTakesInput
  <2> QED
    BY <2>1 DEF CardTakesInput
<1> QED
  BY <1>7, <1>8, <1>9, <1>10, <1>11, <1>12 DEF EffectInv, EffectShown

LEMMA EffectInductive == EffectSpec => []EffectInv
<1>1. EffectInv /\ [EffectNext]_effectVars => EffectInv'
  <2> SUFFICES ASSUME EffectInv, [EffectNext]_effectVars PROVE EffectInv'
    OBVIOUS
  <2>1. CASE EffectNext
    <3>1. PICK w \in Window :
            \/ Realize(w) \/ Unrealize(w)
            \/ \E m \in Mode, x \in Region, n \in Strength :
                 Paint(w, [mode |-> m, region |-> x, strength |-> n])
      BY <2>1 DEF EffectNext
    <3>2. ASSUME NEW m \in Mode, NEW x \in Region, NEW n \in Strength,
                 Paint(w, [mode |-> m, region |-> x, strength |-> n])
          PROVE  EffectInv'
      <4>1. [mode |-> m, region |-> x, strength |-> n] \in Given
        BY DEF Given
      <4> QED
        BY <3>2, <4>1, PaintStep
    <3> QED
      BY <3>1, <3>2, RealizeStep, UnrealizeStep
  <2>2. CASE UNCHANGED effectVars
    BY <2>2 DEF effectVars, EffectInv, EffectTypeOK, SurfacesOK, CachesAgree, EffectShown,
       AskedIsShown, ProxiesOutlived, CardTakesInput, Protocol
  <2> QED
    BY <2>1, <2>2
<1> QED
  BY <1>1, EffectInvInit, PTL DEF EffectSpec

\* What surface_effect.c skips because it was asked for before is what is
\* still shown: whatever windows paint, however often their surfaces come and
\* go, the material behind a window is the last one asked for, every blur
\* object has a surface, and a card takes input where its material is.
THEOREM AskedAgrees == EffectSpec => []EffectShown
<1>1. EffectInv => EffectShown
  BY DEF EffectInv
<1> QED
  BY <1>1, EffectInductive, PTL

-----------------------------------------------------------------------------
(* The clipboard.                                                          *)

Selections == 1 .. MaxCopies
Events == [ev : {"data_offer", "selection", "primary", "finished", "send", "cancelled"}, n : Nat]

ClipboardOK ==
  /\ clip \in [open : BOOLEAN, device : BOOLEAN, own_source : Selections \cup {None},
               own_text : Content \cup {None}, send_func : Content \cup {None},
               selection : Nat, report : [n : Nat, own : BOOLEAN]]
  /\ sources \in [Selections -> [alive : BOOLEAN, says : Content \cup {None}]]
  /\ offers \subseteq Nat
  /\ board \in {Nobody, [owner |-> "other", n |-> 0]} \cup [owner : {"ours"}, n : Selections]
  /\ mail \in Seq(Events)
  /\ ~clip.open => clip = Unopened /\ offers = {} /\ mail = <<>>

Waits(ev, n) == \E i \in 1 .. Len(mail) : mail[i].ev = ev /\ mail[i].n = n

\* A source is ours for as long as it has the selection, and until it was
\* heard that it has not.
SourceOwns ==
  /\ clip.own_source # None /\ board.n # clip.own_source => Waits("cancelled", clip.own_source)
  /\ board.owner = "ours" => clip.own_source = board.n /\ board.n <= copies
  /\ \A i \in 1 .. Len(mail) :
       /\ mail[i].ev = "cancelled" => mail[i].n \in 1 .. copies /\ mail[i].n # board.n
       /\ mail[i].ev = "send" => mail[i].n # None

\* What is still to be heard ends in what is reported of the selection.
LastSelection(i) ==
  /\ mail[i].ev = "selection"
  /\ \A j \in 1 .. Len(mail) : mail[j].ev = "selection" => j <= i

Reporting ==
  clip.device =>
    /\ \A i \in 1 .. Len(mail) :
         mail[i].ev = "cancelled" => \E j \in 1 .. Len(mail) : j > i /\ mail[j].ev = "selection"
    /\ \A i \in 1 .. Len(mail) : LastSelection(i) => (mail[i].n = None) = (board = Nobody)
    /\ (\A i \in 1 .. Len(mail) : mail[i].ev # "selection") =>
         /\ (clip.report.n = None) = (board = Nobody)
         /\ clip.report.own = (board.owner = "ours")

\* An offer that was announced is followed by what is made of it.
Fate(i) == mail[i].ev \in {"selection", "primary"}

Offered ==
  /\ clip.selection \in offers \cup {None} /\ clip.selection <= copies
  /\ \A i \in 1 .. Len(mail) : Fate(i) /\ mail[i].n # None =>
       /\ clip.selection < mail[i].n /\ mail[i].n <= copies
       /\ \A j \in 1 .. i - 1 : Fate(j) => mail[j].n < mail[i].n
       /\ IF i = 1 THEN clip.device => mail[i].n \in offers
          ELSE mail[i - 1].ev = "data_offer" /\ mail[i - 1].n = mail[i].n
  /\ \A i \in 1 .. Len(mail) : mail[i].ev = "data_offer" =>
       /\ i < Len(mail) /\ Fate(i + 1) /\ mail[i + 1].n = mail[i].n /\ mail[i].n # None
  /\ clip.device => \A n \in offers :
       n = clip.selection \/ \E i \in 1 .. Len(mail) : Fate(i) /\ mail[i].n = n

SourceSays ==
  /\ clip.device /\ clip.own_source # None =>
       Content_Of(clip) \in {sources[clip.own_source].says, None}
  /\ PastedIsOffered

ClipInv == ClipTypeOK /\ ClipboardOK /\ SourceOwns /\ Reporting /\ Offered /\ SourceSays

LEMMA MailNumbers == ASSUME ClipboardOK PROVE \A i \in 1 .. Len(mail) : mail[i].n \in Nat
<1>1. \A i \in 1 .. Len(mail) : mail[i] \in Events
  BY DEF ClipboardOK
<1> QED
  BY <1>1 DEF Events

\* What is heard is first in the queue.
LEMMA MailHeard ==
  ASSUME ClipboardOK, NEW ev, Heard(ev)
  PROVE  /\ Len(mail) \in Nat \ {0} /\ Head(mail) = mail[1] /\ mail[1] \in Events /\ mail[1].ev = ev
         /\ mail' \in Seq(Events) /\ Len(mail') = Len(mail) - 1
         /\ \A i \in 1 .. Len(mail') : mail'[i] = mail[i + 1]
<1>1. mail \in Seq(Events) /\ mail # <<>> /\ Head(mail).ev = ev /\ mail' = Tail(mail)
  BY DEF ClipboardOK, Heard
<1> QED
  BY <1>1

LEMMA AddedOne ==
  ASSUME NEW S, NEW m \in Seq(S), NEW a \in S
  PROVE  /\ m \o <<a>> \in Seq(S) /\ Len(m) \in Nat /\ Len(m \o <<a>>) = Len(m) + 1
         /\ \A i \in 1 .. Len(m) : (m \o <<a>>)[i] = m[i]
         /\ (m \o <<a>>)[Len(m) + 1] = a
  OBVIOUS

LEMMA AddedTwo ==
  ASSUME NEW S, NEW m \in Seq(S), NEW a \in S, NEW b \in S
  PROVE  /\ m \o <<a, b>> \in Seq(S) /\ Len(m) \in Nat /\ Len(m \o <<a, b>>) = Len(m) + 2
         /\ \A i \in 1 .. Len(m) : (m \o <<a, b>>)[i] = m[i]
         /\ (m \o <<a, b>>)[Len(m) + 1] = a /\ (m \o <<a, b>>)[Len(m) + 2] = b
  OBVIOUS

LEMMA AddedNothing ==
  ASSUME NEW S, NEW m \in Seq(S)
  PROVE  m \o <<>> = m
  OBVIOUS

\* What the change of a selection puts at the end of the queue: that the source
\* is cancelled if it is ours, and the selection if there is a device to tell.
LEMMA SelectionTold ==
  ASSUME ClipboardOK, ClipTypeOK, NEW sel, SetSelection(sel),
         sel \in {Nobody, [owner |-> "other", n |-> 0], [owner |-> "ours", n |-> copies + 1]}
  PROVE  /\ copies' = copies + 1 /\ copies' \in 1 .. MaxCopies /\ board' = sel /\ copies \in Nat
         /\ \E queue \in Seq(Events) :
              /\ Len(mail) \in Nat
              /\ IF board.owner = "ours"
                 THEN /\ Len(queue) = Len(mail) + 1
                      /\ queue[Len(mail) + 1].ev = "cancelled" /\ queue[Len(mail) + 1].n = board.n
                 ELSE Len(queue) = Len(mail)
              /\ \A i \in 1 .. Len(mail) : queue[i] = mail[i]
              /\ \A i \in 1 .. Len(queue) : mail'[i] = queue[i]
              /\ mail' \in Seq(Events)
              /\ \/ ~clip.device /\ Len(mail') = Len(queue)
                 \/ /\ clip.device /\ sel = Nobody /\ Len(mail') = Len(queue) + 1
                    /\ mail'[Len(queue) + 1].ev = "selection" /\ mail'[Len(queue) + 1].n = None
                 \/ /\ clip.device /\ sel # Nobody /\ Len(mail') = Len(queue) + 2
                    /\ mail'[Len(queue) + 1].ev = "data_offer" /\ mail'[Len(queue) + 1].n = copies + 1
                    /\ mail'[Len(queue) + 2].ev = "selection" /\ mail'[Len(queue) + 2].n = copies + 1
<1> DEFINE old == IF board.owner = "ours" THEN <<[ev |-> "cancelled", n |-> board.n]>> ELSE <<>>
           new == IF clip.device THEN Tell(sel) ELSE <<>>
           queue == mail \o old
<1>1. /\ copies' = copies + 1 /\ copies' \in 1 .. MaxCopies /\ board' = sel
      /\ mail' = queue \o new /\ mail \in Seq(Events) /\ copies \in Nat
  BY MaxCopiesAssumption DEF SetSelection, ClipTypeOK, ClipboardOK
<1>2. /\ queue \in Seq(Events) /\ Len(mail) \in Nat
      /\ IF board.owner = "ours"
         THEN /\ Len(queue) = Len(mail) + 1
              /\ queue[Len(mail) + 1].ev = "cancelled" /\ queue[Len(mail) + 1].n = board.n
         ELSE Len(queue) = Len(mail)
      /\ \A i \in 1 .. Len(mail) : queue[i] = mail[i]
  <2> DEFINE gone == [ev |-> "cancelled", n |-> board.n]
  <2>1. gone \in Events /\ gone.ev = "cancelled" /\ gone.n = board.n
    BY DEF ClipboardOK, Events, Nobody, Selections
  <2>2. queue = IF board.owner = "ours" THEN mail \o <<gone>> ELSE mail
    BY <1>1, AddedNothing
  <2> HIDE DEF gone, queue
  <2>3. CASE board.owner = "ours"
    <3>1. queue = mail \o <<gone>>
      BY <2>2, <2>3
    <3> QED
      BY <1>1, <2>1, <2>3, <3>1, AddedOne
  <2>4. CASE board.owner # "ours"
    BY <1>1, <2>2, <2>4
  <2> QED
    BY <2>3, <2>4
<1>3. /\ \A i \in 1 .. Len(queue) : mail'[i] = queue[i]
      /\ mail' \in Seq(Events)
      /\ \/ ~clip.device /\ Len(mail') = Len(queue)
         \/ /\ clip.device /\ sel = Nobody /\ Len(mail') = Len(queue) + 1
            /\ mail'[Len(queue) + 1].ev = "selection" /\ mail'[Len(queue) + 1].n = None
         \/ /\ clip.device /\ sel # Nobody /\ Len(mail') = Len(queue) + 2
            /\ mail'[Len(queue) + 1].ev = "data_offer" /\ mail'[Len(queue) + 1].n = copies + 1
            /\ mail'[Len(queue) + 2].ev = "selection" /\ mail'[Len(queue) + 2].n = copies + 1
  <2> DEFINE nothing == [ev |-> "selection", n |-> None]
             offer == [ev |-> "data_offer", n |-> copies + 1]
             it == [ev |-> "selection", n |-> copies + 1]
  <2>1. /\ nothing \in Events /\ nothing.ev = "selection" /\ nothing.n = None
        /\ offer \in Events /\ offer.ev = "data_offer" /\ offer.n = copies + 1
        /\ it \in Events /\ it.ev = "selection" /\ it.n = copies + 1
    BY <1>1 DEF Events, None
  <2>2. new = IF clip.device THEN IF sel = Nobody THEN <<nothing>> ELSE <<offer, it>> ELSE <<>>
    BY DEF Tell
  <2> HIDE DEF nothing, offer, it, new, queue
  <2>3. CASE ~clip.device
    <3>1. mail' = queue
      BY <1>1, <1>2, <2>2, <2>3, AddedNothing
    <3> QED
      BY <1>2, <2>3, <3>1
  <2>4. CASE clip.device /\ sel = Nobody
    <3>1. mail' = queue \o <<nothing>>
      BY <1>1, <2>2, <2>4
    <3> QED
      BY <1>2, <2>1, <2>4, <3>1, AddedOne
  <2>5. CASE clip.device /\ sel # Nobody
    <3>1. mail' = queue \o <<offer, it>>
      BY <1>1, <2>2, <2>5
    <3> QED
      BY <1>2, <2>1, <2>5, <3>1, AddedTwo
  <2> QED
    BY <2>3, <2>4, <2>5
<1> HIDE DEF queue
<1> QED
  BY <1>1, <1>2, <1>3

\* What a change of the selection keeps.
LEMMA SelectionStep ==
  ASSUME ClipboardOK, ClipTypeOK, SourceOwns, Offered, NEW sel, SetSelection(sel),
         sel \in {Nobody, [owner |-> "other", n |-> 0], [owner |-> "ours", n |-> copies + 1]},
         IF sel.owner = "ours" THEN clip'.own_source = copies + 1
         ELSE clip'.own_source = clip.own_source,
         clip'.device = clip.device, clip'.selection = clip.selection, UNCHANGED offers
  PROVE  SourceOwns' /\ Reporting' /\ Offered'
<1>1. /\ copies' = copies + 1 /\ copies' \in 1 .. MaxCopies /\ board' = sel /\ copies \in Nat
  BY SelectionTold
<1>2. PICK queue \in Seq(Events) :
        /\ Len(mail) \in Nat
        /\ IF board.owner = "ours"
           THEN /\ Len(queue) = Len(mail) + 1
                /\ queue[Len(mail) + 1].ev = "cancelled" /\ queue[Len(mail) + 1].n = board.n
           ELSE Len(queue) = Len(mail)
        /\ \A i \in 1 .. Len(mail) : queue[i] = mail[i]
        /\ \A i \in 1 .. Len(queue) : mail'[i] = queue[i]
        /\ mail' \in Seq(Events)
        /\ \/ ~clip.device /\ Len(mail') = Len(queue)
           \/ /\ clip.device /\ sel = Nobody /\ Len(mail') = Len(queue) + 1
              /\ mail'[Len(queue) + 1].ev = "selection" /\ mail'[Len(queue) + 1].n = None
           \/ /\ clip.device /\ sel # Nobody /\ Len(mail') = Len(queue) + 2
              /\ mail'[Len(queue) + 1].ev = "data_offer" /\ mail'[Len(queue) + 1].n = copies + 1
              /\ mail'[Len(queue) + 2].ev = "selection" /\ mail'[Len(queue) + 2].n = copies + 1
  BY SelectionTold
<1>3. /\ clip.own_source \in Selections \cup {None} /\ clip.selection \in Nat
      /\ board.n \in Nat
  BY DEF ClipboardOK, Nobody, Selections
<1> DEFINE L == Len(mail)
           Q == Len(queue)
<1>4. /\ L \in Nat /\ Q \in Nat /\ L <= Q /\ Q <= L + 1 /\ Len(mail') \in Nat /\ Q <= Len(mail')
      /\ \A i \in 1 .. L : mail'[i] = mail[i]
      /\ Q = L + 1 => board.owner = "ours" /\ mail'[Q].ev = "cancelled" /\ mail'[Q].n = board.n
      /\ board.owner = "ours" => Q = L + 1
  BY <1>2
<1>5. \A i \in 1 .. Len(mail') : i \in 1 .. L \/ (i = Q /\ Q = L + 1) \/ i \in Q + 1 .. Len(mail')
  BY <1>4
<1>6. \A i \in Q + 1 .. Len(mail') :
        /\ clip.device
        /\ IF sel = Nobody
           THEN i = Q + 1 /\ mail'[i].ev = "selection" /\ mail'[i].n = None
           ELSE /\ mail'[i].n = copies + 1
                /\ \/ i = Q + 1 /\ i < Len(mail') /\ mail'[i].ev = "data_offer"
                   \/ i = Q + 2 /\ mail'[i].ev = "selection"
  BY <1>2, <1>4
<1>7. clip.device => Q < Len(mail') /\ mail'[Len(mail')].ev = "selection"
  BY <1>2, <1>4
<1>8. clip.device /\ sel # Nobody => /\ Len(mail') = Q + 2 /\ mail'[Q + 1].ev = "data_offer"
                                     /\ mail'[Q + 2].ev = "selection"
                                     /\ mail'[Q + 1].n = copies + 1 /\ mail'[Q + 2].n = copies + 1
  BY <1>2
<1> HIDE DEF L, Q
<1>9. SourceOwns'
  <2>1. ASSUME clip'.own_source # None, sel.n # clip'.own_source
        PROVE  \E i \in 1 .. Len(mail') : mail'[i].ev = "cancelled" /\ mail'[i].n = clip'.own_source
    <3>1. clip'.own_source = clip.own_source
      BY <2>1 DEF Nobody
    <3>2. CASE board.n = clip.own_source
      <4>1. board.owner = "ours"
        BY <2>1, <3>1, <3>2 DEF ClipboardOK, Nobody, None
      <4> QED
        BY <1>4, <3>1, <3>2, <4>1
    <3>3. CASE board.n # clip.own_source
      BY <1>4, <2>1, <3>1, <3>3 DEF SourceOwns, Waits, L
    <3> QED
      BY <3>2, <3>3
  <2>2. sel.owner = "ours" => clip'.own_source = sel.n /\ sel.n <= copies'
    BY <1>1 DEF Nobody
  <2>3. sel.n = copies + 1 \/ sel.n = 0
    BY DEF Nobody
  <2>4. ASSUME NEW i \in 1 .. Len(mail')
        PROVE  /\ mail'[i].ev = "cancelled" => mail'[i].n \in 1 .. copies' /\ mail'[i].n # sel.n
               /\ mail'[i].ev = "send" => mail'[i].n # None
    <3>1. CASE i \in 1 .. L
      BY <1>1, <1>4, <2>3, <3>1 DEF SourceOwns, L
    <3>2. CASE i = Q /\ Q = L + 1
      <4>1. board.n \in 1 .. copies
        BY <1>4, <3>2 DEF SourceOwns, ClipboardOK, Selections, Nobody
      <4> QED
        BY <1>1, <1>4, <2>3, <3>2, <4>1
    <3>3. CASE i \in Q + 1 .. Len(mail')
      BY <1>6, <3>3
    <3> QED
      BY <1>5, <3>1, <3>2, <3>3
  <2> QED
    BY <1>1, <2>1, <2>2, <2>4 DEF SourceOwns, Waits
<1>10. Reporting'
  <2>1. SUFFICES ASSUME clip'.device
                 PROVE  /\ \A i \in 1 .. Len(mail') :
                             mail'[i].ev = "cancelled" =>
                               \E j \in 1 .. Len(mail') : j > i /\ mail'[j].ev = "selection"
                        /\ \A i \in 1 .. Len(mail') :
                             LastSelection(i)' => (mail'[i].n = None) = (sel = Nobody)
                        /\ ~\A i \in 1 .. Len(mail') : mail'[i].ev # "selection"
    BY <1>1 DEF Reporting
  <2>2. Len(mail') \in 1 .. Len(mail') /\ mail'[Len(mail')].ev = "selection" /\ Q < Len(mail')
    BY <1>4, <1>7, <2>1
  <2>3. ASSUME NEW i \in 1 .. Len(mail'), mail'[i].ev = "cancelled" PROVE i < Len(mail')
    BY <1>4, <2>2, <2>3
  <2>4. ASSUME NEW i \in 1 .. Len(mail'), LastSelection(i)'
        PROVE  (mail'[i].n = None) = (sel = Nobody)
    <3>1. i = Len(mail')
      BY <1>4, <2>2, <2>4 DEF LastSelection
    <3> QED
      BY <1>1, <1>4, <1>6, <2>2, <3>1 DEF None
  <2> QED
    BY <2>2, <2>3, <2>4
<1>11. Offered'
  <2>1. clip'.selection \in offers' \cup {None} /\ clip'.selection <= copies'
    BY <1>1, <1>3 DEF Offered
  <2>2. ASSUME NEW i \in 1 .. Len(mail'), Fate(i)', mail'[i].n # None
        PROVE  /\ clip'.selection < mail'[i].n /\ mail'[i].n <= copies'
               /\ \A j \in 1 .. i - 1 : Fate(j)' => mail'[j].n < mail'[i].n
               /\ IF i = 1 THEN clip'.device => mail'[i].n \in offers'
                  ELSE mail'[i - 1].ev = "data_offer" /\ mail'[i - 1].n = mail'[i].n
    <3>1. CASE i \in 1 .. L
      <4>1. Fate(i) /\ mail[i].n # None /\ mail'[i] = mail[i]
        BY <1>4, <2>2, <3>1 DEF Fate
      <4>2. mail[i].n \in Nat
        BY <3>1, MailNumbers DEF L
      <4>3. \A j \in 1 .. i - 1 : j \in 1 .. L /\ mail'[j] = mail[j]
        BY <1>4, <3>1
      <4>4. \A j \in 1 .. i - 1 : Fate(j)' => mail'[j].n < mail'[i].n
        BY <3>1, <4>1, <4>3 DEF Offered, Fate, L
      <4>5. clip'.selection < mail'[i].n /\ mail'[i].n <= copies'
        BY <1>1, <1>3, <3>1, <4>1, <4>2 DEF Offered, L
      <4>6. IF i = 1 THEN clip'.device => mail'[i].n \in offers'
            ELSE mail'[i - 1].ev = "data_offer" /\ mail'[i - 1].n = mail'[i].n
        BY <1>4, <3>1, <4>1, <4>3 DEF Offered, L
      <4> QED
        BY <4>4, <4>5, <4>6
    <3>2. CASE i \in Q + 1 .. Len(mail')
      <4>1. /\ i = Q + 2 /\ mail'[i].n = copies + 1 /\ sel # Nobody /\ clip.device
        BY <1>6, <2>2, <3>2 DEF Fate
      <4>2. \A j \in 1 .. i - 1 : Fate(j)' => mail'[j].n < copies + 1
        <5>1. ASSUME NEW j \in 1 .. i - 1, Fate(j)' PROVE mail'[j].n < copies + 1
          <6>1. j \in 1 .. L
            BY <1>4, <1>5, <1>8, <4>1, <5>1 DEF Fate
          <6>2. Fate(j) /\ mail'[j] = mail[j] /\ mail[j].n \in Nat
            BY <1>4, <5>1, <6>1, MailNumbers DEF Fate, L
          <6> QED
            BY <1>1, <6>1, <6>2 DEF Offered, L, None
        <5> QED
          BY <5>1
      <4>3. clip.selection <= copies /\ i # 1 /\ i - 1 = Q + 1
        BY <1>4, <4>1 DEF Offered
      <4> QED
        BY <1>1, <1>3, <1>8, <4>1, <4>2, <4>3
    <3> QED
      BY <1>4, <1>5, <2>2, <3>1, <3>2 DEF Fate
  <2>3. ASSUME NEW i \in 1 .. Len(mail'), mail'[i].ev = "data_offer"
        PROVE  i < Len(mail') /\ Fate(i + 1)' /\ mail'[i + 1].n = mail'[i].n /\ mail'[i].n # None
    <3>1. CASE i \in 1 .. L
      <4>1. mail[i].ev = "data_offer" /\ mail'[i] = mail[i]
        BY <1>4, <2>3, <3>1
      <4>2. i < L /\ Fate(i + 1) /\ mail[i + 1].n = mail[i].n /\ mail[i].n # None
        BY <3>1, <4>1 DEF Offered, L
      <4>3. i + 1 \in 1 .. L
        BY <1>4, <3>1, <4>2
      <4> QED
        BY <1>4, <4>1, <4>2, <4>3 DEF Fate
    <3>2. CASE i \in Q + 1 .. Len(mail')
      BY <1>1, <1>4, <1>6, <1>8, <2>3, <3>2 DEF Fate, None
    <3> QED
      BY <1>4, <1>5, <2>3, <3>1, <3>2
  <2>4. ASSUME clip'.device, NEW n \in offers'
        PROVE  n = clip'.selection \/ \E i \in 1 .. Len(mail') : Fate(i)' /\ mail'[i].n = n
    <3>1. n = clip.selection \/ \E i \in 1 .. L : Fate(i) /\ mail[i].n = n
      BY <2>4 DEF Offered, L
    <3>2. \A i \in 1 .. L : i \in 1 .. Len(mail') /\ mail'[i] = mail[i]
      BY <1>4
    <3> QED
      BY <3>1, <3>2 DEF Fate
  <2> QED
    BY <2>1, <2>2, <2>3, <2>4 DEF Offered
<1> QED
  BY <1>9, <1>10, <1>11

\* What the other events put at the end of the queue keeps.
LEMMA OtherMail ==
  ASSUME ClipboardOK, ClipTypeOK, SourceOwns, Reporting, Offered,
         UNCHANGED <<clip, offers, board>>, mail' \in Seq(Events),
         \A i \in 1 .. Len(mail) : mail'[i] = mail[i],
         \/ /\ copies' = copies /\ Len(mail') = Len(mail) + 1
            /\ mail'[Len(mail) + 1].ev \in {"send", "finished"}
            /\ mail'[Len(mail) + 1].ev = "send" => mail'[Len(mail) + 1].n # None
         \/ /\ copies' = copies + 1 /\ Len(mail') = Len(mail) + 2
            /\ mail'[Len(mail) + 1].ev = "data_offer" /\ mail'[Len(mail) + 1].n = copies + 1
            /\ mail'[Len(mail) + 2].ev = "primary" /\ mail'[Len(mail) + 2].n = copies + 1
  PROVE  SourceOwns' /\ Reporting' /\ Offered'
<1> DEFINE L == Len(mail)
<1>1. /\ L \in Nat /\ copies \in Nat /\ copies' \in Nat /\ copies <= copies' /\ Len(mail') \in Nat
      /\ L < Len(mail')
  BY MaxCopiesAssumption DEF ClipboardOK, ClipTypeOK
<1>2. \A i \in L + 1 .. Len(mail') :
        \/ mail'[i].ev \in {"send", "finished"} /\ (mail'[i].ev = "send" => mail'[i].n # None)
        \/ /\ mail'[i].n = copies + 1 /\ copies' = copies + 1 /\ Len(mail') = L + 2
           /\ \/ i = L + 1 /\ mail'[i].ev = "data_offer"
              \/ i = L + 2 /\ mail'[i].ev = "primary"
  BY <1>1
<1>3. Len(mail') = L + 2 => /\ mail'[L + 1].ev = "data_offer" /\ mail'[L + 1].n = copies + 1
                            /\ mail'[L + 2].ev = "primary" /\ mail'[L + 2].n = copies + 1
  BY <1>1
<1>4. \A i \in 1 .. L : i \in 1 .. Len(mail') /\ mail'[i] = mail[i] /\ mail[i].n \in Nat
  BY <1>1, MailNumbers
<1>5. \A i \in 1 .. Len(mail') : i \in 1 .. L \/ i \in L + 1 .. Len(mail')
  BY <1>1
<1>6. UNCHANGED clip /\ UNCHANGED offers /\ UNCHANGED board
  OBVIOUS
<1> HIDE DEF L
<1>7. SourceOwns'
  <2>1. ASSUME clip.own_source # None, board.n # clip.own_source
        PROVE  \E i \in 1 .. Len(mail') : mail'[i].ev = "cancelled" /\ mail'[i].n = clip.own_source
    BY <1>4, <2>1 DEF SourceOwns, Waits, L
  <2>2. board.owner = "ours" => clip.own_source = board.n /\ board.n <= copies'
    BY <1>1 DEF SourceOwns, ClipboardOK, Selections, Nobody
  <2>3. ASSUME NEW i \in 1 .. Len(mail')
        PROVE  /\ mail'[i].ev = "cancelled" => mail'[i].n \in 1 .. copies' /\ mail'[i].n # board.n
               /\ mail'[i].ev = "send" => mail'[i].n # None
    <3>1. CASE i \in 1 .. L
      BY <1>1, <1>4, <3>1 DEF SourceOwns, L
    <3>2. CASE i \in L + 1 .. Len(mail')
      BY <1>2, <3>2
    <3> QED
      BY <1>5, <3>1, <3>2
  <2> QED
    BY <1>6, <2>1, <2>2, <2>3 DEF SourceOwns, Waits
<1>8. Reporting'
  <2>1. \A i \in 1 .. Len(mail') : mail'[i].ev \in {"selection", "cancelled"} => i \in 1 .. L
    BY <1>2, <1>5
  <2>2. ASSUME NEW i \in 1 .. Len(mail'), LastSelection(i)' PROVE i \in 1 .. L /\ LastSelection(i)
    BY <1>4, <2>1, <2>2 DEF LastSelection, L
  <2>3. (\A i \in 1 .. Len(mail') : mail'[i].ev # "selection") =>
          \A i \in 1 .. Len(mail) : mail[i].ev # "selection"
    BY <1>4 DEF L
  <2>4. ASSUME clip.device, NEW i \in 1 .. Len(mail'), mail'[i].ev = "cancelled"
        PROVE  \E j \in 1 .. Len(mail') : j > i /\ mail'[j].ev = "selection"
    BY <1>4, <2>1, <2>4 DEF Reporting, L
  <2>5. ASSUME clip.device, NEW i \in 1 .. Len(mail'), LastSelection(i)'
        PROVE  (mail'[i].n = None) = (board = Nobody)
    BY <1>4, <2>2, <2>5 DEF Reporting, L
  <2> QED
    BY <1>6, <2>3, <2>4, <2>5 DEF Reporting
<1>9. Offered'
  <2>1. clip.selection \in offers \cup {None} /\ clip.selection <= copies' /\ clip.selection \in Nat
    BY <1>1 DEF Offered, ClipboardOK
  <2>2. ASSUME NEW i \in 1 .. Len(mail'), Fate(i)', mail'[i].n # None
        PROVE  /\ clip.selection < mail'[i].n /\ mail'[i].n <= copies'
               /\ \A j \in 1 .. i - 1 : Fate(j)' => mail'[j].n < mail'[i].n
               /\ IF i = 1 THEN clip.device => mail'[i].n \in offers
                  ELSE mail'[i - 1].ev = "data_offer" /\ mail'[i - 1].n = mail'[i].n
    <3>1. CASE i \in 1 .. L
      <4>1. Fate(i) /\ mail[i].n # None /\ mail'[i] = mail[i] /\ mail[i].n \in Nat
        BY <1>4, <2>2, <3>1 DEF Fate
      <4>2. \A j \in 1 .. i - 1 : j \in 1 .. L /\ mail'[j] = mail[j]
        BY <1>1, <1>4, <3>1
      <4>3. \A j \in 1 .. i - 1 : Fate(j)' => mail'[j].n < mail'[i].n
        BY <3>1, <4>1, <4>2 DEF Offered, Fate, L
      <4>4. clip.selection < mail'[i].n /\ mail'[i].n <= copies'
        BY <1>1, <2>1, <3>1, <4>1 DEF Offered, L
      <4>5. IF i = 1 THEN clip.device => mail'[i].n \in offers
            ELSE mail'[i - 1].ev = "data_offer" /\ mail'[i - 1].n = mail'[i].n
        BY <1>1, <3>1, <4>1, <4>2 DEF Offered, L
      <4> QED
        BY <4>3, <4>4, <4>5
    <3>2. CASE i \in L + 1 .. Len(mail')
      <4>1. i = L + 2 /\ mail'[i].n = copies + 1 /\ copies' = copies + 1 /\ Len(mail') = L + 2
        BY <1>2, <2>2, <3>2 DEF Fate
      <4>2. ASSUME NEW j \in 1 .. i - 1, Fate(j)' PROVE mail'[j].n < copies + 1
        <5>1. j \in 1 .. L
          BY <1>1, <1>3, <4>1, <4>2 DEF Fate
        <5> QED
          BY <1>1, <1>4, <4>2, <5>1 DEF Offered, Fate, L, None
      <4>3. i # 1 /\ i - 1 = L + 1 /\ clip.selection <= copies
        BY <1>1, <4>1 DEF Offered
      <4> QED
        BY <1>1, <1>3, <2>1, <4>1, <4>2, <4>3
    <3> QED
      BY <1>5, <3>1, <3>2
  <2>3. ASSUME NEW i \in 1 .. Len(mail'), mail'[i].ev = "data_offer"
        PROVE  i < Len(mail') /\ Fate(i + 1)' /\ mail'[i + 1].n = mail'[i].n /\ mail'[i].n # None
    <3>1. CASE i \in 1 .. L
      <4>1. mail[i].ev = "data_offer" /\ mail'[i] = mail[i]
        BY <1>4, <2>3, <3>1
      <4>2. i < L /\ Fate(i + 1) /\ mail[i + 1].n = mail[i].n /\ mail[i].n # None
        BY <3>1, <4>1 DEF Offered, L
      <4>3. i + 1 \in 1 .. L
        BY <1>1, <3>1, <4>2
      <4> QED
        BY <1>1, <1>4, <4>1, <4>2, <4>3 DEF Fate
    <3>2. CASE i \in L + 1 .. Len(mail')
      BY <1>1, <1>2, <1>3, <2>3, <3>2 DEF Fate, None
    <3> QED
      BY <1>5, <3>1, <3>2
  <2>4. ASSUME clip.device, NEW n \in offers
        PROVE  n = clip.selection \/ \E i \in 1 .. Len(mail') : Fate(i)' /\ mail'[i].n = n
    <3>1. n = clip.selection \/ \E i \in 1 .. L : Fate(i) /\ mail[i].n = n
      BY <2>4 DEF Offered, L
    <3> QED
      BY <1>4, <3>1 DEF Fate
  <2> QED
    BY <1>6, <2>1, <2>2, <2>3, <2>4 DEF Offered
<1> QED
  BY <1>7, <1>8, <1>9

\* What is heard of a source leaves it ours until it was cancelled.
LEMMA HeardSourceOwns ==
  ASSUME ClipboardOK, ClipTypeOK, SourceOwns, NEW ev, Heard(ev), UNCHANGED <<board, copies>>,
         IF ev = "cancelled" /\ mail[1].n = clip.own_source THEN clip'.own_source = None
         ELSE clip'.own_source = clip.own_source
  PROVE  SourceOwns'
<1>1. /\ Len(mail) \in Nat \ {0} /\ mail[1].ev = ev /\ Len(mail') = Len(mail) - 1
      /\ \A i \in 1 .. Len(mail') : mail'[i] = mail[i + 1] /\ i + 1 \in 1 .. Len(mail)
  BY MailHeard
<1>2. UNCHANGED board /\ UNCHANGED copies
  OBVIOUS
<1>3. ASSUME clip'.own_source # None, board.n # clip'.own_source
      PROVE  \E i \in 1 .. Len(mail') : mail'[i].ev = "cancelled" /\ mail'[i].n = clip'.own_source
  <2>1. clip'.own_source = clip.own_source
    BY <1>3
  <2>2. PICK i \in 1 .. Len(mail) : mail[i].ev = "cancelled" /\ mail[i].n = clip.own_source
    BY <1>3, <2>1 DEF SourceOwns, Waits
  <2>3. i # 1
    BY <1>1, <1>3, <2>1, <2>2
  <2>4. i - 1 \in 1 .. Len(mail') /\ mail'[i - 1] = mail[i]
    BY <1>1, <2>3
  <2> QED
    BY <2>1, <2>2, <2>4
<1>4. board.owner = "ours" => clip'.own_source = board.n /\ board.n <= copies
  <2>1. 1 \in 1 .. Len(mail)
    BY <1>1
  <2> QED
    BY <1>1, <2>1 DEF SourceOwns
<1>5. \A i \in 1 .. Len(mail') :
       /\ mail'[i].ev = "cancelled" => mail'[i].n \in 1 .. copies /\ mail'[i].n # board.n
       /\ mail'[i].ev = "send" => mail'[i].n # None
  BY <1>1 DEF SourceOwns
<1> QED
  BY <1>2, <1>3, <1>4, <1>5 DEF SourceOwns, Waits

\* What is reported once the last change of the selection is heard.
LEMMA HeardReporting ==
  ASSUME ClipboardOK, ClipTypeOK, SourceOwns, Reporting, NEW ev, Heard(ev), UNCHANGED board,
         clip'.device => clip.device,
         clip'.device => clip'.report = IF ev = "selection"
                                        THEN [n |-> mail[1].n, own |-> clip.own_source # None]
                                        ELSE clip.report
  PROVE  Reporting'
<1>1. /\ Len(mail) \in Nat \ {0} /\ mail[1].ev = ev /\ Len(mail') = Len(mail) - 1
      /\ \A i \in 1 .. Len(mail') : mail'[i] = mail[i + 1] /\ i + 1 \in 1 .. Len(mail)
      /\ 1 \in 1 .. Len(mail)
  BY MailHeard
<1>2. \A i \in 1 .. Len(mail) : i = 1 \/ (i - 1 \in 1 .. Len(mail') /\ mail'[i - 1] = mail[i])
  BY <1>1
<1>3. SUFFICES ASSUME clip'.device
               PROVE  /\ \A i \in 1 .. Len(mail') :
                           mail'[i].ev = "cancelled" =>
                             \E j \in 1 .. Len(mail') : j > i /\ mail'[j].ev = "selection"
                      /\ \A i \in 1 .. Len(mail') :
                           LastSelection(i)' => (mail'[i].n = None) = (board = Nobody)
                      /\ (\A i \in 1 .. Len(mail') : mail'[i].ev # "selection") =>
                           /\ (clip'.report.n = None) = (board = Nobody)
                           /\ clip'.report.own = (board.owner = "ours")
  BY DEF Reporting
<1>4. clip.device
  BY <1>3
<1>5. ASSUME NEW i \in 1 .. Len(mail'), mail'[i].ev = "cancelled"
      PROVE  \E j \in 1 .. Len(mail') : j > i /\ mail'[j].ev = "selection"
  <2>1. PICK j \in 1 .. Len(mail) : j > i + 1 /\ mail[j].ev = "selection"
    BY <1>1, <1>4, <1>5 DEF Reporting
  <2>2. j - 1 \in 1 .. Len(mail') /\ mail'[j - 1] = mail[j] /\ j - 1 > i
    BY <1>1, <1>2, <2>1
  <2> QED
    BY <2>1, <2>2
<1>6. ASSUME NEW i \in 1 .. Len(mail'), LastSelection(i)'
      PROVE  (mail'[i].n = None) = (board = Nobody)
  <2>1. mail[i + 1].ev = "selection"
    BY <1>1, <1>6 DEF LastSelection
  <2>2. ASSUME NEW j \in 1 .. Len(mail), mail[j].ev = "selection" PROVE j <= i + 1
    BY <1>1, <1>2, <1>6, <2>2 DEF LastSelection
  <2> QED
    BY <1>1, <1>4, <2>1, <2>2 DEF Reporting, LastSelection
<1>7. ASSUME \A i \in 1 .. Len(mail') : mail'[i].ev # "selection"
      PROVE  /\ (clip'.report.n = None) = (board = Nobody)
             /\ clip'.report.own = (board.owner = "ours")
  <2>1. \A i \in 1 .. Len(mail) : mail[i].ev = "selection" => i = 1
    BY <1>2, <1>7
  <2>2. CASE ev = "selection"
    <3>1. (mail[1].n = None) = (board = Nobody)
      BY <1>1, <1>4, <2>1, <2>2 DEF Reporting, LastSelection
    <3>2. \A i \in 1 .. Len(mail) : mail[i].ev # "cancelled"
      <4>1. ASSUME NEW i \in 1 .. Len(mail), mail[i].ev = "cancelled" PROVE FALSE
        <5>1. PICK j \in 1 .. Len(mail) : j > i /\ mail[j].ev = "selection"
          BY <1>4, <4>1 DEF Reporting
        <5> QED
          BY <2>1, <5>1
      <4> QED
        BY <4>1
    <3>3. clip.own_source # None => board.n = clip.own_source
      BY <3>2 DEF SourceOwns, Waits
    <3>4. (clip.own_source # None) = (board.owner = "ours")
      BY <3>3 DEF SourceOwns, ClipboardOK, Nobody, None, Selections
    <3> QED
      BY <1>3, <2>2, <3>1, <3>4
  <2>3. CASE ev # "selection"
    <3>1. \A i \in 1 .. Len(mail) : mail[i].ev # "selection"
      BY <1>1, <2>1, <2>3
    <3> QED
      BY <1>3, <1>4, <2>3, <3>1 DEF Reporting
  <2> QED
    BY <2>2, <2>3
<1> QED
  BY <1>5, <1>6, <1>7

\* What an event does to the offers.
HeardOffers(ev) ==
  CASE ev = "data_offer" ->
         /\ clip'.selection = clip.selection
         /\ offers' = IF clip.device THEN offers \cup {mail[1].n} ELSE offers
    [] ev = "selection" ->
         IF clip.device THEN clip'.selection = mail[1].n /\ offers' = offers \ {clip.selection}
         ELSE clip'.selection = clip.selection /\ offers' = offers
    [] ev = "primary" -> clip'.selection = clip.selection /\ offers' = offers \ {mail[1].n}
    [] OTHER -> clip'.selection = clip.selection /\ offers' = offers

LEMMA HeardOffered ==
  ASSUME ClipboardOK, ClipTypeOK, Offered, NEW ev, Heard(ev), UNCHANGED copies,
         clip'.device => clip.device, HeardOffers(ev)
  PROVE  Offered'
<1>1. /\ Len(mail) \in Nat \ {0} /\ mail[1].ev = ev /\ Len(mail') = Len(mail) - 1
      /\ \A i \in 1 .. Len(mail') :
           mail'[i] = mail[i + 1] /\ i + 1 \in 1 .. Len(mail) /\ (i # 1 => mail'[i - 1] = mail[i])
      /\ 1 \in 1 .. Len(mail) /\ mail[1].n \in Nat
  <2>1. /\ Len(mail) \in Nat \ {0} /\ mail[1].ev = ev /\ Len(mail') = Len(mail) - 1
        /\ \A i \in 1 .. Len(mail') : mail'[i] = mail[i + 1]
    BY MailHeard
  <2>2. 1 \in 1 .. Len(mail) /\ mail[1].n \in Nat
    BY <2>1, MailNumbers
  <2>3. ASSUME NEW i \in 1 .. Len(mail')
        PROVE  i + 1 \in 1 .. Len(mail) /\ (i # 1 => mail'[i - 1] = mail[i])
    <3>1. i + 1 \in 1 .. Len(mail)
      BY <2>1
    <3>2. i # 1 => i - 1 \in 1 .. Len(mail') /\ (i - 1) + 1 = i
      BY <2>1
    <3> QED
      BY <2>1, <3>1, <3>2
  <2> QED
    BY <2>1, <2>2, <2>3
<1>2. \A i \in 1 .. Len(mail) : i = 1 \/ (i - 1 \in 1 .. Len(mail') /\ mail'[i - 1] = mail[i])
  BY <1>1
<1>3. clip.selection \in Nat /\ copies \in Nat /\ copies' = copies
  BY MaxCopiesAssumption DEF ClipboardOK, ClipTypeOK
<1>4. \/ /\ clip'.selection = clip.selection /\ offers \subseteq offers'
         /\ ev = "data_offer" /\ clip.device => mail[1].n \in offers'
      \/ /\ ev = "selection" /\ clip.device /\ clip'.selection = mail[1].n
         /\ offers' = offers \ {clip.selection}
      \/ /\ ev = "primary" /\ clip'.selection = clip.selection /\ offers' = offers \ {mail[1].n}
  BY DEF HeardOffers
<1>5. /\ mail[1].n # None /\ Fate(1) => clip.selection < mail[1].n /\ mail[1].n <= copies
      /\ mail[1].n # None /\ Fate(1) /\ clip.device => mail[1].n \in offers
  BY <1>1 DEF Offered
<1>6. clip'.selection \in offers' \cup {None} /\ clip'.selection <= copies
  <2>1. clip.selection \in offers \cup {None} /\ clip.selection <= copies
    BY DEF Offered
  <2>2. CASE ev = "selection" /\ clip.device /\ clip'.selection = mail[1].n
             /\ offers' = offers \ {clip.selection}
    <3>1. Fate(1)
      BY <1>1, <2>2 DEF Fate
    <3> QED
      BY <1>1, <1>3, <1>5, <2>2, <3>1 DEF None
  <2>3. CASE ev = "primary" /\ clip'.selection = clip.selection /\ offers' = offers \ {mail[1].n}
    <3>1. Fate(1)
      BY <1>1, <2>3 DEF Fate
    <3> QED
      BY <1>1, <1>3, <1>5, <2>1, <2>3, <3>1 DEF None
  <2> QED
    BY <1>4, <2>1, <2>2, <2>3
<1>7. ASSUME NEW i \in 1 .. Len(mail'), Fate(i)', mail'[i].n # None
      PROVE  /\ clip'.selection < mail'[i].n /\ mail'[i].n <= copies
             /\ \A j \in 1 .. i - 1 : Fate(j)' => mail'[j].n < mail'[i].n
             /\ IF i = 1 THEN clip'.device => mail'[i].n \in offers'
                ELSE mail'[i - 1].ev = "data_offer" /\ mail'[i - 1].n = mail'[i].n
  <2>1. Fate(i + 1) /\ mail[i + 1].n # None /\ mail'[i] = mail[i + 1] /\ i + 1 \in 1 .. Len(mail) /\ i + 1 # 1
    BY <1>1, <1>7 DEF Fate
  <2>2. /\ clip.selection < mail[i + 1].n /\ mail[i + 1].n <= copies
        /\ \A j \in 1 .. i : Fate(j) => mail[j].n < mail[i + 1].n
        /\ mail[i].ev = "data_offer" /\ mail[i].n = mail[i + 1].n
    BY <1>1, <2>1 DEF Offered
  <2>3. clip'.selection < mail'[i].n
    <3>1. CASE clip'.selection = clip.selection
      BY <2>1, <2>2, <3>1
    <3>2. CASE ev = "selection" /\ clip'.selection = mail[1].n
      <4>1. 1 \in 1 .. i /\ Fate(1)
        BY <1>1, <3>2 DEF Fate
      <4> QED
        BY <2>1, <2>2, <3>2, <4>1
    <3> QED
      BY <1>4, <3>1, <3>2
  <2>4. \A j \in 1 .. i - 1 : Fate(j)' => mail'[j].n < mail'[i].n
    <3>1. ASSUME NEW j \in 1 .. i - 1, Fate(j)' PROVE mail'[j].n < mail'[i].n
      <4>1. j \in 1 .. Len(mail') /\ j + 1 \in 1 .. i
        BY <1>1, <3>1
      <4>2. mail'[j] = mail[j + 1] /\ Fate(j + 1)
        BY <1>1, <3>1, <4>1 DEF Fate
      <4> QED
        BY <2>1, <2>2, <4>1, <4>2
    <3> QED
      BY <3>1
  <2>5. IF i = 1 THEN clip'.device => mail'[i].n \in offers'
        ELSE mail'[i - 1].ev = "data_offer" /\ mail'[i - 1].n = mail'[i].n
    <3>1. CASE i = 1
      BY <1>1, <1>4, <2>1, <2>2, <3>1
    <3>2. CASE i # 1
      BY <1>1, <2>1, <2>2, <3>2
    <3> QED
      BY <3>1, <3>2
  <2> QED
    BY <2>1, <2>2, <2>3, <2>4, <2>5
<1>8. ASSUME NEW i \in 1 .. Len(mail'), mail'[i].ev = "data_offer"
      PROVE  i < Len(mail') /\ Fate(i + 1)' /\ mail'[i + 1].n = mail'[i].n /\ mail'[i].n # None
  <2>1. /\ i + 1 < Len(mail) /\ Fate(i + 2) /\ mail[i + 2].n = mail[i + 1].n /\ mail[i + 1].n # None
    <3>1. i + 1 \in 1 .. Len(mail) /\ mail[i + 1].ev = "data_offer" /\ (i + 1) + 1 = i + 2
      BY <1>1, <1>8
    <3> QED
      BY <3>1 DEF Offered
  <2>2. i + 1 \in 1 .. Len(mail') /\ mail'[i + 1] = mail[i + 2]
    <3>1. i + 1 \in 1 .. Len(mail') /\ (i + 1) + 1 = i + 2
      BY <1>1, <2>1
    <3> QED
      BY <1>1, <3>1
  <2> QED
    BY <1>1, <2>1, <2>2 DEF Fate
<1>9. ASSUME clip'.device, NEW n \in offers'
      PROVE  n = clip'.selection \/ \E i \in 1 .. Len(mail') : Fate(i)' /\ mail'[i].n = n
  <2>1. ASSUME NEW i \in 1 .. Len(mail), i # 1, Fate(i), mail[i].n = n
        PROVE  \E k \in 1 .. Len(mail') : Fate(k)' /\ mail'[k].n = n
    BY <1>2, <2>1 DEF Fate
  <2>2. n \in offers => n = clip.selection \/ \E i \in 1 .. Len(mail) : Fate(i) /\ mail[i].n = n
    BY <1>9 DEF Offered
  <2>3. CASE ev = "data_offer"
    <3>1. ~Fate(1) /\ 2 \in 1 .. Len(mail) /\ 2 # 1 /\ Fate(2) /\ mail[2].n = mail[1].n
      <4>1. 1 < Len(mail) /\ Fate(1 + 1) /\ mail[1 + 1].n = mail[1].n
        BY <1>1, <2>3 DEF Offered
      <4> QED
        BY <1>1, <2>3, <4>1 DEF Fate
    <3>2. clip'.selection = clip.selection /\ (n = mail[1].n \/ n \in offers)
      BY <1>9, <2>3 DEF HeardOffers
    <3> QED
      BY <2>1, <2>2, <3>1, <3>2
  <2>4. CASE ev = "selection"
    <3>1. clip'.selection = mail[1].n /\ n \in offers /\ n # clip.selection
      BY <1>9, <2>4 DEF HeardOffers
    <3> QED
      BY <2>1, <2>2, <3>1
  <2>5. CASE ev = "primary"
    <3>1. clip'.selection = clip.selection /\ n \in offers /\ n # mail[1].n
      BY <1>9, <2>5 DEF HeardOffers
    <3> QED
      BY <2>1, <2>2, <3>1
  <2>6. CASE ev \notin {"data_offer", "selection", "primary"}
    <3>1. clip'.selection = clip.selection /\ n \in offers /\ ~Fate(1)
      BY <1>1, <1>9, <2>6 DEF HeardOffers, Fate
    <3> QED
      BY <2>1, <2>2, <3>1
  <2> QED
    BY <2>3, <2>4, <2>5, <2>6
<1> QED
  BY <1>3, <1>6, <1>7, <1>8, <1>9 DEF Offered

LEMMA ClipInvInit == ClipInit => ClipInv
<1> SUFFICES ASSUME ClipInit PROVE ClipInv
  OBVIOUS
<1>1. /\ clip = Unopened /\ sources = [n \in Selections |-> [alive |-> FALSE, says |-> None]]
      /\ offers = {} /\ mail = <<>> /\ copies = 0 /\ served = NothingServed
      /\ board \in {Nobody, [owner |-> "other", n |-> 0]}
  BY DEF ClipInit, Selections
<1>2. /\ mail \in Seq(Events) /\ Len(mail) = 0 /\ \A i \in 1 .. Len(mail) : FALSE
      /\ board.owner # "ours"
  BY <1>1 DEF Nobody
<1>3. ClipTypeOK
  BY <1>1, MaxCopiesAssumption DEF ClipTypeOK, Unopened
<1>4. ClipboardOK
  BY <1>1, <1>2 DEF ClipboardOK, Unopened, None
<1>5. SourceOwns
  BY <1>1, <1>2 DEF SourceOwns, Unopened
<1>6. Reporting
  BY <1>1 DEF Reporting, Unopened
<1>7. Offered
  BY <1>1, <1>2 DEF Offered, Unopened, None
<1>8. SourceSays
  BY <1>1 DEF SourceSays, PastedIsOffered, Unopened
<1> QED
  BY <1>3, <1>4, <1>5, <1>6, <1>7, <1>8 DEF ClipInv

\* While the display is not open nothing of ours is left.
LEMMA Closed ==
  ASSUME ClipInv, ~clip.open
  PROVE  clip = Unopened /\ offers = {} /\ mail = <<>> /\ board.owner # "ours" /\ ~clip.device
<1>1. clip = Unopened /\ offers = {} /\ mail = <<>>
  BY DEF ClipInv, ClipboardOK
<1>2. board.owner # "ours"
  BY <1>1 DEF ClipInv, ClipboardOK, SourceOwns, Unopened, Nobody, Selections, None
<1> QED
  BY <1>1, <1>2 DEF Unopened

LEMMA OpenStep == ClipInv /\ OpenDisplay => ClipInv'
<1> SUFFICES ASSUME ClipInv, OpenDisplay PROVE ClipInv'
  OBVIOUS
<1>1. /\ offers' = {} /\ sources' = sources /\ board' = board /\ board.owner # "ours"
      /\ copies' = copies + 1 /\ copies \in Nat /\ copies' \in 0 .. MaxCopies
      /\ mail' = Tell(board) /\ served' = NothingServed
      /\ clip' = [open |-> TRUE, device |-> TRUE, own_source |-> None, own_text |-> None,
                  send_func |-> None, selection |-> None, report |-> [n |-> 0, own |-> FALSE]]
  <2>1. offers = {} /\ board.owner # "ours"
    BY Closed DEF OpenDisplay
  <2>2. copies \in Nat /\ copies < MaxCopies
    BY MaxCopiesAssumption DEF OpenDisplay, ClipInv, ClipTypeOK
  <2>3. clip' = [open |-> TRUE, device |-> TRUE, own_source |-> None, own_text |-> None,
                 send_func |-> None, selection |-> None, report |-> [n |-> 0, own |-> FALSE]]
    BY DEF OpenDisplay, Unopened
  <2>4. /\ offers' = offers /\ sources' = sources /\ board' = board
        /\ copies' = copies + 1 /\ mail' = Tell(board) /\ served' = NothingServed
    BY DEF OpenDisplay
  <2>5. copies + 1 \in 0 .. MaxCopies
    BY <2>2, MaxCopiesAssumption
  <2> QED
    BY <2>1, <2>2, <2>3, <2>4, <2>5
<1> DEFINE nothing == [ev |-> "selection", n |-> None]
           offer == [ev |-> "data_offer", n |-> copies + 1]
           it == [ev |-> "selection", n |-> copies + 1]
<1>2. /\ nothing \in Events /\ nothing.ev = "selection" /\ nothing.n = None
      /\ offer \in Events /\ offer.ev = "data_offer" /\ offer.n = copies + 1
      /\ it \in Events /\ it.ev = "selection" /\ it.n = copies + 1
  BY <1>1 DEF Events, None
<1>3. mail' = IF board = Nobody THEN <<nothing>> ELSE <<offer, it>>
  BY <1>1 DEF Tell
<1> HIDE DEF nothing, offer, it
<1>4. /\ mail' \in Seq(Events)
      /\ \/ /\ board = Nobody /\ Len(mail') = 1
            /\ mail'[1].ev = "selection" /\ mail'[1].n = None
         \/ /\ board # Nobody /\ Len(mail') = 2
            /\ mail'[1].ev = "data_offer" /\ mail'[1].n = copies + 1
            /\ mail'[2].ev = "selection" /\ mail'[2].n = copies + 1
  BY <1>2, <1>3
<1>5. ClipTypeOK'
  BY <1>1 DEF ClipTypeOK, ClipInv
<1>6. ClipboardOK'
  BY <1>1, <1>4 DEF ClipboardOK, ClipInv, None
<1>7. SourceOwns'
  BY <1>1, <1>4 DEF SourceOwns
<1>8. Reporting'
  <2>1. \A i \in 1 .. Len(mail') : mail'[i].ev # "cancelled"
    BY <1>4
  <2>2. ~\A i \in 1 .. Len(mail') : mail'[i].ev # "selection"
    BY <1>4
  <2>3. \A i \in 1 .. Len(mail') : mail'[i].ev = "selection" => (mail'[i].n = None) = (board = Nobody)
    BY <1>1, <1>4 DEF None
  <2> QED
    BY <1>1, <2>1, <2>2, <2>3 DEF Reporting, LastSelection
<1>9. Offered'
  BY <1>1, <1>4 DEF Offered, Fate, None
<1>10. SourceSays'
  BY <1>1 DEF SourceSays, PastedIsOffered
<1> QED
  BY <1>5, <1>6, <1>7, <1>8, <1>9, <1>10 DEF ClipInv

LEMMA FreeStep == ClipInv /\ rd_display_free => ClipInv'
<1> SUFFICES ASSUME ClipInv, rd_display_free PROVE ClipInv'
  OBVIOUS
<1>1. /\ clip' = Unopened /\ offers' = {} /\ mail' = <<>> /\ served' = NothingServed /\ copies' = copies
      /\ sources' = [n \in DOMAIN sources |-> [sources[n] EXCEPT !.alive = FALSE]]
      /\ board' = IF board.owner = "ours" THEN Nobody ELSE board
  BY DEF rd_display_free
<1>2. /\ mail' \in Seq(Events) /\ Len(mail') = 0 /\ \A i \in 1 .. Len(mail') : FALSE
  BY <1>1
<1>3. sources' \in [Selections -> [alive : BOOLEAN, says : Content \cup {None}]]
  BY <1>1 DEF ClipInv, ClipboardOK
<1>4. /\ board'.owner # "ours" /\ copies \in Nat
      /\ board' \in {Nobody, [owner |-> "other", n |-> 0]} \cup [owner : {"ours"}, n : Selections]
  BY <1>1, MaxCopiesAssumption DEF ClipInv, ClipboardOK, ClipTypeOK, Nobody
<1>5. ClipTypeOK'
  BY <1>1 DEF ClipTypeOK, ClipInv, Unopened
<1>6. ClipboardOK'
  BY <1>1, <1>2, <1>3, <1>4 DEF ClipboardOK, Unopened, None
<1>7. SourceOwns'
  BY <1>1, <1>2, <1>4 DEF SourceOwns, Unopened
<1>8. Reporting'
  BY <1>1 DEF Reporting, Unopened
<1>9. Offered'
  BY <1>1, <1>2, <1>4 DEF Offered, Unopened, None
<1>10. SourceSays'
  BY <1>1 DEF SourceSays, PastedIsOffered, Unopened
<1> QED
  BY <1>5, <1>6, <1>7, <1>8, <1>9, <1>10 DEF ClipInv

\* A source of ours takes the selection, for what the server sets it to say.
LEMMA OfferedStep ==
  ASSUME ClipInv, clip.open, clip.device, NEW content \in Content \cup {None},
         NEW c \in {ForFunction(clip, content),
                    [clip EXCEPT !.send_func = None, !.own_text = content]},
         set_source(c, content), UNCHANGED offers, served' = NothingServed
  PROVE  ClipInv'
<1> DEFINE sel == [owner |-> "ours", n |-> copies + 1]
<1>1. /\ SetSelection(sel) /\ clip' = [c EXCEPT !.own_source = copies + 1]
      /\ sources' = [n \in DOMAIN sources |->
                       IF n = copies + 1 THEN [alive |-> TRUE, says |-> content]
                       ELSE IF n = clip.own_source THEN [sources[n] EXCEPT !.alive = FALSE]
                       ELSE sources[n]]
  BY DEF set_source
<1>2. ClipboardOK /\ ClipTypeOK /\ SourceOwns /\ Reporting /\ Offered
  BY DEF ClipInv
<1>3. /\ copies' = copies + 1 /\ copies' \in 1 .. MaxCopies /\ board' = sel /\ copies \in Nat
      /\ mail' \in Seq(Events)
  BY <1>1, <1>2, SelectionTold
<1>4. /\ clip' = [open |-> clip.open, device |-> clip.device, own_source |-> copies + 1,
                  own_text |-> c.own_text, send_func |-> c.send_func,
                  selection |-> clip.selection, report |-> clip.report]
      /\ \/ c.own_text = None /\ c.send_func = content
         \/ c.own_text = content /\ c.send_func = None
  BY <1>1, <1>2 DEF ForFunction, ClipboardOK
<1>5. /\ sources' \in [Selections -> [alive : BOOLEAN, says : Content \cup {None}]]
      /\ sources'[copies + 1] = [alive |-> TRUE, says |-> content]
      /\ copies + 1 \in Selections
  <2> DEFINE Said == [alive : BOOLEAN, says : Content \cup {None}]
  <2>1. sources \in [Selections -> Said] /\ copies + 1 \in Selections
    BY <1>2, <1>3 DEF ClipboardOK, Selections
  <2>2. [alive |-> TRUE, says |-> content] \in Said
    OBVIOUS
  <2>3. \A n \in Selections : sources[n] \in Said /\ [sources[n] EXCEPT !.alive = FALSE] \in Said
    BY <2>1
  <2>4. DOMAIN sources = Selections
    BY <2>1
  <2> HIDE DEF Said
  <2>5. sources'[copies + 1] = [alive |-> TRUE, says |-> content]
    BY <1>1, <2>1, <2>4
  <2>6. sources' \in [Selections -> Said]
    BY <1>1, <2>1, <2>2, <2>3, <2>4
  <2> QED
    BY <2>1, <2>5, <2>6 DEF Said
<1>6. clip.selection \in Nat /\ clip.report \in [n : Nat, own : BOOLEAN]
      /\ clip.open \in BOOLEAN /\ clip.device \in BOOLEAN
  BY <1>2 DEF ClipboardOK
<1>7. SourceOwns' /\ Reporting' /\ Offered'
  <2>1. sel.owner = "ours" /\ clip'.own_source = copies + 1 /\ clip'.device = clip.device
        /\ clip'.selection = clip.selection
    BY <1>4
  <2>2. sel \in {Nobody, [owner |-> "other", n |-> 0], [owner |-> "ours", n |-> copies + 1]}
    OBVIOUS
  <2> HIDE DEF sel
  <2> QED
    BY <1>1, <1>2, <2>1, <2>2, SelectionStep
<1>8. ClipTypeOK'
  BY <1>2, <1>3, <1>4, <1>5 DEF ClipTypeOK
<1>9. ClipboardOK'
  <2>1. board' \in {Nobody, [owner |-> "other", n |-> 0]} \cup [owner : {"ours"}, n : Selections]
    BY <1>3, <1>5
  <2>2. clip' \in [open : BOOLEAN, device : BOOLEAN, own_source : Selections \cup {None},
               own_text : Content \cup {None}, send_func : Content \cup {None},
               selection : Nat, report : [n : Nat, own : BOOLEAN]]
    BY <1>4, <1>5, <1>6
  <2>3. clip'.open
    BY <1>4
  <2> QED
    BY <1>2, <1>3, <1>5, <2>1, <2>2, <2>3 DEF ClipboardOK
<1>10. SourceSays'
  BY <1>4, <1>5 DEF SourceSays, PastedIsOffered, Content_Of
<1> QED
  BY <1>7, <1>8, <1>9, <1>10 DEF ClipInv

\* Without a device only what the source gives is changed.
LEMMA UnofferedStep ==
  ASSUME ClipInv, clip.open, ~clip.device, NEW content \in Content \cup {None},
         NEW c \in {ForFunction(clip, content),
                    [clip EXCEPT !.send_func = None, !.own_text = content]},
         clip' = c, UNCHANGED <<sources, board, mail, copies, offers>>, served' = NothingServed
  PROVE  ClipInv'
<1>1. ClipboardOK /\ ClipTypeOK /\ SourceOwns /\ Reporting /\ Offered
  BY DEF ClipInv
<1>2. /\ clip' = [open |-> clip.open, device |-> clip.device, own_source |-> clip.own_source,
                  own_text |-> c.own_text, send_func |-> c.send_func,
                  selection |-> clip.selection, report |-> clip.report]
      /\ \/ c.own_text = None /\ c.send_func = content
         \/ c.own_text = content /\ c.send_func = None
  BY <1>1 DEF ForFunction, ClipboardOK
<1>3. /\ clip'.open = clip.open /\ clip'.device = clip.device
      /\ clip'.own_source = clip.own_source /\ clip'.selection = clip.selection
  BY <1>2
<1>4. ClipTypeOK'
  BY <1>1, <1>2 DEF ClipTypeOK
<1>5. ClipboardOK'
  <2>1. clip' \in [open : BOOLEAN, device : BOOLEAN, own_source : Selections \cup {None},
               own_text : Content \cup {None}, send_func : Content \cup {None},
               selection : Nat, report : [n : Nat, own : BOOLEAN]]
    BY <1>1, <1>2 DEF ClipboardOK
  <2> QED
    BY <1>1, <1>3, <2>1 DEF ClipboardOK
<1>6. SourceOwns'
  BY <1>1, <1>3 DEF SourceOwns, Waits
<1>7. Reporting'
  BY <1>3 DEF Reporting
<1>8. Offered'
  BY <1>1, <1>3 DEF Offered, Fate
<1>9. SourceSays'
  BY <1>3 DEF SourceSays, PastedIsOffered
<1> QED
  BY <1>4, <1>5, <1>6, <1>7, <1>8, <1>9 DEF ClipInv

\* The selection goes to an application or to nobody.
LEMMA GivenUpStep ==
  ASSUME ClipInv, NEW sel \in {Nobody, [owner |-> "other", n |-> 0]}, SetSelection(sel),
         clip' = clip \/ (clip.open /\ clip.device /\ clip' = ForFunction(clip, None)),
         UNCHANGED <<sources, offers>>, served' = NothingServed
  PROVE  ClipInv'
<1>1. ClipboardOK /\ ClipTypeOK /\ SourceOwns /\ Reporting /\ Offered /\ SourceSays
  BY DEF ClipInv
<1>2. /\ copies' = copies + 1 /\ copies' \in 1 .. MaxCopies /\ board' = sel /\ copies \in Nat
      /\ mail' \in Seq(Events)
      /\ clip.open \/ mail' = <<>>
  <2>1. ASSUME ~clip.open PROVE mail' = <<>>
    <3>1. mail = <<>> /\ board.owner # "ours" /\ ~clip.device
      BY <2>1, Closed
    <3> QED
      BY <3>1 DEF SetSelection
  <2> QED
    BY <1>1, <2>1, SelectionTold
<1>3. /\ clip'.open = clip.open /\ clip'.device = clip.device
      /\ clip'.own_source = clip.own_source /\ clip'.selection = clip.selection
      /\ clip'.own_text \in {clip.own_text, None} /\ clip'.send_func \in {clip.send_func, None}
      /\ Content_Of(clip') \in {Content_Of(clip), None}
      /\ clip' \in [open : BOOLEAN, device : BOOLEAN, own_source : Selections \cup {None},
               own_text : Content \cup {None}, send_func : Content \cup {None},
               selection : Nat, report : [n : Nat, own : BOOLEAN]]
      /\ ~clip'.open => clip' = clip
  <2>1. CASE clip' = clip
    BY <1>1, <2>1 DEF ClipboardOK
  <2>2. CASE clip.open /\ clip.device /\ clip' = ForFunction(clip, None)
    <3>1. clip' = [open |-> clip.open, device |-> clip.device, own_source |-> clip.own_source,
                   own_text |-> None, send_func |-> None,
                   selection |-> clip.selection, report |-> clip.report]
      BY <1>1, <2>2 DEF ForFunction, ClipboardOK
    <3> QED
      BY <1>1, <2>2, <3>1 DEF ClipboardOK, Content_Of
  <2> QED
    BY <2>1, <2>2
<1>4. SourceOwns' /\ Reporting' /\ Offered'
  <2>1. sel.owner # "ours"
    BY DEF Nobody
  <2> QED
    BY <1>1, <1>3, <2>1, SelectionStep
<1>5. ClipTypeOK'
  BY <1>1, <1>2, <1>3 DEF ClipTypeOK
<1>6. ClipboardOK'
  BY <1>1, <1>2, <1>3 DEF ClipboardOK
<1>7. SourceSays'
  BY <1>1, <1>3 DEF SourceSays, PastedIsOffered
<1> QED
  BY <1>4, <1>5, <1>6, <1>7 DEF ClipInv

\* Of an event that was heard: what each part of the invariant is made of.
LEMMA HeardStep ==
  ASSUME ClipInv, NEW ev, Heard(ev), UNCHANGED <<board, copies>>,
         IF ev = "cancelled" /\ mail[1].n = clip.own_source THEN clip' = Disowned(clip)
         ELSE IF ev = "selection" /\ clip.device
         THEN clip' = [clip EXCEPT !.selection = mail[1].n,
                         !.report = [n |-> mail[1].n, own |-> clip.own_source # None]]
         ELSE IF ev = "finished" THEN clip' = [clip EXCEPT !.device = FALSE]
         ELSE clip' = clip,
         CASE ev = "data_offer" -> offers' = IF clip.device THEN offers \cup {mail[1].n} ELSE offers
           [] ev = "selection" -> offers' = IF clip.device THEN offers \ {clip.selection} ELSE offers
           [] ev = "primary" -> offers' = offers \ {mail[1].n}
           [] OTHER -> offers' = offers,
         \/ sources' = sources
         \/ /\ ev = "cancelled" /\ mail[1].n \in Selections
            /\ sources' = [sources EXCEPT ![mail[1].n].alive = FALSE],
         \/ served' = NothingServed
         \/ /\ ev = "send" /\ mail[1].n = clip.own_source /\ clip.own_source # None
            /\ served' = <<clip.own_source, Content_Of(clip)>> /\ sources' = sources
  PROVE  ClipInv'
<1>1. ClipboardOK /\ ClipTypeOK /\ SourceOwns /\ Reporting /\ Offered /\ SourceSays
  BY DEF ClipInv
<1>2. /\ Len(mail) \in Nat \ {0} /\ mail[1].ev = ev /\ mail' \in Seq(Events) /\ mail[1].n \in Nat
      /\ clip.open
  <2>1. Len(mail) \in Nat \ {0} /\ mail[1].ev = ev /\ mail' \in Seq(Events) /\ 1 \in 1 .. Len(mail)
    BY <1>1, MailHeard
  <2> QED
    BY <1>1, <2>1, MailNumbers DEF ClipboardOK
<1>3. /\ clip' \in [open : BOOLEAN, device : BOOLEAN, own_source : Selections \cup {None},
               own_text : Content \cup {None}, send_func : Content \cup {None},
               selection : Nat, report : [n : Nat, own : BOOLEAN]]
      /\ clip'.open /\ (clip'.device => clip.device)
      /\ IF ev = "cancelled" /\ mail[1].n = clip.own_source THEN clip'.own_source = None
         ELSE clip'.own_source = clip.own_source
      /\ clip'.selection = IF ev = "selection" /\ clip.device THEN mail[1].n ELSE clip.selection
      /\ clip'.device => clip'.report = IF ev = "selection"
                                        THEN [n |-> mail[1].n, own |-> clip.own_source # None]
                                        ELSE clip.report
      /\ \/ clip'.own_text = clip.own_text /\ clip'.send_func = clip.send_func
         \/ clip'.own_text = None /\ clip'.send_func = None /\ clip'.own_source = None
  <2>1. CASE clip' = clip /\ ~(ev = "selection" /\ clip.device)
             /\ ~(ev = "cancelled" /\ mail[1].n = clip.own_source)
    BY <1>1, <1>2, <2>1 DEF ClipboardOK
  <2>2. CASE ev = "cancelled" /\ mail[1].n = clip.own_source /\ clip' = Disowned(clip)
    BY <1>1, <1>2, <2>2 DEF ClipboardOK, Disowned
  <2>3. CASE ev = "selection" /\ clip.device
             /\ clip' = [clip EXCEPT !.selection = mail[1].n,
                          !.report = [n |-> mail[1].n, own |-> clip.own_source # None]]
    BY <1>1, <1>2, <2>3 DEF ClipboardOK
  <2>4. CASE ev = "finished" /\ clip' = [clip EXCEPT !.device = FALSE]
    BY <1>1, <1>2, <2>4 DEF ClipboardOK
  <2> QED
    BY <2>1, <2>2, <2>3, <2>4
<1>4. offers' \subseteq Nat
  BY <1>1, <1>2 DEF ClipboardOK
<1>5. /\ sources' \in [Selections -> [alive : BOOLEAN, says : Content \cup {None}]]
      /\ \A n \in Selections : sources'[n].says = sources[n].says
      /\ clip'.own_source # None => sources'[clip'.own_source].alive
  <2>1. CASE sources' = sources
    BY <1>1, <1>3, <2>1 DEF ClipboardOK, ClipTypeOK
  <2>2. CASE /\ ev = "cancelled" /\ mail[1].n \in Selections
             /\ sources' = [sources EXCEPT ![mail[1].n].alive = FALSE]
    <3> DEFINE n == mail[1].n
    <3>1. /\ sources \in [Selections -> [alive : BOOLEAN, says : Content \cup {None}]]
          /\ clip'.own_source \in Selections \cup {None}
          /\ clip.own_source # None => sources[clip.own_source].alive
          /\ clip'.own_source # None => clip'.own_source = clip.own_source /\ clip'.own_source # n
      BY <1>1, <1>3, <2>2 DEF ClipboardOK, ClipTypeOK
    <3>2. n \in Selections /\ sources' = [sources EXCEPT ![n].alive = FALSE]
      BY <2>2
    <3> HIDE DEF n
    <3>3. /\ sources' \in [Selections -> [alive : BOOLEAN, says : Content \cup {None}]]
          /\ \A m \in Selections : sources'[m].says = sources[m].says
          /\ \A m \in Selections : m # n => sources'[m] = sources[m]
      BY <3>1, <3>2
    <3> QED
      BY <3>1, <3>3
  <2> QED
    BY <2>1, <2>2
<1>6. SourceOwns'
  BY <1>1, <1>3, HeardSourceOwns
<1>7. Reporting'
  BY <1>1, <1>3, HeardReporting
<1>8. Offered'
  <2>1. HeardOffers(ev)
    BY <1>3 DEF HeardOffers
  <2> QED
    BY <1>1, <1>3, <2>1, HeardOffered
<1>9. ClipboardOK'
  BY <1>1, <1>2, <1>3, <1>4, <1>5 DEF ClipboardOK
<1>10. ClipTypeOK'
  <2>1. clip'.selection \in offers' \cup {None}
    BY <1>8 DEF Offered
  <2>2. clip'.own_text = None \/ clip'.send_func = None
    BY <1>1, <1>3 DEF ClipTypeOK
  <2> QED
    BY <1>1, <1>3, <1>5, <2>1, <2>2 DEF ClipTypeOK
<1>11. SourceSays'
  <2>1. clip'.device /\ clip'.own_source # None =>
          Content_Of(clip') \in {sources'[clip'.own_source].says, None}
    BY <1>1, <1>3, <1>5 DEF SourceSays, Content_Of
  <2>2. PastedIsOffered'
    BY <1>1, <1>3 DEF SourceSays, PastedIsOffered
  <2> QED
    BY <2>1, <2>2 DEF SourceSays
<1> QED
  BY <1>6, <1>7, <1>8, <1>9, <1>10, <1>11 DEF ClipInv

\* The other events the compositor sends, which leave the clipboard as it is.
LEMMA OtherStep ==
  ASSUME ClipInv, AppPastes \/ AppSelects \/ SeatGoes
  PROVE  ClipInv'
<1>1. ClipboardOK /\ ClipTypeOK /\ SourceOwns /\ Reporting /\ Offered /\ SourceSays
  BY DEF ClipInv
<1>2. /\ clip' = clip /\ sources' = sources /\ offers' = offers /\ board' = board
      /\ served' = NothingServed /\ copies \in Nat
  BY <1>1, MaxCopiesAssumption DEF AppPastes, AppSelects, SeatGoes, ClipTypeOK
<1>3. clip.open
  <2>1. AppPastes => board.owner = "ours"
    BY DEF AppPastes
  <2>2. AppSelects \/ SeatGoes => clip.device
    BY DEF AppSelects, SeatGoes
  <2> QED
    BY <2>1, <2>2, Closed
<1>4. /\ mail' \in Seq(Events) /\ \A i \in 1 .. Len(mail) : mail'[i] = mail[i]
      /\ copies' \in 0 .. MaxCopies
      /\ \/ /\ copies' = copies /\ Len(mail') = Len(mail) + 1
            /\ mail'[Len(mail) + 1].ev \in {"send", "finished"}
            /\ mail'[Len(mail) + 1].ev = "send" => mail'[Len(mail) + 1].n # None
         \/ /\ copies' = copies + 1 /\ Len(mail') = Len(mail) + 2
            /\ mail'[Len(mail) + 1].ev = "data_offer" /\ mail'[Len(mail) + 1].n = copies + 1
            /\ mail'[Len(mail) + 2].ev = "primary" /\ mail'[Len(mail) + 2].n = copies + 1
  <2>1. mail \in Seq(Events) /\ copies \in 0 .. MaxCopies
    BY <1>1 DEF ClipboardOK, ClipTypeOK
  <2>2. ASSUME NEW e \in Events, mail' = Append(mail, e)
        PROVE  /\ mail' \in Seq(Events) /\ \A i \in 1 .. Len(mail) : mail'[i] = mail[i]
               /\ Len(mail') = Len(mail) + 1 /\ mail'[Len(mail) + 1] = e
    BY <2>1, <2>2
  <2>3. CASE AppPastes
    <3> DEFINE e == [ev |-> "send", n |-> board.n]
    <3>1. e \in Events /\ e.ev = "send" /\ e.n # None
      BY <1>1, <2>3 DEF AppPastes, ClipboardOK, Events, Nobody, None, Selections
    <3>2. mail' = Append(mail, e) /\ copies' = copies
      BY <2>3 DEF AppPastes
    <3> HIDE DEF e
    <3> QED
      BY <2>1, <2>2, <3>1, <3>2
  <2>4. CASE SeatGoes
    <3> DEFINE e == [ev |-> "finished", n |-> None]
    <3>1. e \in Events /\ e.ev = "finished"
      BY DEF Events, None
    <3>2. mail' = Append(mail, e) /\ copies' = copies
      BY <2>4 DEF SeatGoes
    <3> HIDE DEF e
    <3> QED
      BY <2>1, <2>2, <3>1, <3>2
  <2>5. CASE AppSelects
    <3> DEFINE o == [ev |-> "data_offer", n |-> copies + 1]
               e == [ev |-> "primary", n |-> copies + 1]
    <3>1. /\ o \in Events /\ o.ev = "data_offer" /\ o.n = copies + 1
          /\ e \in Events /\ e.ev = "primary" /\ e.n = copies + 1
      BY <1>2 DEF Events
    <3>2. mail' = mail \o <<o, e>> /\ copies' = copies + 1 /\ copies < MaxCopies
      BY <2>5 DEF AppSelects
    <3>3. copies' \in 0 .. MaxCopies
      BY <2>1, <3>2, MaxCopiesAssumption
    <3> HIDE DEF o, e
    <3> QED
      BY <2>1, <3>1, <3>2, <3>3, AddedTwo
  <2> QED
    BY <2>3, <2>4, <2>5
<1>5. SourceOwns' /\ Reporting' /\ Offered'
  BY <1>1, <1>2, <1>4, OtherMail
<1>6. ClipTypeOK'
  BY <1>1, <1>2, <1>4 DEF ClipTypeOK
<1>7. ClipboardOK'
  BY <1>1, <1>2, <1>3, <1>4 DEF ClipboardOK
<1>8. SourceSays'
  BY <1>1, <1>2 DEF SourceSays, PastedIsOffered, Content_Of
<1> QED
  BY <1>5, <1>6, <1>7, <1>8 DEF ClipInv

LEMMA ClipStep == ClipInv /\ [ClipNext]_clipVars => ClipInv'
<1> SUFFICES ASSUME ClipInv, [ClipNext]_clipVars PROVE ClipInv'
  OBVIOUS
<1>1. ClipboardOK /\ ClipTypeOK /\ SourceOwns /\ Reporting /\ Offered /\ SourceSays
  BY DEF ClipInv
<1>2. ASSUME NEW ev, Heard(ev) PROVE Head(mail) = mail[1] /\ mail[1].ev = ev /\ 1 \in 1 .. Len(mail)
  BY <1>1, <1>2, MailHeard
<1>3. CASE OpenDisplay
  BY <1>3, OpenStep
<1>4. CASE rd_display_free
  BY <1>4, FreeStep
<1>5. ASSUME NEW content \in Content, rd_display_set_clipboard_text(content) PROVE ClipInv'
  <2> DEFINE c == [clip EXCEPT !.send_func = None, !.own_text = content]
  <2>1. clip.open /\ set_source(c, content) /\ served' = NothingServed /\ UNCHANGED offers
    BY <1>5 DEF rd_display_set_clipboard_text
  <2>2. CASE clip.device
    BY <2>1, <2>2, OfferedStep
  <2>3. CASE ~clip.device
    <3>1. clip' = c /\ UNCHANGED <<sources, board, mail, copies, offers>>
      BY <2>1, <2>3 DEF set_source
    <3> QED
      BY <2>1, <2>3, <3>1, UnofferedStep
  <2> QED
    BY <2>2, <2>3
<1>6. ASSUME NEW content \in Content \cup {None}, rd_display_offer_clipboard(content) PROVE ClipInv'
  <2> DEFINE c == ForFunction(clip, content)
  <2>1. clip.open /\ served' = NothingServed /\ UNCHANGED offers
    BY <1>6 DEF rd_display_offer_clipboard
  <2>2. CASE content # None /\ clip.device
    <3>1. set_source(c, content)
      BY <1>6, <2>2 DEF rd_display_offer_clipboard
    <3> QED
      BY <2>1, <2>2, <3>1, OfferedStep
  <2>3. CASE ~clip.device
    <3>1. clip' = c /\ UNCHANGED <<sources, board, mail, copies, offers>>
      BY <1>6, <2>1, <2>3 DEF rd_display_offer_clipboard, set_source
    <3> QED
      BY <2>1, <2>3, <3>1, UnofferedStep
  <2>4. CASE content = None /\ clip.device
    <3>1. clip' = ForFunction(clip, None) /\ SetSelection(Nobody) /\ UNCHANGED <<sources, offers>>
      BY <1>6, <2>1, <2>4 DEF rd_display_offer_clipboard
    <3> QED
      BY <2>1, <2>4, <3>1, GivenUpStep
  <2> QED
    BY <2>2, <2>3, <2>4
<1>7. ASSUME NEW sel \in {Nobody, [owner |-> "other", n |-> 0]}, AppCopies(sel) PROVE ClipInv'
  <2>1. SetSelection(sel) /\ clip' = clip /\ UNCHANGED <<sources, offers>> /\ served' = NothingServed
    BY <1>7 DEF AppCopies
  <2> QED
    BY <2>1, GivenUpStep
<1>8. CASE AppPastes \/ AppSelects \/ SeatGoes
  BY <1>8, OtherStep
<1>9. CASE device_data_offer
  <2>1. Heard("data_offer")
    BY <1>9 DEF device_data_offer
  <2> QED
    BY <1>2, <1>9, <2>1, HeardStep DEF device_data_offer
<1>10. CASE device_selection
  <2>1. Heard("selection")
    BY <1>10 DEF device_selection
  <2> QED
    BY <1>2, <1>10, <2>1, HeardStep DEF device_selection, Replaced
<1>11. CASE device_primary_selection
  <2>1. Heard("primary")
    BY <1>11 DEF device_primary_selection
  <2> QED
    BY <1>2, <1>11, <2>1, HeardStep DEF device_primary_selection
<1>12. CASE device_finished
  <2>1. Heard("finished")
    BY <1>12 DEF device_finished
  <2> QED
    BY <1>2, <1>12, <2>1, HeardStep DEF device_finished
<1>13. CASE source_send
  <2>1. Heard("send")
    BY <1>13 DEF source_send
  <2>2. mail[1].n # None
    BY <1>1, <1>2, <2>1 DEF SourceOwns
  <2> QED
    BY <1>2, <1>13, <2>1, <2>2, HeardStep DEF source_send
<1>14. CASE source_cancelled
  <2>1. Heard("cancelled")
    BY <1>14 DEF source_cancelled
  <2>2. mail[1].n \in Selections
    BY <1>1, <1>2, <2>1, MaxCopiesAssumption DEF SourceOwns, ClipTypeOK, Selections
  <2>3. mail[1].n = clip.own_source => sources[mail[1].n].alive
    BY <1>1, <2>2 DEF ClipTypeOK, Selections, None
  <2> QED
    BY <1>2, <1>14, <2>1, <2>2, <2>3, HeardStep DEF source_cancelled
<1>15. CASE UNCHANGED clipVars
  BY <1>1, <1>15 DEF clipVars, ClipInv, ClipTypeOK, ClipboardOK, SourceOwns, Waits, Reporting,
     LastSelection, Offered, Fate, SourceSays, PastedIsOffered, Content_Of
<1> QED
  BY <1>3, <1>4, <1>5, <1>6, <1>7, <1>8, <1>9, <1>10, <1>11, <1>12, <1>13, <1>14, <1>15 DEF ClipNext

LEMMA ClipInductive == ClipSpec => []ClipInv
  BY ClipInvInit, ClipStep, PTL DEF ClipSpec

\* Whoever copies, in whatever order what the compositor sends is heard, rd_wayland.c
\* and the session agree once all of it was heard: on who has the selection and on
\* whether it is ours; what is pasted is what the source was made to offer, and no
\* offer but that of the selection is kept.
THEOREM BothSidesAgree == ClipSpec => []ClipboardAgrees
<1>1. ClipInv => ClipboardAgrees
  <2> SUFFICES ASSUME ClipInv PROVE ClipboardAgrees
    OBVIOUS
  <2>1. ASSUME mail = <<>> PROVE \A i \in 1 .. Len(mail) : FALSE
    BY <2>1
  <2>2. ReportedIsReal
    BY <2>1 DEF ClipInv, Reporting, SourceOwns, ReportedIsReal
  <2>3. PastedIsOffered
    BY DEF ClipInv, SourceSays
  <2>4. OffersFreed
    BY <2>1 DEF ClipInv, Offered, OffersFreed
  <2> QED
    BY <2>2, <2>3, <2>4 DEF ClipboardAgrees
<1> QED
  BY <1>1, ClipInductive, PTL

-----------------------------------------------------------------------------
(* The parts together.                                                     *)

clientsVars == <<part, inputVars, clipVars, effectVars, snapVars>>

LEMMA PartSteps ==
  ASSUME [ClientsNext]_clientsVars
  PROVE  /\ [InputNext]_inputVars /\ [ClipNext]_clipVars
         /\ [EffectNext]_effectVars /\ [SnapNext]_snapVars
<1>1. CASE ClientsNext
  BY <1>1 DEF ClientsNext, Rest
<1>2. CASE UNCHANGED clientsVars
  BY <1>2 DEF clientsVars
<1> QED
  BY <1>1, <1>2

\* What the run explores is, of each part, what the part may do.
THEOREM EachPartRuns == ClientsSpec => InputSpec /\ ClipSpec /\ EffectSpec /\ SnapSpec
<1>1. ClientsInit => InputInit /\ ClipInit /\ EffectInit /\ SnapInit
  BY DEF ClientsInit
<1> QED
  BY <1>1, PartSteps, PTL DEF ClientsSpec, InputSpec, ClipSpec, EffectSpec, SnapSpec, clientsVars

\* Keys are recorded with the keymap in use, offers and sources with what they stand
\* for, effects with their surfaces and buttons with their windows, within their limits.
THEOREM ClientsTypeCorrect == ClientsSpec => []ClientsTypeOK
<1>1. ClipInv /\ EffectInv /\ SnapInv => ClipTypeOK /\ EffectTypeOK /\ SnapTypeOK
  BY DEF ClipInv, EffectInv, SnapInv
<1> QED
  BY <1>1, EachPartRuns, InputTypeCorrect, ClipInductive, EffectInductive, SnapInductive, PTL
     DEF ClientsTypeOK
=============================================================================

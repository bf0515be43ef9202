--------------------------- MODULE SurfaceEffect ---------------------------
(***************************************************************************)
(* The material behind a window (wayland/surface_effect.c and its callers  *)
(* in style/background_effect.vala).  Each paint asks for it again, so     *)
(* what was asked last is remembered, on the widget for the compositor's   *)
(* blur protocol and on the surface for the toolkit's own calls, and is    *)
(* not asked twice.                                                        *)
(*                                                                         *)
(* External: GTK, which gives a widget a surface when it is realized and   *)
(* takes it away when it is unrealized; the toolkit's calls, which may be  *)
(* missing or fail; and the compositor, which shows the material.          *)
(***************************************************************************)
EXTENDS Integers, FiniteSets

CONSTANTS
  Window,       \* windows
  Kind,         \* how windows ask: "card", "frame", "shapes" or "plain"
  Mode,         \* modes, of "disabled", "glass", "blur" and "liquid"
  Region,       \* regions a window's shapes may have
  Strength,     \* strengths
  MaxSurfaces   \* bound: surfaces made

VARIABLES
  surface,   \* window |-> its surface, or NoSurface
  kind,      \* window |-> the way it asks
  effect,    \* window |-> struct surface_effect: the surface of its proxy, and
             \* what it was last given
  hooked,    \* windows whose unrealize signal is connected
  card,      \* surface |-> struct card_effect
  manager,   \* the cached manager: whether it was looked for
  has,       \* what there is: version of the blur global (0: none), calls of the toolkit
  shown,     \* compositor: surface |-> material given over the protocol
  native,    \* toolkit: surface |-> material, input region, who gave it last
  proxies,   \* compositor: the surface of each blur object
  asked      \* window |-> what it asked for last, and who took it

effectVars == <<surface, kind, effect, hooked, card, manager, has, shown, native,
                proxies, asked>>

NoSurface == 0
Surfaces == 1 .. MaxSurfaces
ASSUME MaxSurfacesAssumption == MaxSurfaces \in Nat
Whole == "whole"
Empty == "empty"
Unset == [mode |-> "unset", region |-> Whole, strength |-> 0]
ASSUME ModeAssumption == "unset" \notin Mode
NoEffect == [proxy |-> NoSurface, given |-> Unset]
Untold == [given |-> Unset, input |-> Whole, by |-> "nobody"]
Unasked == [given |-> Unset, by |-> "nobody"]
Made == {s \in Surfaces : native[s].by # "unmade"}

EffectTypeOK ==
  /\ \A w \in Window :
       /\ effect[w].proxy # NoSurface => effect[w].proxy = surface[w] /\ w \in hooked
       /\ effect[w].given # Unset => effect[w].proxy # NoSurface
  /\ \A v, w \in Window : surface[v] = surface[w] => v = w \/ surface[v] = NoSurface
  /\ \A s \in Surfaces : card[s] # Unset => native[s].by \in {"region", "plain"}

EffectInit ==
  /\ surface = [w \in Window |-> NoSurface]
  /\ kind \in [Window -> Kind]
  /\ effect = [w \in Window |-> NoEffect]
  /\ hooked = {}
  /\ card = [s \in Surfaces |-> Unset]
  /\ manager = FALSE
  /\ has \in [version : 0 .. 3, set : BOOLEAN, region : BOOLEAN]
  /\ shown = [s \in Surfaces |-> Unset]
  /\ native = [s \in Surfaces |-> [Untold EXCEPT !.by = "unmade"]]
  /\ proxies = {}
  /\ asked = [w \in Window |-> Unasked]

-----------------------------------------------------------------------------
(* A world r is the record of what a call changes.                         *)
Widgets == [effect |-> effect, hooked |-> hooked, card |-> card, manager |-> manager,
            shown |-> shown, native |-> native, proxies |-> proxies, asked |-> asked]

Settle(r) ==
  /\ effect' = r.effect /\ hooked' = r.hooked /\ card' = r.card
  /\ manager' = r.manager /\ shown' = r.shown /\ native' = r.native
  /\ proxies' = r.proxies /\ asked' = r.asked
  /\ UNCHANGED <<surface, kind, has>>

(* The last thing a window asked for, and who was told.                    *)
Asked(r, w, given, by) == [r EXCEPT !.asked[w] = [given |-> given, by |-> by]]

(* get_manager: the worlds with a manager, if there is one; the queue for  *)
(* looking may fail, and then it is looked for again the next time.        *)
get_manager(r) ==
  IF r.manager THEN {r} ELSE {r, [r EXCEPT !.manager = TRUE]}

(* What the blur protocol makes of a request, by the version it has.       *)
Protocol(given) ==
  IF has.version >= 3 THEN given
  ELSE IF has.version = 2 THEN [given EXCEPT !.strength = 0]
  ELSE [mode |-> IF given.mode = "disabled" THEN "disabled" ELSE "blur",
        region |-> Whole, strength |-> 0]

Glass(given) == IF given.mode = "liquid" THEN [given EXCEPT !.mode = "glass"] ELSE given

(* Over the protocol: an effect object the first time, then the request    *)
(* unless it is the one given last.                                        *)
TellCompositor(r, w, given) ==
  LET s == surface[w]
      e == IF r.effect[w].proxy # NoSurface THEN r
           ELSE [r EXCEPT !.effect[w] = [proxy |-> s, given |-> Unset],
                          !.proxies = @ \cup {s},
                          !.hooked = @ \cup {w}]
      done == Asked(e, w, given, "protocol")
  IN  IF e.effect[w].given = given THEN done
      ELSE [done EXCEPT !.effect[w].given = given,
                        !.shown[done.effect[w].proxy] = Protocol(given)]

singularity_surface_effect_set(r, w, given) ==
  LET s == surface[w]
      plain == IF has.set THEN given ELSE Glass(given)
  IN  IF has.set
      THEN {Asked([r EXCEPT !.native[s] = [@ EXCEPT !.given = plain, !.by = "plain"]],
                  w, plain, "plain")}
      ELSE {IF q.manager /\ has.version > 0 THEN TellCompositor(q, w, plain) ELSE q :
              q \in get_manager(r)}

(* apply_region: the outcomes [ok, r].  The toolkit's call may fail.       *)
\* Wrong: only the region is compared
SameCard_Region(last, given) == last.region = given.region
SameCard(last, given) == last = given

InputRegion(last, given, input) == IF input THEN given.region ELSE last

apply_region(r, w, given, input) ==
  LET s == surface[w]
      done == Asked(r, w, given, "region")
  IN  IF SameCard(r.card[s], given) THEN {[ok |-> TRUE, r |-> done]}
      ELSE {[ok |-> FALSE, r |-> r],
            [ok |-> TRUE,
             r |-> [done EXCEPT !.card[s] = given,
                      !.native[s] = [given |-> given, by |-> "region",
                         input |-> InputRegion(@.input, given, input)]]]}

(* set_widget_effect and singularity_surface_effect_set_shapes: nothing    *)
(* without the toolkit's calls, or without a region for a shape.           *)
with_region(r, w, given, input) ==
  {[ok |-> FALSE, r |-> r]} \cup
    (IF has.region THEN apply_region(r, w, given, input) ELSE {})

(* The callers.  A frame or the shapes fall back on the plain call, with   *)
(* the bounds of the frame or with the whole surface.                      *)
Paint(w, given) ==
  LET worlds ==
        IF kind[w] = "plain" THEN singularity_surface_effect_set(Widgets, w, given)
        ELSE LET tried == with_region(Widgets, w, given, kind[w] = "card")
             IN  UNION {IF t.ok \/ kind[w] = "card" THEN {t.r}
                        ELSE singularity_surface_effect_set(t.r, w,
                               IF kind[w] = "shapes" THEN [given EXCEPT !.region = Whole]
                               ELSE given) : t \in tried}
  IN  surface[w] # NoSurface /\ \E r \in worlds : Settle(r)

-----------------------------------------------------------------------------
(* GTK (external).                                                         *)

Realize(w) ==
  /\ surface[w] = NoSurface
  /\ \E s \in Surfaces :
       /\ s \notin Made /\ \A t \in Surfaces : t < s => t \in Made
       /\ surface' = [surface EXCEPT ![w] = s]
       /\ native' = [native EXCEPT ![s] = Untold]
  /\ UNCHANGED <<kind, effect, hooked, card, manager, has, shown, proxies, asked>>

(* The unrealize signal runs our handler while the surface is still there. *)
handle_widget_unrealize(r, w) ==
  IF w \notin r.hooked THEN r
  ELSE [r EXCEPT !.proxies = @ \ {r.effect[w].proxy}, !.effect[w] = NoEffect]

Unrealize(w) ==
  LET s == surface[w]
      r == handle_widget_unrealize(Widgets, w)
  IN
  /\ s # NoSurface
  /\ surface' = [surface EXCEPT ![w] = NoSurface]
  /\ effect' = r.effect /\ proxies' = r.proxies
  /\ card' = [card EXCEPT ![s] = Unset]
  /\ shown' = [shown EXCEPT ![s] = Unset]
  /\ native' = [native EXCEPT ![s] = Untold]
  /\ asked' = [asked EXCEPT ![w] = Unasked]
  /\ UNCHANGED <<kind, hooked, manager, has>>

EffectNext ==
  \E w \in Window :
    \/ Realize(w) \/ Unrealize(w)
    \/ \E m \in Mode, x \in Region, n \in Strength :
         Paint(w, [mode |-> m, region |-> x, strength |-> n])

EffectSpec == EffectInit /\ [][EffectNext]_effectVars

-----------------------------------------------------------------------------
(* What a window asked for last is what is shown behind it, for all that   *)
(* it is not asked again when it was asked before; but for a region that   *)
(* was asked again after the plain call had taken its place, which the     *)
(* cache of the surface does not know of.                                  *)
AskedIsShown ==
  \A w \in Window :
    LET a == asked[w]
        s == surface[w]
    IN  /\ a.by = "plain" => native[s].given = a.given
        /\ a.by = "region" => native[s].given = a.given \/ native[s].by = "plain"
        /\ a.by = "protocol" => shown[s] = Protocol(a.given)

(* A blur object is destroyed before its surface and no surface has two.   *)
ProxiesOutlived ==
  /\ proxies \subseteq {surface[w] : w \in Window}
  /\ \A s \in proxies : \E w \in Window : effect[w].proxy = s

(* A window that is a card takes input where its material is.              *)
CardTakesInput ==
  \A w \in Window :
    kind[w] = "card" /\ asked[w].by = "region" =>
      native[surface[w]].input = asked[w].given.region

(* The material is what was asked for, of a surface that exists, and where *)
(* the window takes input.                                                 *)
EffectShown == AskedIsShown /\ ProxiesOutlived /\ CardTakesInput
=============================================================================

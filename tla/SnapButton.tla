----------------------------- MODULE SnapButton -----------------------------
(***************************************************************************)
(* A maximize button that offers snap layouts (wayland/snap_button.c and   *)
(* its caller ui/windowing/snap_layouts.vala): the compositor is told when *)
(* the pointer rests on the button and when it leaves, the button is       *)
(* pressed or goes away.                                                   *)
(*                                                                         *)
(* External: GTK, which unmaps the buttons of a window before it takes its *)
(* surface away and lets the pointer be over one button at a time; and the *)
(* compositor.  A surface is its address and its age: an address may come  *)
(* back, and the button remembers an address.                              *)
(***************************************************************************)
EXTENDS Integers, FiniteSets

CONSTANTS
  Button,       \* buttons
  WindowOf,     \* button |-> its window
  Address,      \* addresses of surfaces
  MaxAge        \* bound: surfaces a window has in turn

VARIABLES
  snapVersion,  \* version of the snap manager's global (0: none)
  window,       \* window |-> its surface [at, age] and whether it is mapped
  over,         \* the button under the pointer, or NoButton
  entered,      \* button |-> address of the surface entered, or NoAddress
  resting,      \* compositor: surfaces the pointer rests on a button of
  request       \* the request just made: its name and its surface

snapVars == <<snapVersion, window, over, entered, resting, request>>

NoButton == "none"
NoAddress == "null"
Windows == {WindowOf[b] : b \in Button}
Quiet == <<"none", NoAddress>>
ASSUME NamesAssumption == NoButton \notin Button /\ NoAddress \notin Address
ASSUME MaxAgeAssumption == MaxAge \in Nat

SurfaceOf(b) == [at |-> window[WindowOf[b]].at, age |-> window[WindowOf[b]].age]

SnapTypeOK ==
  /\ over \in Button \cup {NoButton}
  /\ over # NoButton => window[WindowOf[over]].mapped
  /\ \A b \in Button : entered[b] # NoAddress => b = over /\ entered[b] \in Address
  /\ \A v, w \in Windows : v # w /\ window[v].at # NoAddress => window[v].at # window[w].at

SnapInit ==
  /\ snapVersion \in 0 .. 2
  /\ window = [w \in Windows |-> [at |-> NoAddress, age |-> 0, mapped |-> FALSE]]
  /\ over = NoButton
  /\ entered = [b \in Button |-> NoAddress]
  /\ resting = {}
  /\ request = Quiet

-----------------------------------------------------------------------------
(* manager_for_widget: there is a manager, of version 2, and a surface.    *)
manager_for_widget(b) == snapVersion >= 2 /\ SurfaceOf(b).at # NoAddress

(* Nothing is sent for a button without bounds, or of no size.             *)
singularity_snap_button_enter(b) ==
  \/ UNCHANGED <<entered, resting>> /\ request' = Quiet
  \/ /\ manager_for_widget(b)
     /\ request' = <<"enter", SurfaceOf(b)>>
     /\ resting' = resting \cup {SurfaceOf(b)}
     /\ entered' = [entered EXCEPT ![b] = SurfaceOf(b).at]

Stolen(b) == [entered EXCEPT ![b] = NoAddress]

singularity_snap_button_leave(b) ==
  /\ entered' = Stolen(b)
  /\ IF entered[b] # NoAddress /\ manager_for_widget(b) /\ SurfaceOf(b).at = entered[b]
     THEN request' = <<"leave", SurfaceOf(b)>> /\ resting' = resting \ {SurfaceOf(b)}
     ELSE request' = Quiet /\ resting' = resting

-----------------------------------------------------------------------------
(* The handlers of attach_maximize_button.                                 *)

PointerEnters(b) ==
  /\ over = NoButton /\ window[WindowOf[b]].mapped
  /\ over' = b
  /\ singularity_snap_button_enter(b)
  /\ UNCHANGED <<snapVersion, window>>

PointerLeaves(b) ==
  /\ over = b /\ over' = NoButton
  /\ singularity_snap_button_leave(b)
  /\ UNCHANGED <<snapVersion, window>>

OnPressed(b) ==
  /\ over = b
  /\ singularity_snap_button_leave(b)
  /\ UNCHANGED <<snapVersion, window, over>>

(* The window of the button is unmapped: the button's handler runs while   *)
(* the surface is there.  Of the buttons of a window one at most was       *)
(* entered; for the others leaving does nothing.                           *)
\* Wrong: a button that goes away does not leave
OnUnmap_Nothing(b) == entered' = entered /\ resting' = resting /\ request' = Quiet
OnUnmap(b) == singularity_snap_button_leave(b)

Unmap(w) ==
  /\ window[w].mapped
  /\ window' = [window EXCEPT ![w].mapped = FALSE]
  /\ LET on == {b \in Button : WindowOf[b] = w /\ entered[b] # NoAddress}
     IN  IF on = {} THEN UNCHANGED <<entered, resting>> /\ request' = Quiet
         ELSE \E b \in on : OnUnmap(b)
  /\ over' = IF over # NoButton /\ WindowOf[over] = w THEN NoButton ELSE over
  /\ UNCHANGED snapVersion

-----------------------------------------------------------------------------
(* GTK (external).                                                         *)

Map(w) ==
  /\ ~window[w].mapped
  /\ IF window[w].at # NoAddress
     THEN window' = [window EXCEPT ![w].mapped = TRUE]
     ELSE /\ window[w].age < MaxAge
          /\ \E at \in Address :
               /\ \A v \in Windows : window[v].at # at
               /\ window' = [window EXCEPT ![w] =
                               [at |-> at, age |-> @.age + 1, mapped |-> TRUE]]
  /\ request' = Quiet
  /\ UNCHANGED <<snapVersion, over, entered, resting>>

UnrealizeWindow(w) ==
  /\ window[w].at # NoAddress /\ ~window[w].mapped
  /\ window' = [window EXCEPT ![w].at = NoAddress]
  /\ request' = Quiet
  /\ UNCHANGED <<snapVersion, over, entered, resting>>

SnapNext ==
  \/ \E b \in Button : PointerEnters(b) \/ PointerLeaves(b) \/ OnPressed(b)
  \/ \E w \in Windows : Map(w) \/ Unmap(w) \/ UnrealizeWindow(w)

SnapSpec == SnapInit /\ [][SnapNext]_snapVars

-----------------------------------------------------------------------------
(* The compositor takes the pointer to rest on a button of a surface only  *)
(* while it is over one that has not been pressed or unmapped since.       *)
RestingIsOver ==
  \A s \in resting : over # NoButton /\ s = SurfaceOf(over) /\ entered[over] = s.at

(* Leaving is told once, and only of a surface the compositor was told the *)
(* pointer rests on, though a surface may have another's address.          *)
LeavesOnce == request' # request /\ request'[1] = "leave" => request'[2] \in resting

(* After every step the resting surface is under the pointer, and no step  *)
(* leaves a surface twice, though windows come and go and their addresses  *)
(* are used again (singularity_snap_button_enter, _leave).                 *)
PointerRests == [][RestingIsOver' /\ LeavesOnce]_snapVars
=============================================================================

----------------------------- MODULE Clipboard -----------------------------
(***************************************************************************)
(* The clipboard shared with a guest (RdDisplay of sharing_host/           *)
(* rd_wayland.c): the session's selection is reported to the server, and   *)
(* what the guest copied is offered to the session through a source.       *)
(*                                                                         *)
(* The compositor (external) has the selection and a queue of events for   *)
(* the client; requests reach it at once.  When the selection changes it   *)
(* cancels the source it belonged to and then tells the device, as         *)
(* wlroots does.  An event for an object the client has destroyed is       *)
(* dropped by libwayland.  Source n and offer n are those of the n-th      *)
(* change of the selection.                                                *)
(***************************************************************************)
EXTENDS Integers, Sequences, FiniteSets

CONSTANTS
  Content,     \* what a guest may copy
  MaxCopies    \* bound: changes of the selection

ASSUME MaxCopiesAssumption == MaxCopies \in Nat

VARIABLES
  clip,     \* the clipboard half of RdDisplay
  sources,  \* source |-> [alive, says]: ours, and what it was made to offer
  offers,   \* offers the client has an object for
  board,    \* compositor: the selection [owner, n]
  mail,     \* events for the client, in order
  copies,   \* how many times the selection was changed
  served    \* the source and the content of the send just answered

clipVars == <<clip, sources, offers, board, mail, copies, served>>

None == 0
Nobody == [owner |-> "none", n |-> 0]
NothingServed == <<None, None>>
Unopened ==
  [open |-> FALSE, device |-> FALSE, own_source |-> None, own_text |-> None,
   send_func |-> None, selection |-> None,
   report |-> [n |-> 0, own |-> FALSE]]

ClipTypeOK ==
  /\ clip.own_text \in Content \cup {None} /\ clip.send_func \in Content \cup {None}
  /\ clip.own_source # None => sources[clip.own_source].alive
  /\ clip.own_text = None \/ clip.send_func = None
  /\ clip.selection \in offers \cup {None}
  /\ copies \in 0 .. MaxCopies

ClipInit ==
  /\ clip = Unopened
  /\ sources = [n \in 1 .. MaxCopies |-> [alive |-> FALSE, says |-> None]]
  /\ offers = {}
  /\ board \in {Nobody, [owner |-> "other", n |-> 0]}
  /\ mail = <<>>
  /\ copies = 0
  /\ served = NothingServed

-----------------------------------------------------------------------------
(* The compositor.                                                         *)

(* What the device is told of a selection.                                 *)
Tell(sel) ==
  IF sel = Nobody THEN <<[ev |-> "selection", n |-> None]>>
  ELSE <<[ev |-> "data_offer", n |-> copies + 1], [ev |-> "selection", n |-> copies + 1]>>

(* The selection becomes sel.                                              *)
SetSelection(sel) ==
  /\ copies < MaxCopies
  /\ copies' = copies + 1
  /\ board' = sel
  /\ mail' = mail
       \o (IF board.owner = "ours" THEN <<[ev |-> "cancelled", n |-> board.n]>> ELSE <<>>)
       \o (IF clip.device THEN Tell(sel) ELSE <<>>)

(* An application copies, or closes with the selection it had.             *)
AppCopies(sel) ==
  /\ SetSelection(sel)
  /\ served' = NothingServed
  /\ UNCHANGED <<clip, sources, offers>>

(* An application pastes what we offer.                                    *)
AppPastes ==
  /\ board.owner = "ours"
  /\ ~\E i \in DOMAIN mail : mail[i].ev = "send"
  /\ mail' = Append(mail, [ev |-> "send", n |-> board.n])
  /\ served' = NothingServed
  /\ UNCHANGED <<clip, sources, offers, board, copies>>

(* The primary selection changes: an offer as well, which nobody wants.    *)
AppSelects ==
  /\ copies < MaxCopies /\ clip.device
  /\ copies' = copies + 1
  /\ mail' = mail \o <<[ev |-> "data_offer", n |-> copies + 1],
                       [ev |-> "primary", n |-> copies + 1]>>
  /\ served' = NothingServed
  /\ UNCHANGED <<clip, sources, offers, board>>

(* The seat's device goes away.                                            *)
SeatGoes ==
  /\ clip.device /\ ~\E i \in DOMAIN mail : mail[i].ev = "finished"
  /\ mail' = Append(mail, [ev |-> "finished", n |-> None])
  /\ served' = NothingServed
  /\ UNCHANGED <<clip, sources, offers, board, copies>>

-----------------------------------------------------------------------------
(* Events.                                                                 *)

Heard(ev) == mail # <<>> /\ Head(mail).ev = ev /\ mail' = Tail(mail)

device_data_offer ==
  /\ Heard("data_offer")
  /\ offers' = IF clip.device THEN offers \cup {Head(mail).n} ELSE offers
  /\ served' = NothingServed
  /\ UNCHANGED <<clip, sources, board, copies>>

(* The offer before is destroyed; the server learns what can be pasted and *)
(* whether it is its own.                                                  *)
Replaced(old) == offers \ {old}

device_selection ==
  /\ Heard("selection")
  /\ IF clip.device
     THEN /\ offers' = Replaced(clip.selection)
          /\ clip' = [clip EXCEPT !.selection = Head(mail).n,
                        !.report = [n |-> Head(mail).n, own |-> clip.own_source # None]]
     ELSE UNCHANGED <<clip, offers>>
  /\ served' = NothingServed
  /\ UNCHANGED <<sources, board, copies>>

device_primary_selection ==
  /\ Heard("primary")
  /\ offers' = offers \ {Head(mail).n}
  /\ served' = NothingServed
  /\ UNCHANGED <<clip, sources, board, copies>>

device_finished ==
  /\ Heard("finished")
  /\ clip' = [clip EXCEPT !.device = FALSE]
  /\ served' = NothingServed
  /\ UNCHANGED <<sources, offers, board, copies>>

(* The text that was set comes before the function that was given.         *)
Content_Of(c) == IF c.own_text # None THEN c.own_text ELSE c.send_func

source_send ==
  /\ Heard("send")
  /\ served' = IF sources[Head(mail).n].alive /\ Head(mail).n = clip.own_source
               THEN <<Head(mail).n, Content_Of(clip)>> ELSE NothingServed
  /\ UNCHANGED <<clip, sources, offers, board, copies>>

\* Wrong: a cancelled source is still taken for ours
Disowned_Late(c) == [c EXCEPT !.own_text = None, !.send_func = None]
Disowned(c) ==
  [c EXCEPT !.own_source = None, !.own_text = None, !.send_func = None]

source_cancelled ==
  /\ Heard("cancelled")
  /\ LET n == Head(mail).n
     IN  IF sources[n].alive
         THEN /\ sources' = [sources EXCEPT ![n].alive = FALSE]
              /\ clip' = IF clip.own_source = n THEN Disowned(clip) ELSE clip
         ELSE UNCHANGED <<clip, sources>>
  /\ served' = NothingServed
  /\ UNCHANGED <<offers, board, copies>>

-----------------------------------------------------------------------------
(* Requests of the server.                                                 *)

(* set_source: a new source takes the selection, the old one is destroyed. *)
(* Without a device nothing is offered and the old source stays.           *)
set_source(c, content) ==
  IF ~clip.device
  THEN clip' = c /\ UNCHANGED <<sources, board, mail, copies>>
  ELSE /\ SetSelection([owner |-> "ours", n |-> copies + 1])
       /\ sources' = [n \in DOMAIN sources |->
                        IF n = copies + 1 THEN [alive |-> TRUE, says |-> content]
                        ELSE IF n = clip.own_source THEN [sources[n] EXCEPT !.alive = FALSE]
                        ELSE sources[n]]
       /\ clip' = [c EXCEPT !.own_source = copies + 1]

ForFunction(c, content) == [c EXCEPT !.own_text = None, !.send_func = content]

rd_display_offer_clipboard(content) ==
  /\ clip.open
  /\ IF content # None THEN set_source(ForFunction(clip, content), content)
     ELSE /\ clip' = ForFunction(clip, None)
          /\ IF clip.device THEN SetSelection(Nobody) ELSE UNCHANGED <<board, mail, copies>>
          /\ UNCHANGED sources
  /\ served' = NothingServed
  /\ UNCHANGED offers

rd_display_set_clipboard_text(content) ==
  /\ clip.open
  /\ set_source([clip EXCEPT !.send_func = None, !.own_text = content], content)
  /\ served' = NothingServed
  /\ UNCHANGED offers

(* rd_display_new: the device is told the selection there is.              *)
OpenDisplay ==
  /\ ~clip.open /\ copies < MaxCopies
  /\ clip' = [Unopened EXCEPT !.open = TRUE, !.device = TRUE]
  /\ mail' = Tell(board) /\ copies' = copies + 1
  /\ served' = NothingServed
  /\ UNCHANGED <<sources, offers, board>>

(* rd_display_free: the source goes, and with it a selection of ours.      *)
rd_display_free ==
  /\ clip.open
  /\ clip' = Unopened
  /\ offers' = {} /\ mail' = <<>>
  /\ sources' = [n \in DOMAIN sources |-> [sources[n] EXCEPT !.alive = FALSE]]
  /\ board' = IF board.owner = "ours" THEN Nobody ELSE board
  /\ served' = NothingServed
  /\ UNCHANGED copies

ClipNext ==
  \/ OpenDisplay \/ rd_display_free
  \/ \E c \in Content : rd_display_set_clipboard_text(c)
  \/ \E c \in Content \cup {None} : rd_display_offer_clipboard(c)
  \/ device_data_offer \/ device_selection \/ device_primary_selection
  \/ device_finished \/ source_send \/ source_cancelled
  \/ \E sel \in {Nobody, [owner |-> "other", n |-> 0]} : AppCopies(sel)
  \/ AppPastes \/ AppSelects \/ SeatGoes

ClipSpec == ClipInit /\ [][ClipNext]_clipVars

-----------------------------------------------------------------------------
(* Once every event was heard the server was last told of the selection    *)
(* the session has, as its own exactly when it is.                         *)
ReportedIsReal ==
  clip.device /\ mail = <<>> =>
    /\ (clip.report.n = None) = (board = Nobody)
    /\ clip.report.own = (board.owner = "ours")
    /\ board.owner = "ours" => clip.own_source = board.n

(* What an application pastes from a source is what the source was made to *)
(* offer, whatever the server sets meanwhile; but for a server that sets   *)
(* more after the device is gone, which changes what the source gives.     *)
PastedIsOffered ==
  clip.device /\ served # NothingServed =>
    served[2] \in {sources[served[1]].says, None}

(* The client keeps the offer of the selection and no other.               *)
OffersFreed ==
  mail = <<>> /\ clip.device => offers \subseteq {clip.selection}

(* Both sides agree on the clipboard: on whose it is, on what it holds, and *)
(* on the offers that are still in use.                                    *)
ClipboardAgrees == ReportedIsReal /\ PastedIsOffered /\ OffersFreed
=============================================================================

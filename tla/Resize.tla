------------------------------- MODULE Resize -------------------------------
(***************************************************************************)
(* How the size of the terminal reaches the screen: signal_loop on one pool *)
(* thread and run_render_loop on another both call refresh_terminal_size   *)
(* (nxtio/app.cpp), share two atomics and a queue of sizes, and the render *)
(* loop alone drives the geometry of TerminalCompositor (nxt/compositor.cpp). *)
(* A size is a record [w, h]; the two halves are stored one after the other. *)
(***************************************************************************)
EXTENDS Naturals, Sequences

CONSTANTS
  Sizes,          (* Sizes of the terminal window.                         *)
  MaxResizes,     (* How often the window changes.                         *)
  Heights,        (* Fixed heights a layout may ask for.                   *)
  ReservedRows    (* 7 in the code: rows kept for the log, if they fit.    *)

ASSUME ResizeAssumption ==
  /\ Sizes \subseteq [w : Nat \ {0}, h : Nat \ {0}]
  /\ MaxResizes \in Nat
  /\ Heights \subseteq Nat
  /\ ReservedRows \in Nat

VARIABLES
  window, resizes,          (* The kernel's winsize; changes so far.       *)
  winch,                    (* SIGWINCH bytes in the self-pipe.            *)
  term_width, term_height,  (* The atomics of UIRuntime.                   *)
  resize_queue,
  pc, ws, changed,          (* Per thread: place, ioctl's answer, result.  *)
  resize_to,                (* Render loop's optional, <<>> or <<size>>.   *)
  rows,                     (* Height render_frame has settled on.         *)
  smoothed_rows,
  raster_w, raster_h,       (* Both rasters.                               *)
  hud_height, c_term_height, hud_start_row,   (* TerminalCompositor        *)
  scroll_rows,              (* Rows of the scroll region; 0: none is set.  *)
  resized_h                 (* History: height last given to resize().     *)

atomics    == <<term_width, term_height>>
compositor == <<raster_w, raster_h, hud_height, c_term_height, hud_start_row,
                scroll_rows, resized_h>>
thread == <<pc, ws, changed>>
world  == <<window, resizes, winch>>
frame  == <<resize_to, rows, smoothed_rows>>
vars == <<world, atomics, resize_queue, thread, frame, compositor>>

Thread == {"signal", "render"}
TerminalSize == [w |-> term_width, h |-> term_height]
Unset == [w |-> 0, h |-> 0]      (* A local that is not in scope. *)
MinOf(a, b) == IF a < b THEN a ELSE b
-----------------------------------------------------------------------------
(* The geometry of compositor.cpp, rows counted from 0 at the top. *)
HasSeparator(hud, term) == hud > 0 /\ hud + 1 < term

HudStartRow(hud, term) ==
  CASE HasSeparator(hud, term) -> term - hud
    [] ~HasSeparator(hud, term) /\ hud > 0 -> 0
    [] hud = 0 -> term

RasterHeight(hud, term) ==
  CASE hud = 0 -> 0
    [] HasSeparator(hud, term) -> hud
    [] hud > 0 /\ ~HasSeparator(hud, term) -> term

(* The scroll region ends above the separator row. *)
ScrollRows_OnSeparator(hud, term) ==   (* Faulty: includes the separator. *)
  IF HasSeparator(hud, term) THEN HudStartRow(hud, term) ELSE 0
ScrollRows(hud, term) ==
  IF HasSeparator(hud, term) THEN HudStartRow(hud, term) - 1 ELSE 0

(* println: the row a line goes to; a full-screen frame has none for it. *)
PrintRows(hud, term) ==
  {row \in {IF hud > 0 THEN term - hud - 2 ELSE term - 1} :
     hud = 0 \/ HasSeparator(hud, term)}

(* On the screen as the compositor has set it up: the first row below the log.
   Without a separator there is no scroll region, and what has no HUD scrolls. *)
LogEnd ==
  IF HasSeparator(hud_height, c_term_height) THEN scroll_rows ELSE hud_start_row

Init ==
  /\ window \in Sizes /\ resizes = 0 /\ winch = 0
  /\ term_width = window.w /\ term_height = window.h
  /\ resize_queue = <<>>
  /\ pc = [t \in Thread |-> IF t = "signal" THEN "poll" ELSE "layout"]
  /\ ws = [t \in Thread |-> Unset]
  /\ changed = [t \in Thread |-> FALSE]
  /\ resize_to = <<>> /\ rows = 0 /\ smoothed_rows = 0
  /\ raster_w = window.w /\ raster_h = window.h
  /\ hud_height = window.h /\ c_term_height = window.h /\ hud_start_row = 0
  /\ scroll_rows = 0
  /\ resized_h = window.h

(* The user resizes the window; the handler writes a byte. *)
ResizeWindow ==
  /\ resizes < MaxResizes
  /\ window' \in Sizes \ {window}
  /\ resizes' = resizes + 1
  /\ winch' = winch + 1
  /\ UNCHANGED <<atomics, resize_queue, thread, frame, compositor>>
-----------------------------------------------------------------------------
Goto(t, label) == pc' = [pc EXCEPT ![t] = label]

(* refresh_terminal_size, step by step, on either thread. *)
Ioctl(t) ==
  /\ pc[t] = "ioctl"
  /\ ws' = [ws EXCEPT ![t] = window]
  /\ Goto(t, "compare_width")
  /\ UNCHANGED <<world, atomics, resize_queue, changed, frame, compositor>>

CompareWidth(t) ==
  /\ pc[t] = "compare_width"
  /\ changed' = [changed EXCEPT ![t] = ws[t].w # term_width]
  /\ Goto(t, "compare_height")
  /\ UNCHANGED <<world, atomics, resize_queue, ws, frame, compositor>>

CompareHeight(t) ==
  /\ pc[t] = "compare_height"
  /\ changed' = [changed EXCEPT ![t] = @ \/ ws[t].h # term_height]
  /\ Goto(t, "store_width")
  /\ UNCHANGED <<world, atomics, resize_queue, ws, frame, compositor>>

StoreWidth(t) ==
  /\ pc[t] = "store_width"
  /\ term_width' = ws[t].w
  /\ Goto(t, "store_height")
  /\ UNCHANGED <<world, term_height, resize_queue, ws, changed, frame, compositor>>

(* Faulty: the height is not kept. *)
StoreHeight_Not(t) ==
  /\ pc[t] = "store_height"
  /\ Goto(t, "refreshed")
  /\ UNCHANGED <<world, atomics, resize_queue, ws, changed, frame, compositor>>

StoreHeight(t) ==
  /\ pc[t] = "store_height"
  /\ term_height' = ws[t].h
  /\ ws' = [ws EXCEPT ![t] = Unset]
  /\ Goto(t, "refreshed")
  /\ UNCHANGED <<world, term_width, resize_queue, changed, frame, compositor>>

Refresh(t) ==
  Ioctl(t) \/ CompareWidth(t) \/ CompareHeight(t) \/ StoreWidth(t) \/ StoreHeight(t)

(* terminal_size() after a refresh that found a change: the width is loaded
   here, the height in a later step, the other thread may store in between. *)
LoadWidth(t) ==
  /\ pc[t] = "refreshed"
  /\ changed[t]
  /\ changed' = [changed EXCEPT ![t] = FALSE]
  /\ ws' = [ws EXCEPT ![t].w = term_width]
  /\ Goto(t, "load_height")
  /\ UNCHANGED <<world, atomics, resize_queue, frame, compositor>>
-----------------------------------------------------------------------------
(* signal_loop reads a SIGWINCH byte. *)
Winch ==
  /\ pc["signal"] = "poll"
  /\ winch > 0
  /\ winch' = winch - 1
  /\ Goto("signal", "ioctl")
  /\ UNCHANGED <<window, resizes, atomics, resize_queue, ws, changed, frame, compositor>>

(* A SIGWINCH that brings nothing new. *)
SameSize ==
  /\ pc["signal"] = "refreshed"
  /\ ~changed["signal"]
  /\ Goto("signal", "poll")
  /\ UNCHANGED <<world, atomics, resize_queue, ws, changed, frame, compositor>>

LoadHeightToPush ==
  /\ pc["signal"] = "load_height"
  /\ ws' = [ws EXCEPT !["signal"].h = term_height]
  /\ Goto("signal", "push")
  /\ UNCHANGED <<world, atomics, resize_queue, changed, frame, compositor>>

PushSize ==
  /\ pc["signal"] = "push"
  /\ resize_queue' = Append(resize_queue, ws["signal"])
  /\ ws' = [ws EXCEPT !["signal"] = Unset]
  /\ Goto("signal", "poll")
  /\ UNCHANGED <<world, atomics, changed, frame, compositor>>
-----------------------------------------------------------------------------
WakeRender ==
  /\ pc["render"] = "sleep"
  /\ Goto("render", "ioctl")
  /\ UNCHANGED <<world, atomics, resize_queue, ws, changed, frame, compositor>>

NoResize ==
  /\ pc["render"] = "refreshed"
  /\ ~changed["render"]
  /\ Goto("render", "drain")
  /\ UNCHANGED <<world, atomics, resize_queue, ws, changed, frame, compositor>>

LoadHeightToResize ==
  /\ pc["render"] = "load_height"
  /\ resize_to' = <<[ws["render"] EXCEPT !.h = term_height]>>
  /\ ws' = [ws EXCEPT !["render"] = Unset]
  /\ Goto("render", "drain")
  /\ UNCHANGED <<world, atomics, resize_queue, changed, rows, smoothed_rows, compositor>>

Drain ==
  /\ pc["render"] = "drain"
  /\ resize_queue # <<>>
  /\ resize_to' = <<Head(resize_queue)>>
  /\ resize_queue' = Tail(resize_queue)
  /\ UNCHANGED <<world, atomics, thread, rows, smoothed_rows, compositor>>

(* TerminalCompositor::resize: the height of the rasters follows the HUD.
   Faulty: it takes the height of the terminal. *)
ResizeRasters_Full(size) ==
  /\ raster_w' = size.w
  /\ raster_h' = size.h
  /\ resized_h' = size.h
ResizeRasters(size) ==
  /\ raster_w' = size.w
  /\ raster_h' = RasterHeight(hud_height, size.h)
  /\ resized_h' = size.h

(* try_pop fails on an empty queue, and on one whose mutex a push holds. *)
ApplyResize ==
  /\ pc["render"] = "drain"
  /\ resize_queue = <<>> \/ pc["signal"] = "push"
  /\ IF resize_to # <<>>
     THEN ResizeRasters(resize_to[1])
     ELSE UNCHANGED <<raster_w, raster_h, resized_h>>
  /\ resize_to' = <<>>
  /\ Goto("render", "layout")
  /\ UNCHANGED <<world, atomics, resize_queue, ws, changed, rows, smoothed_rows,
                 hud_height, c_term_height, hud_start_row, scroll_rows>>

(* The height a fixed layout gets: below the terminal's, and leaving the log
   its rows where the terminal is tall enough for that. *)
Target(want) ==
  LET clamped == MinOf(want, term_height)
      most    == term_height - ReservedRows - 1
  IN IF clamped > 0 /\ term_height > ReservedRows + 1 THEN MinOf(clamped, most)
                                                      ELSE clamped

(* The HUD grows at once and shrinks a fraction of the way each frame. *)
Smooth(target) ==
  IF target >= smoothed_rows THEN {target} ELSE target .. smoothed_rows

Layout ==
  /\ pc["render"] = "layout"
  /\ \/ /\ smoothed_rows' = term_height      (* The layout wants to grow.   *)
     \/ \E want \in Heights : smoothed_rows' \in Smooth(Target(want))
  /\ rows' = MinOf(smoothed_rows', term_height)
  /\ Goto("render", "present")
  /\ UNCHANGED <<world, atomics, resize_queue, ws, changed, resize_to, compositor>>

Reconfigure(hud, term) ==
  /\ hud_height' = hud
  /\ c_term_height' = term
  /\ hud_start_row' = HudStartRow(hud, term)
  /\ scroll_rows' = ScrollRows(hud, term)
  /\ raster_h' = RasterHeight(hud, term)
  /\ UNCHANGED <<raster_w, resized_h>>

(* Faulty: the height is not clamped to a terminal that has shrunk. *)
SetHudHeight_Unclamped(want, term) ==
  IF want = hud_height /\ term = c_term_height THEN UNCHANGED compositor
                                               ELSE Reconfigure(want, term)

(* set_hud_height reconfigures the scroll region and the rasters if anything
   differs. *)
SetHudHeight(want, term) ==
  LET hud == MinOf(want, term)
  IN IF hud = hud_height /\ term = c_term_height THEN UNCHANGED compositor
                                                 ELSE Reconfigure(hud, term)

(* update_hud_height loads the terminal's height once more. *)
Present ==
  /\ pc["render"] = "present"
  /\ SetHudHeight(rows, term_height)
  /\ Goto("render", "sleep")
  /\ UNCHANGED <<world, atomics, resize_queue, ws, changed, frame>>

SignalThread ==
  \/ Winch \/ Refresh("signal") \/ SameSize \/ LoadWidth("signal")
  \/ LoadHeightToPush \/ PushSize
RenderThread ==
  \/ WakeRender \/ Refresh("render") \/ NoResize \/ LoadWidth("render")
  \/ LoadHeightToResize
  \/ Drain \/ ApplyResize \/ Layout \/ Present

Next == ResizeWindow \/ SignalThread \/ RenderThread

Spec == Init /\ [][Next]_vars
FairSpec == Spec /\ WF_vars(SignalThread) /\ WF_vars(RenderThread)
-----------------------------------------------------------------------------
(* Every variable has its type; the HUD never claims more rows than the
   terminal has, however the height changes between layout and drawing. *)
ResizeTypeOK ==
  /\ window \in Sizes /\ resizes \in 0 .. MaxResizes /\ winch \in 0 .. MaxResizes
  /\ \E s \in Sizes : term_width = s.w
  /\ \E s \in Sizes : term_height = s.h
  /\ resize_queue \in Seq([w : Nat, h : Nat])
  /\ pc["signal"] \in {"poll", "ioctl", "compare_width", "compare_height", "store_width",
                      "store_height", "refreshed", "load_height", "push"}
  /\ pc["render"] \in {"sleep", "ioctl", "compare_width", "compare_height", "store_width",
                      "store_height", "refreshed", "load_height", "drain", "layout",
                      "present"}
  /\ ws \in [Thread -> [w : Nat, h : Nat]] /\ changed \in [Thread -> BOOLEAN]
  /\ resize_to = <<>> \/ Len(resize_to) = 1
  /\ smoothed_rows \in Nat /\ rows \in 0 .. smoothed_rows
  /\ raster_w \in Nat \ {0} /\ raster_h \in Nat
  /\ hud_height \in 0 .. c_term_height /\ hud_start_row \in 0 .. c_term_height
  /\ scroll_rows \in 0 .. c_term_height

(* When a frame has been drawn the rasters fill the HUD's rows exactly and end
   at the terminal's last row, whatever mix of full-screen, HUD and no-HUD
   frames and resizes came before.  The only exception is a frame for which
   resize() was last given another height than set_hud_height. *)
FrameFits ==
  pc["render"] = "sleep" /\ resized_h = c_term_height =>
    /\ raster_h = RasterHeight(hud_height, c_term_height)
    /\ hud_start_row + raster_h = c_term_height

(* println (app.cpp), on any thread, and the compositor agree on geometry that
   each computes on its own.  A line is on the terminal, without wrap-around,
   and on the last row that scrolls - shifted by as much as the height has
   changed since the compositor last heard of it.  So only in the window after
   the terminal has grown can a line land on the separator, on the HUD or on a
   full-screen frame. *)
PrintlnInRegion ==
  \A row \in PrintRows(hud_height, term_height) :
    /\ row \in 0 .. term_height - 1
    /\ LogEnd > 0 => row + 1 + c_term_height = LogEnd + term_height
    /\ row >= LogEnd => term_height > c_term_height

(* Once the user stops resizing, the runtime's idea of the terminal's size and
   the height of the compositor become and stay right, although two threads
   compare and store the size without a lock. *)
SizeSettles == <>[](TerminalSize = window /\ c_term_height = window.h)

(* "Process any pending resizes, keeping only the newest size" (app.hpp): the
   rasters end up as wide as the window. *)
NewestSizeKept == <>[](raster_w = window.w)
=============================================================================

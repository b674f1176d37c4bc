---------------------------- MODULE Resize_proof ----------------------------
(***************************************************************************)
(* What holds of the terminal's size and the compositor's geometry for any *)
(* window sizes, layouts and number of resizes.                            *)
(***************************************************************************)
EXTENDS Resize, SequenceTheorems, TLAPS

(* A size that may be a mix of two sizes of the window.                    *)
Mixed == [w : {s.w : s \in Sizes}, h : {s.h : s \in Sizes}]
Local == [w : {0} \cup {s.w : s \in Sizes}, h : {0} \cup {s.h : s \in Sizes}]

SignalPcs == {"poll", "ioctl", "compare_width", "compare_height", "store_width",
              "store_height", "refreshed", "load_height", "push"}
RenderPcs == {"sleep", "ioctl", "compare_width", "compare_height", "store_width",
              "store_height", "refreshed", "load_height", "drain", "layout", "present"}

WorldInv == window \in Sizes /\ resizes \in 0 .. MaxResizes /\ winch \in 0 .. resizes

(* A thread that stores or pushes a size has one.                          *)
ThreadInv ==
  /\ ws \in [Thread -> Local] /\ changed \in [Thread -> BOOLEAN]
  /\ pc \in [Thread -> SignalPcs \cup RenderPcs]
  /\ pc["signal"] \in SignalPcs /\ pc["render"] \in RenderPcs
  /\ \A t \in Thread :
       /\ pc[t] \in {"compare_width", "compare_height", "store_width", "store_height", "push"} =>
            ws[t] \in Mixed
       /\ pc[t] = "load_height" => ws[t].w \in {s.w : s \in Sizes}

FrameInv ==
  /\ term_width \in {s.w : s \in Sizes} /\ term_height \in {s.h : s \in Sizes}
  /\ resize_queue \in Seq(Mixed)
  /\ resize_to = <<>> \/ \E s \in Mixed : resize_to = <<s>>
  /\ smoothed_rows \in Nat /\ rows \in 0 .. smoothed_rows

(* Everything set_hud_height computes agrees with the height it was given; *)
(* only the rasters may follow a later resize().                           *)
Geometry ==
  /\ c_term_height \in Nat /\ hud_height \in 0 .. c_term_height
  /\ hud_start_row = HudStartRow(hud_height, c_term_height)
  /\ scroll_rows = ScrollRows(hud_height, c_term_height)
  /\ resized_h \in Nat /\ raster_w \in Nat \ {0}
  /\ raster_h \in {RasterHeight(hud_height, c_term_height), RasterHeight(hud_height, resized_h)}

ResizeInv == WorldInv /\ ThreadInv /\ FrameInv /\ Geometry

-----------------------------------------------------------------------------
LEMMA Naturals ==
  /\ \A s \in Sizes : s.w \in Nat \ {0} /\ s.h \in Nat \ {0} /\ s \in Mixed
  /\ \A s \in Mixed : s.w \in Nat \ {0} /\ s.h \in Nat \ {0}
  /\ Mixed \subseteq [w : Nat, h : Nat] /\ Local \subseteq [w : Nat, h : Nat]
  /\ Mixed \subseteq Local /\ Unset \in Local
<1>1. \A s \in Sizes : s.w \in Nat \ {0} /\ s.h \in Nat \ {0}
  BY ResizeAssumption
<1>2. ASSUME NEW s \in Sizes PROVE s \in Mixed
  <2>1. s = [w |-> s.w, h |-> s.h]
    BY ResizeAssumption
  <2> QED
    BY <2>1 DEF Mixed
<1>3. /\ {s.w : s \in Sizes} \subseteq Nat \ {0}
      /\ {s.h : s \in Sizes} \subseteq Nat \ {0}
  BY <1>1
<1>4. Unset \in Local
  BY DEF Local, Unset
<1>5. Mixed \subseteq Local
  BY DEF Mixed, Local
<1>6. Local \subseteq [w : Nat, h : Nat]
  BY <1>3 DEF Local
<1>7. \A s \in Mixed : s.w \in Nat \ {0} /\ s.h \in Nat \ {0}
  BY <1>3 DEF Mixed
<1> QED
  BY <1>1, <1>2, <1>4, <1>5, <1>6, <1>7

(* The rows of a HUD and its separator fit into the terminal.              *)
LEMMA Rows ==
  ASSUME NEW hud \in Nat, NEW term \in Nat, hud <= term
  PROVE  /\ HudStartRow(hud, term) \in 0 .. term /\ ScrollRows(hud, term) \in 0 .. term
         /\ RasterHeight(hud, term) \in Nat
         /\ HudStartRow(hud, term) + RasterHeight(hud, term) = term
BY DEF HudStartRow, ScrollRows, RasterHeight, HasSeparator

LEMMA RasterRows ==
  ASSUME NEW hud \in Nat, NEW term \in Nat
  PROVE  RasterHeight(hud, term) \in Nat
BY DEF RasterHeight, HasSeparator

LEMMA ResizeInvTypes == ResizeInv => ResizeTypeOK
<1> SUFFICES ASSUME ResizeInv PROVE ResizeTypeOK
  OBVIOUS
<1>1. window \in Sizes /\ resizes \in 0 .. MaxResizes /\ winch \in 0 .. MaxResizes
  BY ResizeAssumption DEF ResizeInv, WorldInv
<1>2. resize_queue \in Seq([w : Nat, h : Nat])
  <2>1. resize_queue \in Seq(Mixed) /\ Mixed \subseteq [w : Nat, h : Nat]
    BY Naturals DEF ResizeInv, FrameInv
  <2> QED
    BY <2>1, SeqMonotonic
<1>3. ws \in [Thread -> [w : Nat, h : Nat]]
  BY Naturals DEF ResizeInv, ThreadInv
<1>4. /\ hud_start_row \in 0 .. c_term_height /\ scroll_rows \in 0 .. c_term_height
      /\ raster_h \in Nat
  <2>1. /\ hud_height \in Nat /\ c_term_height \in Nat /\ hud_height <= c_term_height
        /\ resized_h \in Nat
    BY DEF ResizeInv, Geometry
  <2>2. raster_h \in Nat
    BY <2>1, RasterRows DEF ResizeInv, Geometry
  <2> QED
    BY <2>1, <2>2, Rows DEF ResizeInv, Geometry
<1> QED
  BY <1>1, <1>2, <1>3, <1>4 DEF ResizeTypeOK, ResizeInv, ThreadInv, FrameInv, Geometry,
     SignalPcs, RenderPcs

LEMMA ResizeInit == Init => ResizeInv
<1> SUFFICES ASSUME Init PROVE ResizeInv
  OBVIOUS
<1>1. WorldInv
  BY ResizeAssumption DEF Init, WorldInv
<1>2. ThreadInv
  BY Naturals DEF Init, ThreadInv, Thread, SignalPcs, RenderPcs
<1>3. FrameInv
  BY EmptySeq DEF Init, FrameInv
<1>4. Geometry
  BY Naturals DEF Init, Geometry, HudStartRow, ScrollRows, RasterHeight, HasSeparator
<1> QED
  BY <1>1, <1>2, <1>3, <1>4 DEF ResizeInv

(* The steps of refresh_terminal_size and terminal_size, on either thread. *)
LEMMA RefreshStays ==
  ASSUME ResizeInv, NEW t \in Thread, Refresh(t) \/ LoadWidth(t)
  PROVE  ResizeInv'
<1> USE Naturals DEF ResizeInv
<1>1. UNCHANGED <<world, resize_queue, frame, compositor>>
  BY DEF Refresh, Ioctl, CompareWidth, CompareHeight, StoreWidth, StoreHeight, LoadWidth
<1>2. WorldInv' /\ Geometry'
  BY <1>1 DEF world, compositor, WorldInv, Geometry
<1>3. /\ pc[t] \in {"store_width", "store_height"} => ws[t] \in Mixed
      /\ term_width \in {s.w : s \in Sizes} /\ term_height \in {s.h : s \in Sizes}
  BY DEF ThreadInv, FrameInv
<1>4. FrameInv'
  <2>1. term_width' \in {s.w : s \in Sizes} /\ term_height' \in {s.h : s \in Sizes}
    BY <1>3 DEF Refresh, Ioctl, CompareWidth, CompareHeight, StoreWidth, StoreHeight, LoadWidth,
       atomics, Mixed
  <2> QED
    BY <1>1, <2>1 DEF FrameInv, frame
<1>5. ThreadInv'
  <2>1. CASE Ioctl(t)
    BY <2>1 DEF Ioctl, Goto, ThreadInv, WorldInv, Thread, SignalPcs, RenderPcs
  <2>2. CASE CompareWidth(t)
    BY <2>2 DEF CompareWidth, Goto, ThreadInv, Thread, SignalPcs, RenderPcs
  <2>3. CASE CompareHeight(t)
    BY <2>3 DEF CompareHeight, Goto, ThreadInv, Thread, SignalPcs, RenderPcs
  <2>4. CASE StoreWidth(t)
    BY <2>4 DEF StoreWidth, Goto, ThreadInv, Thread, SignalPcs, RenderPcs
  <2>5. CASE StoreHeight(t)
    BY <2>5 DEF StoreHeight, Goto, ThreadInv, Thread, SignalPcs, RenderPcs
  <2>6. CASE LoadWidth(t)
    BY <2>6, <1>3 DEF LoadWidth, Goto, ThreadInv, Thread, SignalPcs, RenderPcs, Local
  <2> QED
    BY <2>1, <2>2, <2>3, <2>4, <2>5, <2>6 DEF Refresh
<1> QED
  BY <1>2, <1>4, <1>5

(* The rest of the signal thread.                                          *)
LEMMA SignalStays ==
  ResizeInv /\ (Winch \/ SameSize \/ LoadHeightToPush \/ PushSize) => ResizeInv'
<1> SUFFICES ASSUME ResizeInv, Winch \/ SameSize \/ LoadHeightToPush \/ PushSize PROVE ResizeInv'
  OBVIOUS
<1> USE Naturals DEF ResizeInv
<1>1. UNCHANGED <<window, resizes, atomics, frame, compositor>>
  BY DEF Winch, SameSize, LoadHeightToPush, PushSize, world
<1>2. WorldInv'
  BY <1>1, ResizeAssumption DEF Winch, SameSize, LoadHeightToPush, PushSize, world, WorldInv
<1>3. Geometry'
  BY <1>1 DEF compositor, Geometry
<1>4. resize_queue' \in Seq(Mixed)
  <2>1. CASE PushSize
    <3>1. ws["signal"] \in Mixed /\ resize_queue \in Seq(Mixed)
      BY <2>1 DEF PushSize, ThreadInv, FrameInv, Thread
    <3> QED
      BY <2>1, <3>1, AppendProperties DEF PushSize
  <2> QED
    BY <2>1 DEF Winch, SameSize, LoadHeightToPush, FrameInv
<1>5. FrameInv'
  BY <1>1, <1>4 DEF FrameInv, atomics, frame
<1>6. ThreadInv'
  <2>1. CASE Winch \/ SameSize
    BY <2>1 DEF Winch, SameSize, Goto, ThreadInv, Thread, SignalPcs, RenderPcs
  <2>2. CASE LoadHeightToPush
    BY <2>2 DEF LoadHeightToPush, Goto, ThreadInv, FrameInv, Thread, SignalPcs, RenderPcs,
       Local, Mixed
  <2>3. CASE PushSize
    BY <2>3 DEF PushSize, Goto, ThreadInv, Thread, SignalPcs, RenderPcs
  <2> QED
    BY <2>1, <2>2, <2>3
<1> QED
  BY <1>2, <1>3, <1>5, <1>6

(* The rest of the render thread, up to the drawing.                       *)
LEMMA RenderStays ==
  ResizeInv /\ (WakeRender \/ NoResize \/ LoadHeightToResize \/ Drain \/ Layout) => ResizeInv'
<1> SUFFICES ASSUME ResizeInv,
                    WakeRender \/ NoResize \/ LoadHeightToResize \/ Drain \/ Layout
             PROVE  ResizeInv'
  OBVIOUS
<1> USE Naturals DEF ResizeInv
<1>1. UNCHANGED <<world, atomics, compositor>>
  BY DEF WakeRender, NoResize, LoadHeightToResize, Drain, Layout
<1>2. WorldInv' /\ Geometry'
  BY <1>1 DEF world, compositor, WorldInv, Geometry
<1>3. ThreadInv'
  <2>1. CASE WakeRender \/ NoResize \/ Layout
    BY <2>1 DEF WakeRender, NoResize, Layout, Goto, ThreadInv, Thread, SignalPcs, RenderPcs
  <2>2. CASE LoadHeightToResize
    BY <2>2 DEF LoadHeightToResize, Goto, ThreadInv, Thread, SignalPcs, RenderPcs
  <2>3. CASE Drain
    BY <2>3 DEF Drain, thread, ThreadInv
  <2> QED
    BY <2>1, <2>2, <2>3
<1>4. resize_queue' \in Seq(Mixed) /\ (resize_to' = <<>> \/ \E s \in Mixed : resize_to' = <<s>>)
  <2>1. CASE WakeRender \/ NoResize \/ Layout
    BY <2>1 DEF WakeRender, NoResize, Layout, FrameInv, frame
  <2>2. CASE LoadHeightToResize
    <3> DEFINE s == [ws["render"] EXCEPT !.h = term_height]
    <3>1. s \in Mixed
      BY <2>2 DEF LoadHeightToResize, FrameInv, ThreadInv, Thread, Local, Mixed
    <3>2. resize_to' = <<s>> /\ resize_queue' = resize_queue
      BY <2>2 DEF LoadHeightToResize
    <3> QED
      BY <3>1, <3>2 DEF FrameInv
  <2>3. CASE Drain
    BY <2>3, HeadTailProperties DEF Drain, FrameInv
  <2> QED
    BY <2>1, <2>2, <2>3
<1>5. smoothed_rows' \in Nat /\ rows' \in 0 .. smoothed_rows'
  <2>1. CASE Layout
    <3>1. term_height \in Nat /\ smoothed_rows \in Nat
      BY DEF FrameInv
    <3>2. \A want \in Heights : Target(want) \in Nat
      BY <3>1, ResizeAssumption DEF Target, MinOf
    <3>3. smoothed_rows' \in Nat
      BY <2>1, <3>1, <3>2 DEF Layout, Smooth
    <3> QED
      BY <2>1, <3>1, <3>3 DEF Layout, MinOf
  <2>2. CASE ~Layout
    BY <2>2 DEF WakeRender, NoResize, LoadHeightToResize, Drain, FrameInv, frame
  <2> QED
    BY <2>1, <2>2
<1> QED
  BY <1>1, <1>2, <1>3, <1>4, <1>5 DEF FrameInv, atomics

(* The drawing: resize() and set_hud_height().                             *)
LEMMA DrawingStays == ResizeInv /\ (ApplyResize \/ Present) => ResizeInv'
<1> SUFFICES ASSUME ResizeInv, ApplyResize \/ Present PROVE ResizeInv'
  OBVIOUS
<1> USE Naturals DEF ResizeInv
<1>1. /\ UNCHANGED <<world, atomics, resize_queue, ws, changed, rows, smoothed_rows>>
      /\ resize_to' = <<>> \/ resize_to' = resize_to
  BY DEF ApplyResize, Present, frame
<1>2. WorldInv' /\ FrameInv'
  BY <1>1 DEF world, WorldInv, atomics, FrameInv
<1>3. ThreadInv'
  BY <1>1 DEF ApplyResize, Present, Goto, ThreadInv, Thread, SignalPcs, RenderPcs
<1>4. CASE ApplyResize
  <2>1. UNCHANGED <<hud_height, c_term_height, hud_start_row, scroll_rows>>
    BY <1>4 DEF ApplyResize
  <2>2. ASSUME UNCHANGED <<raster_w, raster_h, resized_h>> PROVE Geometry'
    BY <2>1, <2>2 DEF Geometry
  <2>3. ASSUME resize_to # <<>> PROVE Geometry'
    <3>1. PICK s \in Mixed : resize_to = <<s>>
      BY <2>3 DEF FrameInv
    <3>2. raster_w' = s.w /\ raster_h' = RasterHeight(hud_height, s.h) /\ resized_h' = s.h
      BY <1>4, <2>3, <3>1 DEF ApplyResize, ResizeRasters
    <3>3. s.w \in Nat \ {0} /\ s.h \in Nat
      OBVIOUS
    <3> QED
      BY <2>1, <3>2, <3>3 DEF Geometry
  <2>4. Geometry'
    BY <1>4, <2>2, <2>3 DEF ApplyResize
  <2> QED
    BY <1>2, <1>3, <2>4
<1>5. CASE Present
  <2> DEFINE hud == MinOf(rows, term_height)
  <2>1. rows \in Nat /\ term_height \in Nat /\ hud \in 0 .. term_height
    BY DEF FrameInv, MinOf
  <2>2. UNCHANGED compositor \/ Reconfigure(hud, term_height)
    BY <1>5 DEF Present, SetHudHeight
  <2> HIDE DEF hud
  <2>3. Geometry'
    BY <2>1, <2>2 DEF compositor, Reconfigure, Geometry
  <2> QED
    BY <1>2, <1>3, <2>3
<1> QED
  BY <1>4, <1>5

LEMMA ResizeStays == ResizeInv /\ [Next]_vars => ResizeInv'
<1> SUFFICES ASSUME ResizeInv, [Next]_vars PROVE ResizeInv'
  OBVIOUS
<1>1. CASE ResizeWindow
  <2>1. UNCHANGED <<atomics, resize_queue, thread, frame, compositor>>
    BY <1>1 DEF ResizeWindow
  <2>2. WorldInv'
    BY <1>1, ResizeAssumption DEF ResizeWindow, ResizeInv, WorldInv
  <2> QED
    BY <2>1, <2>2 DEF ResizeInv, ThreadInv, FrameInv, Geometry, atomics, thread, frame, compositor
<1>2. CASE UNCHANGED vars
  BY <1>2 DEF vars, world, atomics, thread, frame, compositor, ResizeInv, WorldInv, ThreadInv,
     FrameInv, Geometry
<1> QED
  BY <1>1, <1>2, RefreshStays, SignalStays, RenderStays, DrawingStays
     DEF Next, SignalThread, RenderThread, Thread

LEMMA ResizeAlways == Spec => []ResizeInv
  BY ResizeInit, ResizeStays, PTL DEF Spec

(* The HUD never claims more rows than the terminal has, and the runtime's *)
(* width and height each are those of some window there has been, although *)
(* two threads store them without a lock.                                  *)
THEOREM SizesTyped == Spec => []ResizeTypeOK
  BY ResizeAlways, ResizeInvTypes, PTL

(* A drawn frame fills the HUD's rows exactly: the rasters can only differ *)
(* from the geometry by a resize() with another height.                    *)
THEOREM FramesFit == Spec => []FrameFits
<1>1. ResizeInv => FrameFits
  BY Rows DEF ResizeInv, Geometry, FrameFits
<1> QED
  BY <1>1, ResizeAlways, PTL

(* Wherever println finds the two heights it reads, in every mode: a line  *)
(* is on the terminal, at the shifted last row of the log, and off the log *)
(* only while the compositor has not heard of a terminal that has grown.   *)
THEOREM PrintlnStaysInRegion == Spec => []PrintlnInRegion
<1>1. ResizeInv => PrintlnInRegion
  <2> SUFFICES ASSUME ResizeInv, NEW row \in PrintRows(hud_height, term_height)
               PROVE  /\ row \in 0 .. term_height - 1
                      /\ LogEnd > 0 => row + 1 + c_term_height = LogEnd + term_height
                      /\ row >= LogEnd => term_height > c_term_height
    BY DEF PrintlnInRegion
  <2>1. /\ hud_height \in Nat /\ c_term_height \in Nat /\ hud_height <= c_term_height
        /\ term_height \in Nat \ {0}
    BY Naturals DEF ResizeInv, Geometry, FrameInv
  <2>2. /\ hud_start_row = HudStartRow(hud_height, c_term_height)
        /\ scroll_rows = ScrollRows(hud_height, c_term_height)
    BY DEF ResizeInv, Geometry
  <2>3. CASE hud_height = 0
    <3>1. row = term_height - 1 /\ LogEnd = c_term_height
      BY <2>1, <2>2, <2>3 DEF PrintRows, LogEnd, HudStartRow, HasSeparator
    <3> QED
      BY <2>1, <3>1
  <2>4. CASE hud_height > 0
    <3>1. row = term_height - hud_height - 2 /\ hud_height + 1 < term_height
      BY <2>1, <2>4 DEF PrintRows, HasSeparator
    <3>2. CASE HasSeparator(hud_height, c_term_height)
      <4>1. LogEnd = c_term_height - hud_height - 1
        BY <2>1, <2>2, <3>2 DEF LogEnd, ScrollRows, HudStartRow
      <4> QED
        BY <2>1, <3>1, <4>1
    <3>3. CASE ~HasSeparator(hud_height, c_term_height)
      <4>1. LogEnd = 0 /\ c_term_height <= hud_height + 1
        BY <2>1, <2>2, <2>4, <3>3 DEF LogEnd, HudStartRow, HasSeparator
      <4> QED
        BY <2>1, <3>1, <4>1
    <3> QED
      BY <3>2, <3>3
  <2> QED
    BY <2>1, <2>3, <2>4
<1> QED
  BY <1>1, ResizeAlways, PTL
=============================================================================

----------------------------- MODULE MC_Resize -----------------------------
(* Windows too low for a HUD with a log, just high enough for it and higher; a
   change of the width alone. *)
EXTENDS Resize

MCSizes == {[w |-> 1, h |-> 2], [w |-> 1, h |-> 3], [w |-> 2, h |-> 3],
            [w |-> 1, h |-> 6]}
=============================================================================

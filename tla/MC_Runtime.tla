----------------------------- MODULE MC_Runtime -----------------------------
(* The terminals InputModeGuard can meet: none, one it can put into raw mode,
   and one it leaves alone because stdout is redirected. *)
EXTENDS Runtime

MCTerminals == {[tty |-> FALSE, raw |-> FALSE], [tty |-> TRUE, raw |-> TRUE],
                [tty |-> TRUE, raw |-> FALSE]}
=============================================================================

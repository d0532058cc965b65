------------------------------- MODULE MCUiTask -------------------------------
(* Keys of every role: page keys, both readings of "w" and "a", Enter, Tab. *)
EXTENDS UiTask

MCKey == {"tab", "enter", "0", "2", "3", "i", "w", "s", "a", "q"}
MCItems == [Ac |-> 3, Dyson |-> 2, Light |-> 2]
=============================================================================

-------------------------------- MODULE Call --------------------------------
(* A call whose answer depends on nothing but its arguments: call holds the *)
(* last one, what was asked and what was answered.                          *)

VARIABLE call

Start == [op |-> "none"]

NotCalled == call = Start
=============================================================================

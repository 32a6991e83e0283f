---------------------------- MODULE MCEventStream ----------------------------
(* Instances of EventStream for TLC. *)
EXTENDS EventStream

AnyCursor == {NoCursor, Now, 0, 1}

=============================================================================

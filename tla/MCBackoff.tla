------------------------------ MODULE MCBackoff ------------------------------
(* Instances of Backoff for TLC. *)
EXTENDS Backoff

\* No time at all, less than the first wait, exactly the first waits, and long
\* enough for the waits to reach their cap.
SomeTimeouts == {0, 8, 16, 40, 41, 320}

=============================================================================

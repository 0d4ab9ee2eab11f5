-------------------------------- MODULE Orm --------------------------------
(***************************************************************************)
(* What SQLAlchemy's unit of work does with an attribute that a handler    *)
(* assigns, as far as the services rely on it.                             *)
(***************************************************************************)

\* A flush writes an attribute only if it differs from the value the session
\* believes the row has, and then writes the assigned value itself, whatever
\* the row holds by now.
Flushed(rowValue, believed, assigned) ==
  IF assigned = believed THEN rowValue ELSE assigned
=============================================================================

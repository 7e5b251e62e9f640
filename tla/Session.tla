------------------------------- MODULE Session -------------------------------
(***************************************************************************)
(* The write-back of an SQLAlchemy session (autoflush off, no version      *)
(* columns, READ COMMITTED), as app/core/database.py configures it for     *)
(* every request.                                                          *)
(***************************************************************************)

\* At a commit the unit of work updates the columns whose value differs from the
\* one it loaded; the others keep what the database holds by then.
Written(current, loaded, computed) == IF computed = loaded THEN current ELSE computed
=============================================================================

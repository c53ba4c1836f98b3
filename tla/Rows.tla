--------------------------------- MODULE Rows ---------------------------------
(***************************************************************************)
(* What a request that loads a row, sets its columns and commits does to   *)
(* the stored row: a column is written only when it was set to something   *)
(* else than what was loaded, and then whatever is stored by now is        *)
(* overwritten.  Rows are loaded without a lock.                           *)
(***************************************************************************)

CONSTANT None   \* the null of a column, and of every option

Written(loaded, set, stored) == IF set = loaded THEN stored ELSE set
===============================================================================

--------------------------- MODULE MCSpendArchive --------------------------
(***************************************************************************)
(* Three days of rows, two of them on the first day so that an object can  *)
(* lack a row of it; one day of retention and rows that may come a day     *)
(* late; launchd's run and one started by hand.                            *)
(***************************************************************************)
EXTENDS SpendArchive

MCRequest == {"a1", "a2", "b1", "c1"}
MCStartDay == [r \in MCRequest |->
  CASE r \in {"a1", "a2"} -> 0 [] r = "b1" -> 1 [] OTHER -> 2]
============================================================================

--------------------------- MODULE MCRegtechSession ---------------------------
(* Instance for TLC: the daily run and a forced one, which by default reads *)
(* a page; a row that is added has an address that is not public.            *)
EXTENDS RegtechSession

MCMaxPages == [t \in Threads |-> IF t = "forced" THEN 1 ELSE None]
MCRows == <<"r1", "r2">>
=============================================================================

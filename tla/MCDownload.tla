------------------------------ MODULE MCDownload ------------------------------
(* Small instances of Download, with ranges of 3 bytes.                     *)
EXTENDS Download

(* One task; one full range; a range and a rest; whole ranges only; three   *)
(* ranges, the last of one byte.                                            *)
SmallLens == {2, 3, 5, 6, 7}
(* Around the largest length MakeTask's int arithmetic can handle, with an  *)
(* int of 5 bits.                                                           *)
LargeLens == 10..20
AnyServer == BOOLEAN
GoodServer == {TRUE}
AnyDisk == BOOLEAN
GoodDisk == {FALSE}
================================================================================

---------------------------- MODULE MCClientWindow ----------------------------
(* Small instances of ClientWindow: nothing, half and all of a file, and     *)
(* more than it.                                                            *)
EXTENDS ClientWindow

SomeSizes == {0, 2, 4}
================================================================================

----------------------------- MODULE MCPasteStream -----------------------------
(* Small instances of PasteStream: a DWORD of 3 bits.                       *)
EXTENDS PasteStream

(* Empty, one chunk, several; 7 is so close to 8 that the sum of WriteFile  *)
(* wraps, and with it mProgressSize; 10 is beyond what the low part holds.  *)
SomeSizes == {0, 1, 2, 4, 5, 7, 10}
================================================================================

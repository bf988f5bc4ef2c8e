----------------------------- MODULE MCThreadPool -----------------------------
(* Small instances of ThreadPool.                                           *)
EXTENDS ThreadPool

(* No thread (a command line that is not a number), one, several, and more  *)
(* than there are tasks or than the pool allows.                            *)
SomeThreadArgs == {0, 1, 2, 3, 5}
(* Fewer, as many and more processors than threads.                         *)
SomeCpuNums == {1, 2, 8}
================================================================================

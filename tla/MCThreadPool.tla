----------------------------- MODULE MCThreadPool -----------------------------
(* Three threads, with and without a list of cores to pin them to; a list of  *)
(* two limits the pool to two threads.                                        *)
EXTENDS ThreadPool

MCLists == {0, 2, 3}
MCSizes == {0, 1, 2, 5}
=============================================================================

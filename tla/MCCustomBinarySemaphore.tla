------------------------ MODULE MCCustomBinarySemaphore ------------------------
(* Four threads on one semaphore.                                           *)
EXTENDS CustomBinarySemaphore

CONSTANTS t1, t2, t3, t4

MCThreads == {t1, t2, t3, t4}
================================================================================

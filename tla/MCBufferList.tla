---------------------------- MODULE MCBufferList ----------------------------
(* Instantiates BufferList for TLC: three buffers and two or three threads. *)
EXTENDS BufferList

CONSTANTS b1, b2, b3, t1, t2, t3
=============================================================================

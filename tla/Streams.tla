------------------------------- MODULE Streams -------------------------------
(***************************************************************************)
(* The hls::stream<> FIFOs through which the processes of the ROLE         *)
(* communicate.  A stream is a sequence: its writer Appends, its reader    *)
(* takes the Head, and the depth set by "#pragma HLS stream depth" bounds  *)
(* its length.  s.empty() is written s = << >> and s.full() ~HasRoom.  The *)
(* library itself is external to this repository.                          *)
(***************************************************************************)
EXTENDS Integers, Sequences

HasRoom(s, depth) == Len(s) < depth

\* One read() of a stream the guard of the action has found not empty.
Dequeue(s) == Tail(s)
=============================================================================

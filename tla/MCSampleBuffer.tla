---------------------------- MODULE MCSampleBuffer ----------------------------
(* SampleBuffer with a buffer of six bytes, blocks of one or two samples   *)
(* and datagrams of an even and of an odd number of bytes.                 *)
EXTENDS SampleBuffer

MCChunks == {1, 2}
MCDatagrams == {2, 3}
=============================================================================

------------------------ MODULE MCWriteBufferFromHDFS ------------------------
(* WriteBufferFromHDFS for TLC: the file holds one old byte, numbered 0, when
   the buffer is constructed. *)
EXTENDS WriteBufferFromHDFS

OneOldByte == <<0>>

=============================================================================

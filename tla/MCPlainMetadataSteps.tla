----------------------- MODULE MCPlainMetadataSteps -----------------------
(* PlainMetadataSteps for TLC: the operation classes of the model, a value too
   long for a .cfg line.  No symmetry: the run checks liveness. *)
EXTENDS PlainMetadataSteps

AllKinds == {"CreateDirectory", "MoveDirectory", "RemoveDirectory", "WriteFile", "UnlinkMetadataFile"}

=============================================================================

-------------------- MODULE MCPlainMetadataOperations --------------------
(* PlainMetadataOperations for TLC: the values too long for a .cfg line and the
   symmetry of the model values.  Nothing in the specification tells one
   directory, file name or key prefix from another. *)
EXTENDS PlainMetadataOperations

AllKinds == Kinds

DirectoryKinds == {"CreateDirectory", "MoveDirectory", "RemoveDirectory"}

Symmetry == Permutations(Directories) \cup Permutations(Filenames) \cup Permutations(KeyPrefixes)

=============================================================================

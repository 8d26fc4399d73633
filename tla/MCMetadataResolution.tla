------------------------ MODULE MCMetadataResolution ------------------------
(* Shapes at and around each boundary of the sizing rule. *)
EXTENDS MetadataResolution

MCShapes == {-10, 0, 1, 10, 11, 40, 310, 311, 320, 321, 999}
=============================================================================

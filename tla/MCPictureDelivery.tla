------------------------- MODULE MCPictureDelivery --------------------------
(***************************************************************************)
(* Instances of PictureDelivery: picture 1 takes two messages, others one. *)
(***************************************************************************)
EXTENDS PictureDelivery

MCChunksOf == [p \in Pics |-> IF p = 1 THEN 2 ELSE 1]
=============================================================================

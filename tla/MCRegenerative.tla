--------------------------- MODULE MCRegenerative ---------------------------
(* Capsules of one, two and three bits: an odd size is padded.             *)
EXTENDS RegenerativeContinuity

MCPayloads == {<<1>>, <<1, 0>>, <<0, 1, 1>>}
MCForeign == {<<0, 0>>}
=============================================================================

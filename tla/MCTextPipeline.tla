--------------------------- MODULE MCTextPipeline ---------------------------
(***************************************************************************)
(* TextPipeline for TLC: tags of two or three characters that begin alike, *)
(* and stop sequences that overlap with each other and with a tag.         *)
(***************************************************************************)
EXTENDS TextPipeline

Open  == <<"<", "t", ">">>
Close == <<"<", "/">>

Lists == {<<>>, <<<<"t", "<">>>>, <<<<"t", "t", ">">>, <<"/">>>>}
=============================================================================

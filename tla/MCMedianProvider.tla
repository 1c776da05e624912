-------------------------- MODULE MCMedianProvider --------------------------
(* Values of the constants of MedianProvider for TLC. *)
EXTENDS MedianProvider

\* Blocks with one configuration, with one that is replaced in the same block through
\* another contract, or with two that follow one set through another contract; and only
\* blocks without any.
SomeBlocks == {<<TRUE>>, <<TRUE, FALSE>>, <<FALSE, TRUE, TRUE>>}
NoBlocks == {<<>>}
=============================================================================

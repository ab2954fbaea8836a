--------------------------- MODULE MCDigestStage ---------------------------
(* None, or two chunks of up to six bytes. The buffer has room for five    *)
(* runs of at most three bytes, too few for some chunks, and some runs are *)
(* cut; forms of two to ten bytes end at every even place of the blocks of *)
(* six bytes, two of them for the length, in the first block and in the    *)
(* second.                                                                 *)
EXTENDS DigestStage

Contents == UNION {[1 .. l -> Byte] : l \in 1 .. 6}
TwoChunks == {<< >>} \cup {c \in Contents : c[1] = 1} \X Contents
=============================================================================

---------------------------- MODULE MCBlockClient ----------------------------
EXTENDS BlockClient

CONSTANTS s1, s2, s3, ta, tb

Symmetry == Permutations(SeqId)

\* Two blocks of three tokens, and two blocks of two.
UpToSix == 0 .. 6
UpToFour == 0 .. 4

\* For blocks of three tokens: less than a block, and a block and a tail.
ThreeTokenPrompts == { <<ta>>, <<ta, ta, ta, ta>>, <<tb, tb, tb>> }

\* The same second block behind two first blocks, and a short prompt.
PrefixPrompts == { <<ta, ta, tb, tb>>, <<tb, tb, tb, tb>>, <<tb>> }
=============================================================================

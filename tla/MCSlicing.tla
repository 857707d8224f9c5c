----------------------------- MODULE MCSlicing ------------------------------
EXTENDS Slicing

\* Keys with gaps, with ties, against the documents' own order, and without values.
MCKeyMaps == {<<1, 2, 4, 7>>, <<2, 3, 3, 3>>, <<4, 0, 1, 0>>}

\* Each ID once, some of them twice.
MCIdLists == {<<1, 2, 3>>, <<4, 2, 4>>}

MCModes == AllModes

MCMatching == {1, 4}

=============================================================================

---------------------------- MODULE MCIspProgram ----------------------------
EXTENDS IspProgram

\* With blocks and pages of 2 units and a width of 4: a file that a page fills,
\* one whose last page passes the width, one longer than the width, and a length
\* that the zone has no room for (an erased zone has such a one too).
Files == {2, 3, 5, 6}
=============================================================================

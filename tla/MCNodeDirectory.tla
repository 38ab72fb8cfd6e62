--------------------------- MODULE MCNodeDirectory ---------------------------
EXTENDS NodeDirectory

\* Two nodes suffice to choose differently; a third lets one come or go meanwhile.
ThreeNodes == 1..3
=============================================================================

-------------------------- MODULE MCClientRouting --------------------------
EXTENDS ClientRouting

\* The first descriptor numbers after the standard streams.
MCOneFd == {3}
MCTwoFds == {3, 4}
=============================================================================

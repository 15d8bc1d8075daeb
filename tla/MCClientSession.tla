--------------------------- MODULE MCClientSession ---------------------------
EXTENDS ClientSession

CONSTANT o1
MCObj == {o1}

\* Lines behind the token: one; several that fit; an empty one first; one
\* that fills the buffer exactly, with another behind it; one too long.
MCStreams == {<<3>>, <<3, 5>>, <<2, 5>>, <<3, 5, 8>>, <<6, 8>>, <<7>>}
\* A '\0' in the middle of a line that is long enough; no request, the
\* longest message that is sent, and the shortest that is not.
MCNuls == {0, 2}
MCSizes == {0, BufSize - 1, BufSize}
=============================================================================

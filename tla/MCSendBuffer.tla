---------------------------- MODULE MCSendBuffer ----------------------------
EXTENDS SendBufferSpec

\* Distinguishable bytes; an empty write is legal.
MCChunks == { << >>, <<"a">>, <<"b", "c">>, <<"d", "e", "f", "g", "h">> }
=============================================================================

---------------------------- MODULE MCConnection ----------------------------
EXTENDS ConnectionSpec

\* A writes, B only reads.
OneWay == [A |-> << <<1, 2>> >>, B |-> << >>]
\* Both sides write.
BothWays == [A |-> << <<1>> >>, B |-> << <<2>> >>]
=============================================================================

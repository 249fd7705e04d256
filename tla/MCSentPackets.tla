---------------------------- MODULE MCSentPackets ----------------------------
EXTENDS SentPacketsSpec
=============================================================================

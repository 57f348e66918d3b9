------------------------ MODULE MCChannelReliability ------------------------
EXTENDS ChannelReliability
CONSTANTS s1, s2
=============================================================================

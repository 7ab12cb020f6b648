----------------------------- MODULE MCHomeFeed -----------------------------
\* HomeFeed as TLC instantiates it.
EXTENDS HomeFeed
=============================================================================

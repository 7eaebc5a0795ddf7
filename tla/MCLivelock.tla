----------------------------- MODULE MCLivelock -----------------------------
\* Instance of Livelock: WConfd, another daemon, and a job process.
EXTENDS Livelock
=============================================================================

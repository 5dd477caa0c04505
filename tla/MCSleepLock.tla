---------------------------- MODULE MCSleepLock ----------------------------
EXTENDS SleepLock
=============================================================================

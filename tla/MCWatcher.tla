------------------------------ MODULE MCWatcher ------------------------------
EXTENDS Watcher
=============================================================================

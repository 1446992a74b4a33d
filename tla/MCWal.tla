------------------------------- MODULE MCWal --------------------------------
EXTENDS Wal, TLC

=============================================================================

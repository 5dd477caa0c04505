------------------------------ MODULE MCProc ------------------------------
EXTENDS Proc
=============================================================================

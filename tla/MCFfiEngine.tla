------------------------------ MODULE MCFfiEngine ------------------------------
EXTENDS FfiEngine
CONSTANTS ta, tb
MCThreads == {ta, tb}
=============================================================================

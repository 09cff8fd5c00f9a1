---------------------------- MODULE MCInvocation ----------------------------
EXTENDS Invocation
=============================================================================

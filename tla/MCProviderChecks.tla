------------------------- MODULE MCProviderChecks -------------------------
EXTENDS ProviderChecks
=============================================================================

----------------------------- MODULE MCModules -----------------------------
EXTENDS Modules
=============================================================================

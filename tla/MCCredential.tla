---------------------------- MODULE MCCredential -----------------------------
EXTENDS Credential
=============================================================================

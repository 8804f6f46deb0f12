----------------------------- MODULE MCEntityPage -----------------------------
EXTENDS EntityPage
=============================================================================

---------------------------- MODULE MCObjectStore ----------------------------
EXTENDS ObjectStore

CONSTANTS watch

MCClientGroups == {watch}
=============================================================================

---------------------------- MODULE MCTestRunner ----------------------------
EXTENDS TestRunner

CONSTANTS f1, f2

MCOrder == <<f1, f2>>
=============================================================================

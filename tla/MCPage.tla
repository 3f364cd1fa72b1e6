------------------------------- MODULE MCPage -------------------------------
EXTENDS Page

CONSTANTS a, b
MCBytes == {a, b}
MCLengths == {1, 2}
=============================================================================

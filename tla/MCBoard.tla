------------------------------- MODULE MCBoard -------------------------------
EXTENDS BoardHost

\* A line of text; the words are told apart by their place.
MCFile == << << 14, 13, 12, 11 >> >>
=============================================================================

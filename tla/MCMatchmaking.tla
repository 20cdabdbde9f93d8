--------------------------- MODULE MCMatchmaking ---------------------------
EXTENDS Matchmaking

\* Five ratings, one apart; with a range of one, three players may wait at once.
MCElos == 0 .. 4
=============================================================================

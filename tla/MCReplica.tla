----------------------------- MODULE MCReplica -----------------------------
EXTENDS Replica

Rank(cells) == [sq \in Squares |-> cells[sq[2] + 1]]
W(type) == NewPiece(type, "White")
B(type) == NewPiece(type, "Black")

\* One rank: each side has a piece that can move and take.
LineBoard == Rank(<<W("Rook"), EmptyCell, B("Rook"), B("King")>>)

\* round(32 / (1 + 10^(difference / 400)))
EloGain(difference) == CASE difference = 50 -> 14 [] difference = -50 -> 18 [] OTHER -> 16
TwoUsers == [ann |-> Row("ann", "a", 1250), bob |-> Row("bob", "b", 1200)]

\* What the properties of a game can see: the notices of the host's window are
\* read by its overlay alone, and no step waits for them.
WithoutNotices == <<host, store, guest, process, server, outbox, commands, events, sent>>
=============================================================================

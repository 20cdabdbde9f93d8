-------------------------------- MODULE Setup --------------------------------
(***************************************************************************)
(* The board a networked game starts on (io::setupStandardBoard): kings    *)
(* and queens face each other, and there are rooks where chess has bishops.*)
(***************************************************************************)
EXTENDS Rules

BackRank == <<"Rook", "Knight", "Rook", "King", "Queen", "Rook", "Knight", "Rook">>

StandardSquares == (0 .. 7) \X (0 .. 7)

StandardBoard ==
    [sq \in StandardSquares |->
        CASE sq[1] = 0 -> NewPiece(BackRank[sq[2] + 1], "Black")
          [] sq[1] = 1 -> NewPiece("Pawn", "Black")
          [] sq[1] = 6 -> NewPiece("Pawn", "White")
          [] sq[1] = 7 -> NewPiece(BackRank[sq[2] + 1], "White")
          [] OTHER -> EmptyCell]
=============================================================================

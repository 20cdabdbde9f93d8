------------------------------- MODULE MCGame -------------------------------
EXTENDS View

Row(cells) == [sq \in Squares |-> cells[sq[2] + 1]]
W(type) == NewPiece(type, "White")
B(type) == NewPiece(type, "Black")

\* One rank: rooks and a king that race, collide, jump and chase each other.
LineBoards == { Row(<<W("Rook"), EmptyCell, B("King"), B("Rook")>>),
                Row(<<W("King"), W("Rook"), EmptyCell, B("Rook")>>) }

\* A king higher than his cell, rooks with room to jump on the first row.
SomePictures == [code \in Colors \X PieceTypes |->
                    IF code[2] = "King" THEN [width |-> 90, height |-> 160]
                    ELSE [width |-> 150, height |-> 108]]
=============================================================================

------------------------------- MODULE Script -------------------------------
(***************************************************************************)
(* A text test: a board and a list of commands read from a file            *)
(* (texttests, io::BoardParser, io::BoardPrinter).  The script clicks with *)
(* the mouse like a player, but without a color, lets time pass and prints *)
(* the board.  A line of the board is a sequence of tokens, a token a      *)
(* sequence of letters.                                                    *)
(***************************************************************************)
EXTENDS Game, Controller, Sequences

CONSTANTS Inputs,      \* the boards of the scripts, as sequences of lines
          Pixels,      \* where the scripts click
          CellSize, OriginX, OriginY

ASSUME LayoutAssumption ==
    /\ CellSize \in Nat \ {0} /\ OriginX \in Nat /\ OriginY \in Nat
    /\ Pixels \subseteq Int \X Int

VARIABLES selected,    \* the selection of the controller
          result       \* what the parser said of the board

scriptVars == <<game, selected, result>>

-----------------------------------------------------------------------------
(* Boards as text *)

ColorLetters == [White |-> "w", Black |-> "b"]

TypeLetters == [King |-> "K", Queen |-> "Q", Rook |-> "R",
                Bishop |-> "B", Knight |-> "N", Pawn |-> "P"]

PieceToToken(piece) ==
    IF IsEmpty(piece) THEN <<".">>
    ELSE <<ColorLetters[piece.color], TypeLetters[piece.type]>>

\* Mutant: the ranks are printed from the bottom.
PrintedBoardFlipped(board) ==
    [r \in 1 .. Rows |-> [c \in 1 .. Cols |-> PieceToToken(board[<<Rows - r, c - 1>>])]]

PrintedBoard(board) ==
    [r \in 1 .. Rows |-> [c \in 1 .. Cols |-> PieceToToken(board[<<r - 1, c - 1>>])]]

IsValidToken(token) ==
    \/ token = <<".">>
    \/ \E color \in Colors, type \in PieceTypes : token = PieceToToken(NewPiece(type, color))

ParseToken(token) ==
    IF token = <<".">> THEN EmptyCell
    ELSE NewPiece(CHOOSE type \in PieceTypes : TypeLetters[type] = token[2],
                  CHOOSE color \in Colors : ColorLetters[color] = token[1])

\* Blank lines are skipped; the first line sets the width.
FilledLines(lines) ==
    LET filled == {i \in DOMAIN lines : lines[i] # <<>>}
        Place(i) == Cardinality({j \in filled : j <= i})
    IN  [n \in 1 .. Cardinality(filled) |-> lines[CHOOSE i \in filled : Place(i) = n]]

HasUnknownToken(line) == \E j \in DOMAIN line : ~IsValidToken(line[j])

\* The first line that is wrong decides, and its tokens are read before its
\* width is known.
ParseResult(lines) ==
    LET filled == FilledLines(lines)
        Wrong(i) == HasUnknownToken(filled[i]) \/ Len(filled[i]) # Len(filled[1])
        wrong == {i \in DOMAIN filled : Wrong(i)}
    IN  IF wrong = {} THEN "OK"
        ELSE IF HasUnknownToken(filled[Min(wrong)]) THEN "ERROR_UNKNOWN_TOKEN"
        ELSE "ERROR_ROW_WIDTH_MISMATCH"

ParsedBoard(lines) ==
    [sq \in Squares |-> ParseToken(FilledLines(lines)[sq[1] + 1][sq[2] + 1])]

EmptyBoard == [sq \in Squares |-> EmptyCell]

-----------------------------------------------------------------------------
(* ScriptRunner::run *)

\* A board that cannot be read ends the script with an error.
BoardOf(lines) == IF ParseResult(lines) = "OK" THEN ParsedBoard(lines) ELSE EmptyBoard

ASSUME ScriptAssumption == \A lines \in Inputs : BoardOf(lines) \in StartBoards

ScriptInit ==
    \E lines \in Inputs :
        /\ result = ParseResult(lines) /\ game = NewGame(BoardOf(lines))
        /\ selected = NoSelection

SquareAt(pixel) == ToPosition(pixel[1], pixel[2], OriginX, OriginY, CellSize)

Click(clicked) ==
    /\ result = "OK"
    /\ LET means == ClickMeans(game, selected, clicked, NoColor)
           accepted == means = "move" /\ CanRequestMove(game, selected, clicked)
       IN  /\ accepted => game.nextId < MaxMotions
           /\ game' = CASE means = "move" -> RequestMove(game, selected, clicked)
                        [] means = "premove" -> PremoveByClick(game, selected, clicked)
                        [] OTHER -> game
           /\ selected' = SelectionAfterClick(game, selected, clicked, NoColor, accepted)
    /\ UNCHANGED result

ClickJump(sq) ==
    /\ result = "OK" /\ JumpAsks(game, sq, NoColor)
    /\ CanRequestJump(game, sq) => game.nextId < MaxMotions
    /\ game' = RequestJump(game, sq)
    /\ selected' = SelectionAfterJump(selected, CanRequestJump(game, sq))
    /\ UNCHANGED result

Wait(ms) ==
    /\ result = "OK" /\ game.elapsed + ms <= Horizon
    /\ game' = AdvanceTime(game, ms)
    /\ UNCHANGED <<selected, result>>

\* "print board" settles what is due, then prints.
PrintBoard ==
    /\ result = "OK"
    /\ game' = AdvanceTime(game, 0)
    /\ UNCHANGED <<selected, result>>

ScriptNext ==
    \/ \E pixel \in Pixels : Click(SquareAt(pixel)) \/ ClickJump(SquareAt(pixel))
    \/ \E ms \in Frames : Wait(ms)
    \/ PrintBoard

ScriptSpec == ScriptInit /\ [][ScriptNext]_scriptVars

-----------------------------------------------------------------------------
\* Clicks can do no more than the requests of Game, and no less is asked of
\* them: a premove is queued only for a motion that set off at this very time
\* and for a square without a friend, however the selection has gone stale.
PlaysTheGame == Spec

\* Printing a board settles nothing: no frame leaves behind anything that is
\* due, so a print between two commands cannot change what a test sees next.
PrintingChangesNothing == [][PrintBoard => game' = game]_scriptVars

\* Every board that can arise in a game prints as a text that the parser reads
\* as the same placement of pieces.
PrintedBoardReadsBack ==
    LET lines == PrintedBoard(game.board)
    IN  /\ ParseResult(lines) = "OK"
        /\ ParsedBoard(lines) =
              [sq \in Squares |-> IF IsEmpty(game.board[sq]) THEN EmptyCell
                                  ELSE NewPiece(game.board[sq].type, game.board[sq].color)]
=============================================================================

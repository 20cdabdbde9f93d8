------------------------------ MODULE MCScript ------------------------------
EXTENDS Script

\* Two files, four ranks: pawns that may step once, twice, capture sideways
\* and be promoted, and a knight behind them.
PawnLines == << <<<<"b", "N">>, <<".">>>>,
                << >>,
                <<<<".">>, <<"b", "P">>>>,
                <<<<"w", "P">>, <<".">>>>,
                <<<<".">>, <<".">>>> >>

\* A token that is no piece in a line that is too long as well, and a line
\* that is too short.
UnknownToken == << <<<<".">>, <<".">>>>, <<<<".">>, <<"w", "X">>, <<".">>>> >>
ShortLine == << <<<<".">>, <<".">>>>, <<<<"w", "K">>>> >>

ScriptInputs == {PawnLines, UnknownToken, ShortLine}
ScriptBoards == {ParsedBoard(PawnLines), EmptyBoard}

\* The middle of every square, the frame around the board, and beyond it.
ScriptPixels ==
    {ToPixelCenter(sq, OriginX, OriginY, CellSize) : sq \in Squares}
        \cup {<<0, 5>>, <<OriginX + Cols * CellSize, OriginY>>}
=============================================================================

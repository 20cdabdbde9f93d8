-------------------------------- MODULE Wire --------------------------------
(***************************************************************************)
(* The messages on the WebSocket (network/protocol, io/algebraic): what is *)
(* written, and what is found again.  A text is a JSON object of one level *)
(* and is written here as the sequence of its fields.  A field is found by *)
(* searching the whole text for the quoted key, so that a string value     *)
(* that reads like the key hides a field that comes later.  Quotes inside  *)
(* a value are escaped, so a value is one string of the text.  Timestamps  *)
(* are left out: nobody reads them.                                        *)
(***************************************************************************)
EXTENDS Rules, Sequences

NoMessage == [type |-> "unknown"]
Absent == [kind |-> "absent"]
Nowhere == <<-1, -1>>
Nothing == EmptyCell

-----------------------------------------------------------------------------
(* Fields *)

Field(key, kind, value) == [key |-> key, kind |-> kind, value |-> value]

\* The key is there, as a key or as the value of a string.
ReadsLike(field, key) ==
    field.key = key \/ (field.kind = "string" /\ field.value = key)

IsFirstMatch(text, key, i) ==
    /\ ReadsLike(text[i], key)
    /\ \A j \in DOMAIN text : j < i => ~ReadsLike(text[j], key)

\* extractJsonString and extractJsonInt: the value after the first match, if
\* that match is a key and the value is of the kind asked for.
Extract(text, key, kind) ==
    IF \E i \in DOMAIN text : IsFirstMatch(text, key, i)
    THEN LET field == text[CHOOSE i \in DOMAIN text : IsFirstMatch(text, key, i)]
         IN  IF field.key = key /\ (field.kind = "number") = (kind = "number")
             THEN field ELSE Absent
    ELSE Absent

-----------------------------------------------------------------------------
(* Values: squares, pieces, colors *)

\* A file and a rank; ranks count from the bottom of a board of eight rows.
PositionToAlgebraic(pos) ==
    IF pos[1] < 0 \/ pos[2] < 0 THEN <<"?", "?">> ELSE <<pos[2], 8 - pos[1]>>

\* Mutant: the last file is not known.
AlgebraicToPositionSeven(square) ==
    IF square[1] \in 0 .. 2 /\ square[2] \in 1 .. 8
    THEN <<8 - square[2], square[1]>> ELSE Nowhere

AlgebraicToPosition(square) ==
    IF square[1] \in 0 .. 7 /\ square[2] \in 1 .. 8
    THEN <<8 - square[2], square[1]>> ELSE Nowhere

Label(piece) == <<piece.color, piece.type>>
ParsePieceLabel(label) ==
    IF label[1] \in Colors /\ label[2] \in PieceTypes
    THEN NewPiece(label[2], label[1]) ELSE Nothing

\* Every label but "black" is taken for white.
ColorLabel(color) == IF color = "White" THEN "white" ELSE "black"
ColorFromLabel(label) == IF label = "black" THEN "Black" ELSE "White"

Encode(kind, value) ==
    CASE kind = "square" -> PositionToAlgebraic(value)
      [] kind \in {"piece", "captured"} -> Label(value)
      [] kind = "color" -> ColorLabel(value)
      [] OTHER -> value

Decode(kind, value) ==
    CASE kind = "square" -> AlgebraicToPosition(value)
      [] kind \in {"piece", "captured"} -> ParsePieceLabel(value)
      [] kind = "color" -> ColorFromLabel(value)
      [] OTHER -> value

-----------------------------------------------------------------------------
(* Messages: the fields of every type, in the order they are written *)

ClientLayout ==
    [login |-> <<<<"username", "string">>>>,
     move |-> <<<<"from", "square">>, <<"to", "square">>>>,
     jump |-> <<<<"square", "square">>>>,
     join_queue |-> << >>,
     leave_queue |-> << >>]

LobbyLayout ==
    [login_ok |-> <<<<"color", "string">>>>,
     error |-> <<<<"message", "string">>>>,
     queue_joined |-> << >>,
     queue_left |-> << >>,
     queue_timeout |-> <<<<"message", "string">>>>,
     match_found |-> <<<<"color", "color">>, <<"opponent", "string">>, <<"port", "number">>>>,
     player_disconnected |-> <<<<"username", "string">>, <<"color", "color">>,
                               <<"grace_seconds", "number">>>>,
     player_reconnected |-> <<<<"username", "string">>>>]

GameLayout ==
    [game_started |-> <<<<"white", "string">>, <<"black", "string">>, <<"port", "number">>>>,
     move_started |-> <<<<"piece", "piece">>, <<"from", "square">>, <<"to", "square">>>>,
     jump_started |-> <<<<"piece", "piece">>, <<"square", "square">>>>,
     move_completed |-> <<<<"piece", "piece">>, <<"from", "square">>, <<"to", "square">>,
                          <<"captured", "captured">>>>,
     jump_capture |-> <<<<"jumper", "piece">>, <<"victim", "piece">>,
                        <<"jump_square", "square">>, <<"victim_from", "square">>,
                        <<"victim_to", "square">>>>,
     game_ended |-> <<<<"winner", "color">>>>]

Layouts == {ClientLayout, LobbyLayout, GameLayout}

\* The layouts of the three files share no type.
LayoutOf(type) ==
    IF type \in DOMAIN ClientLayout THEN ClientLayout[type]
    ELSE IF type \in DOMAIN LobbyLayout THEN LobbyLayout[type]
    ELSE GameLayout[type]

Types == UNION {DOMAIN layout : layout \in Layouts}

IsWritten(m, part) == part[2] = "captured" => ~IsEmpty(m[part[1]])

WrittenField(m, part) ==
    Field(part[1], IF part[2] = "number" THEN "number"
                   ELSE IF part[2] \in {"string", "color"} THEN "string"
                   ELSE "code",
          Encode(part[2], m[part[1]]))

\* The type and the fields; only the last one may be left out.
Serialized(m) ==
    LET parts == LayoutOf(m.type)
        last == Len(parts)
        count == IF last > 0 /\ ~IsWritten(m, parts[last]) THEN last - 1 ELSE last
    IN  <<Field("type", "string", m.type)>> \o [i \in 1 .. count |-> WrittenField(m, parts[i])]

Found(text, part) == Extract(text, part[1], part[2]) # Absent
ValueOf(text, part) == Decode(part[2], Extract(text, part[1], part[2]).value)

\* A field that is missing or cannot be read loses the message; a captured
\* piece may be missing.
IsLost(text, part) ==
    \/ ~Found(text, part) /\ part[2] # "captured"
    \/ part[2] = "square" /\ ValueOf(text, part) = Nowhere
    \/ part[2] = "piece" /\ ValueOf(text, part) = Nothing

\* parseClientMessage, parseServerGameEvent and the parsers of lobby messages.
Parsed(text) ==
    LET type == Extract(text, "type", "string").value
        parts == LayoutOf(type)
        keys == {parts[i][1] : i \in DOMAIN parts}
        PartOf(key) == parts[CHOOSE i \in DOMAIN parts : parts[i][1] = key]
        Read(key) == IF Found(text, PartOf(key)) THEN ValueOf(text, PartOf(key)) ELSE Nothing
    IN  IF Extract(text, "type", "string") = Absent \/ type \notin Types THEN NoMessage
        ELSE IF \E i \in DOMAIN parts : IsLost(text, parts[i]) THEN NoMessage
        ELSE [key \in keys \cup {"type"} |-> IF key = "type" THEN type ELSE Read(key)]

\* What the other side makes of a message.
Received(m) == Parsed(Serialized(m))
=============================================================================

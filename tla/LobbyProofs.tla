---------------------------- MODULE LobbyProofs ----------------------------
(***************************************************************************)
(* What MatchFound tells a player agrees with the seat the server gives    *)
(* him, proved of Lobby for any number of processes and matches, any       *)
(* names, ratings, range, timeout and user database.  Whoever was told of  *)
(* a match never asks for another (TokenSound), so the seat that comes     *)
(* with it is his last, and no later match gives it another color          *)
(* (TellsColor).                                                           *)
(***************************************************************************)
EXTENDS Lobby, SessionLemmas, SequenceTheorems

-----------------------------------------------------------------------------
(* Messages *)

KeysOf(parts) == {parts[i][1] : i \in DOMAIN parts}

\* A message without squares and pieces: its fields are those of its layout.
Plain(m, parts) ==
    /\ m.type \in W!Types /\ W!LayoutOf(m.type) = parts
    /\ Len(parts) \in Nat /\ DOMAIN parts = 1 .. Len(parts)
    /\ \A i \in DOMAIN parts : /\ parts[i][2] \in {"string", "number", "color"}
                               /\ parts[i][2] = "color" => m[parts[i][1]] \in Colors
    /\ \A i, j \in DOMAIN parts : parts[i][1] = parts[j][1] => i = j
    /\ "type" \notin KeysOf(parts)
    /\ m = [key \in KeysOf(parts) \cup {"type"} |-> m[key]]

\* What the server of a lobby sends.
Rosters == [white : Users \cup {NoUser}, black : Users \cup {NoUser}]

Messages ==
    {LoginOk(label) : label \in {"none", "white", "black"}}
    \cup {UnknownUsername, NotAccepted, NotNow, QueueJoined, QueueTimedOut}
    \cup {MatchFound(color, u) : color \in Colors, u \in Users}
    \cup {GameStarted(roster) : roster \in Rosters}
    \cup {GameEnded(color) : color \in Colors}
    \cup {PlayerDisconnected(u, color) : u \in Users, color \in Colors}
    \cup {PlayerReconnected(u) : u \in Users}

\* A sequence with one more element in front.
LEMMA Prefixed ==
    ASSUME NEW T, NEW e \in T, NEW r \in Seq(T)
    PROVE  LET s == <<e>> \o r
           IN  /\ DOMAIN s = 1 .. Len(r) + 1 /\ s[1] = e
               /\ \A i \in 1 .. Len(r) : s[i + 1] = r[i]
<1>. DEFINE s == <<e>> \o r
<1>1. <<e>> \in Seq(T) /\ Len(<<e>>) = 1
  OBVIOUS
<1>2. Len(s) = 1 + Len(r) /\ s \in Seq(T)
  BY <1>1
<1>3. s[1] = e
  OBVIOUS
<1>4. ASSUME NEW i \in 1 .. Len(r) PROVE s[i + 1] = r[i]
  <2>1. i + 1 > 1 /\ i + 1 <= 1 + Len(r) /\ (i + 1) - 1 = i
    OBVIOUS
  <2>. QED  BY <1>1, <2>1
<1>. QED  BY <1>2, <1>3, <1>4

\* The fields of the text of a plain message, and where they are.
LEMMA PlainText ==
    ASSUME NEW m, NEW parts, Plain(m, parts)
    PROVE  LET text == W!Serialized(m)
           IN  /\ DOMAIN text = 1 .. Len(parts) + 1
               /\ text[1] = W!Field("type", "string", m.type)
               /\ \A i \in 1 .. Len(parts) : text[i + 1] = W!WrittenField(m, parts[i])
<1>. DEFINE n == Len(parts)
            first == W!Field("type", "string", m.type)
            field(i) == W!WrittenField(m, parts[i])
            rest == [i \in 1 .. n |-> field(i)]
            text == <<first>> \o rest
<1>1. n \in Nat /\ DOMAIN parts = 1 .. n
  BY DEF Plain
<1>2. \A i \in 1 .. n : W!IsWritten(m, parts[i])
  BY <1>1 DEF Plain, W!IsWritten
<1>3. W!Serialized(m) = text
  <2>1. (IF n > 0 /\ ~W!IsWritten(m, parts[n]) THEN n - 1 ELSE n) = n
    <3>1. n > 0 => n \in 1 .. n
      BY <1>1
    <3>2. ~ (n > 0 /\ ~W!IsWritten(m, parts[n]))
      BY <1>2, <3>1, Zenon
    <3>. QED  BY <3>2, Zenon
  <2>2. W!LayoutOf(m.type) = parts
    BY DEF Plain
  <2>. QED  BY <2>1, <2>2, Zenon DEF W!Serialized
<1>. HIDE DEF first, field
<1>5. PICK T : first \in T /\ \A i \in 1 .. n : field(i) \in T
  <2>1. /\ first \in {first} \cup {field(j) : j \in 1 .. n}
        /\ \A i \in 1 .. n : field(i) \in {first} \cup {field(j) : j \in 1 .. n}
    OBVIOUS
  <2>. QED  BY <2>1
<1>6. rest \in Seq(T) /\ Len(rest) = n
  BY <1>1, <1>5
<1>7. \A i \in 1 .. n : rest[i] = field(i)
  OBVIOUS
<1>. HIDE DEF rest
<1>8. /\ DOMAIN text = 1 .. n + 1 /\ text[1] = first
      /\ \A i \in 1 .. n : text[i + 1] = rest[i]
  BY <1>5, <1>6, Prefixed
<1>. HIDE DEF text
<1>. QED  BY <1>3, <1>7, <1>8 DEF first, field

\* A search finds a field, or nothing.
LEMMA ExtractFinds ==
    ASSUME NEW text, NEW key, NEW kind
    PROVE  \/ W!Extract(text, key, kind) = W!Absent
           \/ \E i \in DOMAIN text : /\ W!Extract(text, key, kind) = text[i]
                                     /\ text[i].key = key
<1>1. CASE \E i \in DOMAIN text : W!IsFirstMatch(text, key, i)
  <2>. DEFINE n == CHOOSE i \in DOMAIN text : W!IsFirstMatch(text, key, i)
  <2>1. n \in DOMAIN text
    BY <1>1
  <2>2. W!Extract(text, key, kind)
          = IF text[n].key = key /\ (text[n].kind = "number") = (kind = "number")
            THEN text[n] ELSE W!Absent
    BY <1>1 DEF W!Extract
  <2>. QED  BY <2>1, <2>2
<1>2. CASE ~ \E i \in DOMAIN text : W!IsFirstMatch(text, key, i)
  BY <1>2 DEF W!Extract
<1>. QED  BY <1>1, <1>2

\* The type of a text is its first field.
LEMMA TypeFound ==
    ASSUME NEW m, NEW parts, Plain(m, parts)
    PROVE  LET text == W!Serialized(m)
           IN  /\ W!Extract(text, "type", "string") # W!Absent
               /\ W!Extract(text, "type", "string").value = m.type
<1>1. PICK text : text = W!Serialized(m)
  OBVIOUS
<1>2. /\ DOMAIN text = 1 .. Len(parts) + 1 /\ Len(parts) \in Nat
      /\ text[1] = W!Field("type", "string", m.type)
  BY <1>1, PlainText DEF Plain
<1>3. text[1].key = "type" /\ text[1].kind = "string" /\ text[1].value = m.type
  BY <1>2 DEF W!Field
<1>4. 1 \in DOMAIN text /\ \A j \in DOMAIN text : ~ (j < 1)
  BY <1>2
<1>5. W!IsFirstMatch(text, "type", 1)
  BY <1>3, <1>4 DEF W!IsFirstMatch, W!ReadsLike
<1>6. \A i \in DOMAIN text : W!IsFirstMatch(text, "type", i) => i = 1
  <2>1. \A i \in DOMAIN text : i = 1 \/ 1 < i
    BY <1>2
  <2>2. W!ReadsLike(text[1], "type")
    BY <1>3 DEF W!ReadsLike
  <2>. QED  BY <1>4, <2>1, <2>2 DEF W!IsFirstMatch
<1>7. (CHOOSE i \in DOMAIN text : W!IsFirstMatch(text, "type", i)) = 1
  BY <1>4, <1>5, <1>6
<1>8. W!Extract(text, "type", "string") = text[1]
  BY <1>3, <1>4, <1>5, <1>7 DEF W!Extract
<1>9. text[1] # W!Absent
  BY <1>2 DEF W!Field, W!Absent
<1>. QED  BY <1>1, <1>3, <1>8, <1>9

\* A plain message arrives as it was, or is lost: a name that reads like a key
\* hides a field, but no field is taken for another.
LEMMA PlainReceived ==
    ASSUME NEW m, NEW parts, Plain(m, parts)
    PROVE  W!Received(m) = m \/ W!Received(m) = W!NoMessage
<1>1. PICK text : text = W!Serialized(m)
  OBVIOUS
<1>2. /\ W!Extract(text, "type", "string") # W!Absent
      /\ W!Extract(text, "type", "string").value = m.type
  BY <1>1, TypeFound
<1>3. /\ DOMAIN text = 1 .. Len(parts) + 1 /\ text[1].key = "type"
      /\ \A i \in 1 .. Len(parts) : text[i + 1] = W!WrittenField(m, parts[i])
      /\ Len(parts) \in Nat /\ DOMAIN parts = 1 .. Len(parts)
  <2>1. /\ DOMAIN text = 1 .. Len(parts) + 1
        /\ text[1] = W!Field("type", "string", m.type)
        /\ \A i \in 1 .. Len(parts) : text[i + 1] = W!WrittenField(m, parts[i])
    BY <1>1, PlainText
  <2>2. text[1].key = "type"
    BY <2>1 DEF W!Field
  <2>. QED  BY <2>1, <2>2 DEF Plain
<1>4. ASSUME NEW i \in DOMAIN parts, ~ W!IsLost(text, parts[i])
      PROVE  W!Found(text, parts[i]) /\ W!ValueOf(text, parts[i]) = m[parts[i][1]]
  <2>. DEFINE kind == parts[i][2]
              value == m[parts[i][1]]
              found == W!Extract(text, parts[i][1], kind)
  <2>1. kind \in {"string", "number", "color"} /\ (kind = "color" => value \in Colors)
    BY DEF Plain
  <2>2. W!Found(text, parts[i])
    BY <1>4, <2>1 DEF W!IsLost
  <2>3. PICK j \in DOMAIN text : found = text[j] /\ text[j].key = parts[i][1]
    BY <2>2, ExtractFinds DEF W!Found
  <2>4. j # 1
    <3>1. parts[i][1] # "type"
      BY DEF Plain, KeysOf
    <3>. QED  BY <1>3, <2>3, <3>1
  <2>5. j - 1 \in DOMAIN parts /\ (j - 1) + 1 = j
    BY <1>3, <2>4
  <2>6. text[j] = W!WrittenField(m, parts[j - 1])
    BY <1>3, <2>5
  <2>7. text[j].key = parts[j - 1][1]
    BY <2>6 DEF W!WrittenField, W!Field
  <2>8. j - 1 = i
    BY <2>3, <2>5, <2>7 DEF Plain
  <2>9. found = W!WrittenField(m, parts[i])
    BY <2>3, <2>6, <2>8
  <2>10. found.value = W!Encode(kind, value)
    BY <2>9 DEF W!WrittenField, W!Field
  <2>11. W!ValueOf(text, parts[i]) = W!Decode(kind, W!Encode(kind, value))
    BY <2>10 DEF W!ValueOf
  <2>12. W!Decode(kind, W!Encode(kind, value)) = value
    <3>1. CASE kind = "color"
      <4>1. value = "White" \/ value = "Black"
        BY <2>1, <3>1 DEF Colors
      <4>2. W!Decode(kind, W!Encode(kind, value)) = W!ColorFromLabel(W!ColorLabel(value))
        BY <3>1 DEF W!Decode, W!Encode
      <4>. QED  BY <4>1, <4>2 DEF W!ColorFromLabel, W!ColorLabel
    <3>2. CASE kind # "color"
      BY <2>1, <3>2 DEF W!Decode, W!Encode
    <3>. QED  BY <3>1, <3>2
  <2>. QED  BY <2>2, <2>11, <2>12
<1>5. m.type \in W!Types /\ W!LayoutOf(m.type) = parts
  BY DEF Plain
<1>6. CASE \E i \in DOMAIN parts : W!IsLost(text, parts[i])
  BY <1>1, <1>2, <1>5, <1>6 DEF W!Received, W!Parsed
<1>7. CASE ~ \E i \in DOMAIN parts : W!IsLost(text, parts[i])
  <2>. DEFINE keys == {parts[i][1] : i \in DOMAIN parts}
              PartOf(key) == parts[CHOOSE i \in DOMAIN parts : parts[i][1] = key]
              Read(key) == IF W!Found(text, PartOf(key)) THEN W!ValueOf(text, PartOf(key))
                           ELSE W!Nothing
              back == [key \in keys \cup {"type"} |-> IF key = "type" THEN m.type ELSE Read(key)]
  <2>1. W!Received(m) = back
    BY <1>1, <1>2, <1>5, <1>7 DEF W!Received, W!Parsed
  <2>2. ASSUME NEW key \in keys PROVE Read(key) = m[key]
    <3>1. PICK i \in DOMAIN parts : parts[i][1] = key
      OBVIOUS
    <3>2. (CHOOSE j \in DOMAIN parts : parts[j][1] = key) = i
      <4>1. \A j \in DOMAIN parts : parts[j][1] = key <=> j = i
        BY <3>1 DEF Plain
      <4>. QED  BY <4>1
    <3>3. PartOf(key) = parts[i]
      BY <3>2
    <3>. HIDE DEF PartOf
    <3>. QED  BY <1>4, <1>7, <3>1, <3>3
  <2>3. keys = KeysOf(parts) /\ "type" \notin KeysOf(parts)
    BY DEF KeysOf, Plain
  <2>. HIDE DEF keys, Read
  <2>4. \A key \in keys \cup {"type"} : (IF key = "type" THEN m.type ELSE Read(key)) = m[key]
    BY <2>2, <2>3
  <2>5. back = [key \in keys \cup {"type"} |-> m[key]]
    BY <2>4
  <2>6. m = [key \in KeysOf(parts) \cup {"type"} |-> m[key]]
    BY DEF Plain
  <2>. QED  BY <2>1, <2>3, <2>5, <2>6
<1>. QED  BY <1>6, <1>7

\* The layouts of these messages.
LEMMA LobbyLayouts ==
    /\ W!LayoutOf("login_ok") = <<<<"color", "string">>>>
    /\ W!LayoutOf("error") = <<<<"message", "string">>>>
    /\ W!LayoutOf("queue_joined") = << >>
    /\ W!LayoutOf("queue_timeout") = <<<<"message", "string">>>>
    /\ W!LayoutOf("match_found")
         = <<<<"color", "color">>, <<"opponent", "string">>, <<"port", "number">>>>
    /\ W!LayoutOf("player_disconnected")
         = <<<<"username", "string">>, <<"color", "color">>, <<"grace_seconds", "number">>>>
    /\ W!LayoutOf("player_reconnected") = <<<<"username", "string">>>>
    /\ W!LayoutOf("game_started")
         = <<<<"white", "string">>, <<"black", "string">>, <<"port", "number">>>>
    /\ W!LayoutOf("game_ended") = <<<<"winner", "color">>>>
    /\ {"login_ok", "error", "queue_joined", "queue_timeout", "match_found", "player_disconnected",
        "player_reconnected", "game_started", "game_ended"} \subseteq W!Types
BY DEF W!Types, W!Layouts, W!LayoutOf, W!ClientLayout, W!LobbyLayout, W!GameLayout

\* A message of no field, of one field and of three fields is plain.
LEMMA PlainNone ==
    ASSUME NEW m, m.type \in W!Types, W!LayoutOf(m.type) = << >>, m = [type |-> m.type]
    PROVE  \E parts : Plain(m, parts)
<1>1. KeysOf(<< >>) = {}
  BY DEF KeysOf
<1>2. Len(<< >>) = 0 /\ DOMAIN << >> = {} /\ 1 .. 0 = {}
  OBVIOUS
<1>3. m = [key \in {"type"} |-> m[key]]
  OBVIOUS
<1>. QED  BY <1>1, <1>2, <1>3 DEF Plain

LEMMA PlainOne ==
    ASSUME NEW m, NEW key, NEW kind, key # "type",
           m.type \in W!Types, W!LayoutOf(m.type) = <<<<key, kind>>>>,
           DOMAIN m = {key, "type"}, m = [k \in DOMAIN m |-> m[k]],
           kind \in {"string", "color"}, kind = "color" => m[key] \in Colors
    PROVE  \E parts : Plain(m, parts)
<1>. DEFINE parts == <<<<key, kind>>>>
<1>1. /\ Len(parts) = 1 /\ DOMAIN parts = {1} /\ 1 .. 1 = {1}
      /\ parts[1][1] = key /\ parts[1][2] = kind
  OBVIOUS
<1>2. W!LayoutOf(m.type) = parts
  OBVIOUS
<1>. HIDE DEF parts
<1>3. KeysOf(parts) = {key}
  BY <1>1 DEF KeysOf
<1>4. m = [k \in KeysOf(parts) \cup {"type"} |-> m[k]]
  <2>1. KeysOf(parts) \cup {"type"} = DOMAIN m
    BY <1>3
  <2>. QED  BY <2>1
<1>5. Plain(m, parts)
  BY <1>1, <1>2, <1>3, <1>4 DEF Plain
<1>. QED  BY <1>5

LEMMA PlainThree ==
    ASSUME NEW m, NEW key1, NEW kind1, NEW key2, NEW kind2, NEW key3,
           "type" \notin {key1, key2, key3}, key1 # key2, key1 # key3, key2 # key3,
           m.type \in W!Types,
           W!LayoutOf(m.type) = <<<<key1, kind1>>, <<key2, kind2>>, <<key3, "number">>>>,
           DOMAIN m = {key1, key2, key3, "type"}, m = [k \in DOMAIN m |-> m[k]],
           kind1 \in {"string", "color"}, kind1 = "color" => m[key1] \in Colors,
           kind2 \in {"string", "color"}, kind2 = "color" => m[key2] \in Colors
    PROVE  \E parts : Plain(m, parts)
<1>. DEFINE parts == <<<<key1, kind1>>, <<key2, kind2>>, <<key3, "number">>>>
<1>1. /\ Len(parts) = 3 /\ DOMAIN parts = {1, 2, 3} /\ 1 .. 3 = {1, 2, 3}
      /\ parts[1][1] = key1 /\ parts[1][2] = kind1
      /\ parts[2][1] = key2 /\ parts[2][2] = kind2
      /\ parts[3][1] = key3 /\ parts[3][2] = "number"
  OBVIOUS
<1>2. W!LayoutOf(m.type) = parts
  OBVIOUS
<1>. HIDE DEF parts
<1>3. KeysOf(parts) = {key1, key2, key3}
  BY <1>1 DEF KeysOf
<1>4. m = [k \in KeysOf(parts) \cup {"type"} |-> m[k]]
  <2>1. KeysOf(parts) \cup {"type"} = DOMAIN m
    BY <1>3
  <2>. QED  BY <2>1
<1>5. \A i, j \in DOMAIN parts : parts[i][1] = parts[j][1] => i = j
  BY <1>1
<1>6. \A i \in DOMAIN parts : /\ parts[i][2] \in {"string", "number", "color"}
                              /\ parts[i][2] = "color" => m[parts[i][1]] \in Colors
  BY <1>1
<1>7. Plain(m, parts)
  BY <1>1, <1>2, <1>3, <1>4, <1>5, <1>6 DEF Plain
<1>. QED  BY <1>7

\* Whatever the server sends arrives as it was, or is lost.
LEMMA MessageReceived ==
    ASSUME NEW m \in Messages
    PROVE  W!Received(m) \in {m, W!NoMessage}
<1>. SUFFICES \E parts : Plain(m, parts)
  BY PlainReceived
<1>1. CASE \E label \in {"none", "white", "black"} : m = LoginOk(label)
  <2>0. PICK label \in {"none", "white", "black"} : m = LoginOk(label)
    BY <1>1
  <2>1. m.type = "login_ok" /\ DOMAIN m = {"color", "type"}
    BY <2>0 DEF LoginOk
  <2>2. m = [k \in DOMAIN m |-> m[k]]
    BY <2>0 DEF LoginOk
  <2>3. m.type \in W!Types /\ W!LayoutOf(m.type) = <<<<"color", "string">>>>
    BY <2>1, LobbyLayouts, Zenon
  <2>5. PICK key, kind : key = "color" /\ kind = "string"
    OBVIOUS
  <2>6. /\ key # "type" /\ W!LayoutOf(m.type) = <<<<key, kind>>>> /\ DOMAIN m = {key, "type"}
        /\ kind \in {"string", "color"} /\ (kind = "color" => m[key] \in Colors)
    BY <2>1, <2>3, <2>5
  <2>. QED  BY <2>2, <2>3, <2>6, PlainOne
<1>2. CASE m \in {UnknownUsername, NotAccepted, NotNow}
  <2>0. PICK text : m = Error(text)
    BY <1>2, Zenon DEF UnknownUsername, NotAccepted, NotNow
  <2>1. m.type = "error" /\ DOMAIN m = {"message", "type"}
    BY <2>0 DEF Error
  <2>2. m = [k \in DOMAIN m |-> m[k]]
    BY <2>0 DEF Error
  <2>3. m.type \in W!Types /\ W!LayoutOf(m.type) = <<<<"message", "string">>>>
    BY <2>1, LobbyLayouts, Zenon
  <2>5. PICK key, kind : key = "message" /\ kind = "string"
    OBVIOUS
  <2>6. /\ key # "type" /\ W!LayoutOf(m.type) = <<<<key, kind>>>> /\ DOMAIN m = {key, "type"}
        /\ kind \in {"string", "color"} /\ (kind = "color" => m[key] \in Colors)
    BY <2>1, <2>3, <2>5
  <2>. QED  BY <2>2, <2>3, <2>6, PlainOne
<1>3. CASE m = QueueJoined
  <2>1. m.type = "queue_joined" /\ DOMAIN m = {"type"}
    BY <1>3 DEF QueueJoined
  <2>2. m = [type |-> m.type]
    BY <1>3 DEF QueueJoined
  <2>3. m.type \in W!Types /\ W!LayoutOf(m.type) = << >>
    BY <2>1, LobbyLayouts, Zenon
  <2>. QED  BY <2>2, <2>3, PlainNone
<1>4. CASE m = QueueTimedOut
  <2>0. PICK text : m = [type |-> "queue_timeout", message |-> text]
    BY <1>4, Zenon DEF QueueTimedOut
  <2>1. m.type = "queue_timeout" /\ DOMAIN m = {"message", "type"}
    BY <2>0
  <2>2. m = [k \in DOMAIN m |-> m[k]]
    BY <2>0
  <2>3. m.type \in W!Types /\ W!LayoutOf(m.type) = <<<<"message", "string">>>>
    BY <2>1, LobbyLayouts, Zenon
  <2>5. PICK key, kind : key = "message" /\ kind = "string"
    OBVIOUS
  <2>6. /\ key # "type" /\ W!LayoutOf(m.type) = <<<<key, kind>>>> /\ DOMAIN m = {key, "type"}
        /\ kind \in {"string", "color"} /\ (kind = "color" => m[key] \in Colors)
    BY <2>1, <2>3, <2>5
  <2>. QED  BY <2>2, <2>3, <2>6, PlainOne
<1>5. CASE \E color \in Colors, u \in Users : m = MatchFound(color, u)
  <2>0. PICK color \in Colors, u \in Users : m = MatchFound(color, u)
    BY <1>5
  <2>1. m.type = "match_found" /\ DOMAIN m = {"color", "opponent", "port", "type"}
    BY <2>0 DEF MatchFound
  <2>2. m = [k \in DOMAIN m |-> m[k]]
    BY <2>0 DEF MatchFound
  <2>3. m.type \in W!Types /\ W!LayoutOf(m.type) = <<<<"color", "color">>, <<"opponent", "string">>, <<"port", "number">>>>
    BY <2>1, LobbyLayouts, Zenon
  <2>4. m["color"] \in Colors
    BY <2>0 DEF MatchFound
  <2>5. PICK key1, kind1, key2, kind2, key3 :
           /\ key1 = "color" /\ kind1 = "color" /\ key2 = "opponent" /\ kind2 = "string" /\ key3 = "port"
    OBVIOUS
  <2>6. /\ "type" \notin {key1, key2, key3} /\ key1 # key2 /\ key1 # key3 /\ key2 # key3
        /\ W!LayoutOf(m.type) = <<<<key1, kind1>>, <<key2, kind2>>, <<key3, "number">>>>
        /\ DOMAIN m = {key1, key2, key3, "type"}
        /\ kind1 \in {"string", "color"} /\ (kind1 = "color" => m[key1] \in Colors)
        /\ kind2 \in {"string", "color"} /\ (kind2 = "color" => m[key2] \in Colors)
    BY <2>1, <2>3, <2>5, <2>4
  <2>. QED  BY <2>2, <2>3, <2>6, PlainThree
<1>6. CASE \E roster \in Rosters : m = GameStarted(roster)
  <2>0. PICK roster \in Rosters : m = GameStarted(roster)
    BY <1>6
  <2>1. m.type = "game_started" /\ DOMAIN m = {"white", "black", "port", "type"}
    BY <2>0 DEF GameStarted
  <2>2. m = [k \in DOMAIN m |-> m[k]]
    BY <2>0 DEF GameStarted
  <2>3. m.type \in W!Types /\ W!LayoutOf(m.type) = <<<<"white", "string">>, <<"black", "string">>, <<"port", "number">>>>
    BY <2>1, LobbyLayouts, Zenon
  <2>5. PICK key1, kind1, key2, kind2, key3 :
           /\ key1 = "white" /\ kind1 = "string" /\ key2 = "black" /\ kind2 = "string" /\ key3 = "port"
    OBVIOUS
  <2>6. /\ "type" \notin {key1, key2, key3} /\ key1 # key2 /\ key1 # key3 /\ key2 # key3
        /\ W!LayoutOf(m.type) = <<<<key1, kind1>>, <<key2, kind2>>, <<key3, "number">>>>
        /\ DOMAIN m = {key1, key2, key3, "type"}
        /\ kind1 \in {"string", "color"} /\ (kind1 = "color" => m[key1] \in Colors)
        /\ kind2 \in {"string", "color"} /\ (kind2 = "color" => m[key2] \in Colors)
    BY <2>1, <2>3, <2>5
  <2>. QED  BY <2>2, <2>3, <2>6, PlainThree
<1>7. CASE \E color \in Colors : m = GameEnded(color)
  <2>0. PICK color \in Colors : m = GameEnded(color)
    BY <1>7
  <2>1. m.type = "game_ended" /\ DOMAIN m = {"winner", "type"}
    BY <2>0 DEF GameEnded
  <2>2. m = [k \in DOMAIN m |-> m[k]]
    BY <2>0 DEF GameEnded
  <2>3. m.type \in W!Types /\ W!LayoutOf(m.type) = <<<<"winner", "color">>>>
    BY <2>1, LobbyLayouts, Zenon
  <2>4. m["winner"] \in Colors
    BY <2>0 DEF GameEnded
  <2>5. PICK key, kind : key = "winner" /\ kind = "color"
    OBVIOUS
  <2>6. /\ key # "type" /\ W!LayoutOf(m.type) = <<<<key, kind>>>> /\ DOMAIN m = {key, "type"}
        /\ kind \in {"string", "color"} /\ (kind = "color" => m[key] \in Colors)
    BY <2>1, <2>3, <2>5, <2>4
  <2>. QED  BY <2>2, <2>3, <2>6, PlainOne
<1>8. CASE \E u \in Users, color \in Colors : m = PlayerDisconnected(u, color)
  <2>0. PICK u \in Users, color \in Colors : m = PlayerDisconnected(u, color)
    BY <1>8
  <2>1. m.type = "player_disconnected" /\ DOMAIN m = {"username", "color", "grace_seconds", "type"}
    BY <2>0 DEF PlayerDisconnected
  <2>2. m = [k \in DOMAIN m |-> m[k]]
    BY <2>0 DEF PlayerDisconnected
  <2>3. m.type \in W!Types /\ W!LayoutOf(m.type) = <<<<"username", "string">>, <<"color", "color">>, <<"grace_seconds", "number">>>>
    BY <2>1, LobbyLayouts, Zenon
  <2>4. m["color"] \in Colors
    BY <2>0 DEF PlayerDisconnected
  <2>5. PICK key1, kind1, key2, kind2, key3 :
           /\ key1 = "username" /\ kind1 = "string" /\ key2 = "color" /\ kind2 = "color" /\ key3 = "grace_seconds"
    OBVIOUS
  <2>6. /\ "type" \notin {key1, key2, key3} /\ key1 # key2 /\ key1 # key3 /\ key2 # key3
        /\ W!LayoutOf(m.type) = <<<<key1, kind1>>, <<key2, kind2>>, <<key3, "number">>>>
        /\ DOMAIN m = {key1, key2, key3, "type"}
        /\ kind1 \in {"string", "color"} /\ (kind1 = "color" => m[key1] \in Colors)
        /\ kind2 \in {"string", "color"} /\ (kind2 = "color" => m[key2] \in Colors)
    BY <2>1, <2>3, <2>5, <2>4
  <2>. QED  BY <2>2, <2>3, <2>6, PlainThree
<1>9. CASE \E u \in Users : m = PlayerReconnected(u)
  <2>0. PICK u \in Users : m = PlayerReconnected(u)
    BY <1>9
  <2>1. m.type = "player_reconnected" /\ DOMAIN m = {"username", "type"}
    BY <2>0 DEF PlayerReconnected
  <2>2. m = [k \in DOMAIN m |-> m[k]]
    BY <2>0 DEF PlayerReconnected
  <2>3. m.type \in W!Types /\ W!LayoutOf(m.type) = <<<<"username", "string">>>>
    BY <2>1, LobbyLayouts, Zenon
  <2>5. PICK key, kind : key = "username" /\ kind = "string"
    OBVIOUS
  <2>6. /\ key # "type" /\ W!LayoutOf(m.type) = <<<<key, kind>>>> /\ DOMAIN m = {key, "type"}
        /\ kind \in {"string", "color"} /\ (kind = "color" => m[key] \in Colors)
    BY <2>1, <2>3, <2>5
  <2>. QED  BY <2>2, <2>3, <2>6, PlainOne
<1>. QED
  <2>1. m \in Messages
    OBVIOUS
  <2>. QED  BY <2>1, <1>1, <1>2, <1>3, <1>4, <1>5, <1>6, <1>7, <1>8, <1>9 DEF Messages

-----------------------------------------------------------------------------
(* The inductive invariant *)

Stages == {"off", "login", "lobby", "leaving", "game", "over", "gone"}
Statuses == {"Idle", "Searching", "Matched", "Error"}
Infos == [color : Colors \cup {NoColor}, opponent : Users \cup {NoUser},
          white : Users \cup {NoUser}, black : Users \cup {NoUser}]
Names == {ReadPlayerCredentials(lines).username : lines \in Typed} \cup {NoUser}
Processes == [at : Stages, user : Names, status : Statuses, info : Infos]

\* What a process may have under way to the server: it logs in, and asks again
\* only when it was answered.
Open == {<< >>, <<"login">>, <<"join_queue">>}
Outboxes == Open \cup {<<"close">>, <<"login", "close">>, <<"join_queue", "close">>}

TypeInv ==
    /\ session \in SessionState /\ queue \in Fair
    /\ grace \in [Users -> Colors \cup {NoColor}]
    /\ IsStore(store, Users)
    /\ host \in Connections \cup {NoConnection} /\ linked \in SUBSET Connections
    /\ client \in [Connections -> Processes]
    /\ inbox \in [Connections -> Seq(Messages)]
    /\ outbox \in [Connections -> Outboxes]

\* Without a host there is no server; the host is a process that runs; the server
\* has the names its connections logged in with, and knows who waits.
LinkSound(c) ==
    /\ At(c, "off") => client[c] = Process /\ c \notin linked
    /\ client[c].at \in {"off", "gone"} => inbox[c] = << >>
    /\ c \notin linked => /\ outbox[c] = << >>
                          /\ session.users[c] = NoUser /\ session.colors[c] = NoColor
    /\ outbox[c] \in Open \/ At(c, "gone")
    /\ session.users[c] \in {NoUser, client[c].user}
    /\ At(c, "login") => client[c].status = "Idle" /\ client[c].info = NoInfo
    /\ Waiting(queue, c) => c \in linked /\ session.colors[c] = NoColor

LinksSound ==
    /\ host = NoConnection => linked = {} /\ queue = << >> /\ session = EmptySession
                              /\ grace = NoGrace
    /\ host # NoConnection => host \in linked /\ client[host].at \notin {"off", "gone"}
    /\ \A c \in Connections : LinkSound(c)
    /\ \A i \in DOMAIN queue : queue[i].user = client[queue[i].conn].user

\* What a box of messages holds.
Holds(box, type) == \E i \in DOMAIN box : box[i].type = type
Enables(m) == m.type \in {"error", "queue_timeout"}
Enabling(box) == \E i \in DOMAIN box : Enables(box[i])
OneEnabling(box) == \A i, j \in DOMAIN box : Enables(box[i]) /\ Enables(box[j]) => i = j

\* What is under way to the server.
Asks(out) == out \in {<<"join_queue">>, <<"join_queue", "close">>}
LogsIn(out) == out \in {<<"login">>, <<"login", "close">>}

Clickable(p) == p.status \in {"Idle", "Error"}

\* A process was told of its match, or will be: MatchFound is on its way, or its
\* lobby has read it.
IsTold(p, box) == Holds(box, "match_found") \/ (p.at = "lobby" /\ p.info # NoInfo)

\* A process asks for a match once at a time: it asks, or waits, or has a message
\* under way that lets it ask again, or may click.  Who was told of his match does
\* not ask again.
TokenSound(p, box, out, waits) ==
    /\ ~ (Asks(out) /\ waits)
    /\ Asks(out) \/ waits => p.at \notin {"off", "login"}
    /\ LogsIn(out) => /\ ~ waits /\ p.at \in {"login", "gone"}
                      /\ ~ Holds(box, "login_ok") /\ ~ Enabling(box)
    /\ p.at = "login" /\ Holds(box, "login_ok") => ~ Enabling(box)
    /\ p.at = "lobby" =>
         /\ OneEnabling(box)
         /\ Enabling(box) => ~ Asks(out) /\ ~ waits /\ ~ Clickable(p)
         /\ Asks(out) \/ waits => ~ Clickable(p)
    /\ IsTold(p, box) =>
         /\ ~ Asks(out) /\ ~ LogsIn(out) /\ ~ waits /\ p.at # "login"
         /\ p.at = "lobby" => ~ Clickable(p) /\ ~ Enabling(box)

Token(c) == TokenSound(client[c], inbox[c], outbox[c], Waiting(queue, c))

\* What it was told is the color of its seat, if it has one.
TellsColor(color, p, box) ==
    color # NoColor =>
       /\ \A i \in DOMAIN box : box[i].type = "match_found" => box[i].color = color
       /\ p.at = "lobby" /\ p.info # NoInfo => p.info.color = color

\* Without a match nobody has a seat.
NoMatchNoSeat(s) ==
    s.phase = "Lobby" => /\ ~ s.fixedRoster
                         /\ \A c \in Connections : s.colors[c] = NoColor
                         /\ \A u \in Users : s.reserved[u] = NoColor

IInv ==
    /\ TypeInv /\ LinksSound /\ NoMatchNoSeat(session)
    /\ \A c \in Connections : Token(c) /\ TellsColor(session.colors[c], client[c], inbox[c])

-----------------------------------------------------------------------------
(* Boxes of messages *)

\* The messages by their types.
LEMMA Kinds ==
    /\ \A label \in {"none", "white", "black"} :
          LoginOk(label) \in Messages /\ LoginOk(label).type = "login_ok"
    /\ {UnknownUsername, NotAccepted, NotNow, QueueTimedOut} \subseteq Messages
    /\ UnknownUsername.type = "error" /\ NotAccepted.type = "error" /\ NotNow.type = "error"
    /\ QueueJoined \in Messages /\ QueueJoined.type = "queue_joined"
    /\ QueueTimedOut.type = "queue_timeout"
    /\ \A color \in Colors, u \in Users :
          MatchFound(color, u) \in Messages /\ MatchFound(color, u).type = "match_found"
    /\ \A s \in SessionState : GameStarted(s) \in Messages /\ GameStarted(s).type = "game_started"
    /\ \A color \in Colors : GameEnded(color) \in Messages /\ GameEnded(color).type = "game_ended"
    /\ \A u \in Users, color \in Colors :
          /\ PlayerDisconnected(u, color) \in Messages
          /\ PlayerDisconnected(u, color).type = "player_disconnected"
    /\ \A u \in Users : /\ PlayerReconnected(u) \in Messages
                        /\ PlayerReconnected(u).type = "player_reconnected"
<1>1. \A label \in {"none", "white", "black"} :
         LoginOk(label) \in Messages /\ LoginOk(label).type = "login_ok"
  BY DEF Messages, LoginOk
<1>2. {UnknownUsername, NotAccepted, NotNow, QueueTimedOut, QueueJoined} \subseteq Messages
  BY DEF Messages
<1>3. UnknownUsername.type = "error" /\ NotAccepted.type = "error" /\ NotNow.type = "error"
  <2>1. \A text : Error(text).type = "error"
    BY DEF Error
  <2>. QED  BY <2>1, Zenon DEF UnknownUsername, NotAccepted, NotNow
<1>4. QueueJoined.type = "queue_joined"
  BY DEF QueueJoined
<1>5. QueueTimedOut.type = "queue_timeout"
  <2>1. PICK text : QueueTimedOut = [type |-> "queue_timeout", message |-> text]
    BY Zenon DEF QueueTimedOut
  <2>. QED  BY <2>1
<1>6. \A color \in Colors, u \in Users :
         MatchFound(color, u) \in Messages /\ MatchFound(color, u).type = "match_found"
  <2>1. \A color \in Colors, u \in Users : MatchFound(color, u) \in Messages
    BY DEF Messages
  <2>. QED  BY <2>1 DEF MatchFound
<1>7. ASSUME NEW s \in SessionState
      PROVE  GameStarted(s) \in Messages /\ GameStarted(s).type = "game_started"
  <2>1. PICK roster \in Rosters : roster = [white |-> s.white, black |-> s.black]
    BY DEF SessionState, Rosters
  <2>2. GameStarted(s) = GameStarted(roster)
    BY <2>1 DEF GameStarted
  <2>3. GameStarted(roster) \in Messages
    BY DEF Messages
  <2>. QED  BY <2>2, <2>3 DEF GameStarted
<1>8. \A color \in Colors : GameEnded(color) \in Messages /\ GameEnded(color).type = "game_ended"
  <2>1. \A color \in Colors : GameEnded(color) \in Messages
    BY DEF Messages
  <2>2. \A color : GameEnded(color).type = "game_ended"
    BY DEF GameEnded
  <2>. QED  BY <2>1, <2>2
<1>9. \A u \in Users, color \in Colors :
         /\ PlayerDisconnected(u, color) \in Messages
         /\ PlayerDisconnected(u, color).type = "player_disconnected"
  <2>1. \A u \in Users, color \in Colors : PlayerDisconnected(u, color) \in Messages
    BY DEF Messages
  <2>. QED  BY <2>1 DEF PlayerDisconnected
<1>10. \A u \in Users : /\ PlayerReconnected(u) \in Messages
                        /\ PlayerReconnected(u).type = "player_reconnected"
  <2>1. \A u \in Users : PlayerReconnected(u) \in Messages
    BY DEF Messages
  <2>2. \A u : PlayerReconnected(u).type = "player_reconnected"
    BY DEF PlayerReconnected
  <2>. QED  BY <2>1, <2>2
<1>. QED  BY <1>1, <1>2, <1>3, <1>4, <1>5, <1>6, <1>7, <1>8, <1>9, <1>10

\* The two messages of a match; and nobody is told that he left.
LEMMA GameTypes ==
    ASSUME NEW m \in Messages
    PROVE  /\ m.type = "game_started" => \E roster \in Rosters : m = GameStarted(roster)
           /\ m.type = "match_found" =>
                 \E color \in Colors, u \in Users : m = MatchFound(color, u)
           /\ m.type # "queue_left"
<1>1. m.type \in {"login_ok", "error", "queue_joined", "queue_timeout", "game_ended",
                  "player_disconnected", "player_reconnected"}
      \/ (\E roster \in Rosters : m = GameStarted(roster))
      \/ (\E color \in Colors, u \in Users : m = MatchFound(color, u))
  BY Kinds DEF Messages
<1>2. /\ \A roster \in Rosters : GameStarted(roster).type = "game_started"
      /\ \A color \in Colors, u \in Users : MatchFound(color, u).type = "match_found"
  BY DEF GameStarted, MatchFound
<1>. QED  BY <1>1, <1>2

\* One more message in a box.
LEMMA OneMore ==
    ASSUME NEW box \in Seq(Messages), NEW m \in Messages
    PROVE  LET more == Append(box, m)
           IN  /\ more \in Seq(Messages)
               /\ \A type : Holds(more, type) <=> Holds(box, type) \/ m.type = type
               /\ Enabling(more) <=> Enabling(box) \/ Enables(m)
               /\ OneEnabling(box) /\ (Enables(m) => ~ Enabling(box)) => OneEnabling(more)
<1>. DEFINE more == Append(box, m)
            n == Len(box)
<1>1. /\ more \in Seq(Messages) /\ n \in Nat /\ DOMAIN box = 1 .. n /\ DOMAIN more = 1 .. n + 1
      /\ more[n + 1] = m /\ \A i \in 1 .. n : more[i] = box[i]
  OBVIOUS
<1>. HIDE DEF more, n
<1>2. \A i \in DOMAIN more : \/ i \in DOMAIN box /\ more[i] = box[i]
                             \/ i = n + 1 /\ more[i] = m
  BY <1>1
<1>3. n + 1 \in DOMAIN more /\ \A i \in DOMAIN box : i \in DOMAIN more
  BY <1>1
<1>4. \A type : Holds(more, type) <=> Holds(box, type) \/ m.type = type
  BY <1>1, <1>2, <1>3 DEF Holds
<1>5. Enabling(more) <=> Enabling(box) \/ Enables(m)
  BY <1>1, <1>2, <1>3 DEF Enabling
<1>6. OneEnabling(box) /\ (Enables(m) => ~ Enabling(box)) => OneEnabling(more)
  BY <1>2 DEF OneEnabling, Enabling
<1>. QED  BY <1>1, <1>4, <1>5, <1>6 DEF more

\* Fewer messages in a box: the first n are gone.
LEMMA FirstGone ==
    ASSUME NEW box \in Seq(Messages), NEW n \in 0 .. Len(box)
    PROVE  LET rest == SubSeq(box, n + 1, Len(box))
           IN  /\ rest \in Seq(Messages)
               /\ DOMAIN rest = 1 .. Len(box) - n
               /\ \A i \in DOMAIN rest : i + n \in DOMAIN box /\ rest[i] = box[i + n]
<1>. DEFINE rest == SubSeq(box, n + 1, Len(box))
<1>1. PICK size : size = Len(box)
  OBVIOUS
<1>2. size \in Nat /\ DOMAIN box = 1 .. size /\ n \in 0 .. size
  BY <1>1
<1>3. PICK low \in Nat : low = n + 1 /\ low \in 1 .. size + 1
  BY <1>2
<1>4. /\ SubSeq(box, low, size) \in Seq(Messages)
      /\ Len(SubSeq(box, low, size)) = IF low <= size THEN size - low + 1 ELSE 0
      /\ \A i \in 1 .. size - low + 1 : SubSeq(box, low, size)[i] = box[low + i - 1]
  BY <1>1, <1>2, <1>3, SubSeqProperties
<1>5. rest = SubSeq(box, low, size)
  BY <1>1, <1>3
<1>. HIDE DEF rest
<1>6. rest \in Seq(Messages) /\ Len(rest) = size - n /\ DOMAIN rest = 1 .. size - n
  <2>1. (IF low <= size THEN size - low + 1 ELSE 0) = size - n
    BY <1>2, <1>3
  <2>2. rest \in Seq(Messages) /\ Len(rest) = size - n
    BY <1>4, <1>5, <2>1
  <2>. QED  BY <2>2
<1>7. \A i \in 1 .. size - n : i + n \in 1 .. size /\ rest[i] = box[i + n]
  <2>1. \A i \in 1 .. size - n : i + n \in 1 .. size /\ low + i - 1 = i + n
    BY <1>2, <1>3
  <2>2. size - low + 1 = size - n
    BY <1>2, <1>3
  <2>. QED  BY <1>4, <1>5, <2>1, <2>2
<1>. QED  BY <1>1, <1>2, <1>6, <1>7 DEF rest

\* What a box holds that is part of another.
LEMMA HeldBefore ==
    ASSUME NEW box \in Seq(Messages), NEW rest \in Seq(Messages), NEW n \in Nat,
           \A i \in DOMAIN rest : i + n \in DOMAIN box /\ rest[i] = box[i + n]
    PROVE  /\ \A type : Holds(rest, type) => Holds(box, type)
           /\ Enabling(rest) => Enabling(box)
           /\ OneEnabling(box) => OneEnabling(rest)
<1>1. \A type : Holds(rest, type) => Holds(box, type)
  BY DEF Holds
<1>2. Enabling(rest) => Enabling(box)
  BY DEF Enabling
<1>3. ASSUME OneEnabling(box), NEW i \in DOMAIN rest, NEW j \in DOMAIN rest,
             Enables(rest[i]), Enables(rest[j])
      PROVE  i = j
  <2>1. i + n = j + n /\ i \in Nat /\ j \in Nat
    BY <1>3 DEF OneEnabling
  <2>. QED  BY <2>1
<1>. QED  BY <1>1, <1>2, <1>3 DEF OneEnabling

\* An empty box.
LEMMA EmptyBox ==
    /\ << >> \in Seq(Messages) /\ \A type : ~ Holds(<< >>, type)
    /\ ~ Enabling(<< >>) /\ OneEnabling(<< >>)
    /\ \A color, p : p.at # "lobby" => TellsColor(color, p, << >>)
BY DEF Holds, Enabling, OneEnabling, TellsColor

\* Who was told nothing may be given any seat.
LEMMA UntoldColor ==
    ASSUME NEW p, NEW box, ~ IsTold(p, box), NEW color
    PROVE  TellsColor(color, p, box)
BY DEF IsTold, Holds, TellsColor

\* A seat may be taken away.
LEMMA NoSeatColor ==
    ASSUME NEW p, NEW box
    PROVE  TellsColor(NoColor, p, box)
BY DEF TellsColor

\* sendToConnection and broadcast append to the boxes of processes that run.
LEMMA TellBoxes ==
    ASSUME TypeInv, NEW boxes \in [Connections -> Seq(Messages)], NEW to, NEW m \in Messages
    PROVE  /\ Tell(boxes, to, m) \in [Connections -> Seq(Messages)]
           /\ \A c \in Connections :
                 \/ Tell(boxes, to, m)[c] = boxes[c]
                    /\ (c \notin to \/ c \notin linked \/ At(c, "gone"))
                 \/ Tell(boxes, to, m)[c] = Append(boxes[c], m)
                    /\ c \in to /\ c \in linked /\ ~ At(c, "gone")
<1>1. \A c \in Connections : Append(boxes[c], m) \in Seq(Messages)
  OBVIOUS
<1>. QED  BY <1>1 DEF Tell

-----------------------------------------------------------------------------
(* What a message changes *)

\* A message that lets nobody ask does not touch a token.
LEMMA NeutralToken ==
    ASSUME NEW p, NEW box \in Seq(Messages), NEW out, NEW waits \in BOOLEAN, NEW m \in Messages,
           TokenSound(p, box, out, waits),
           m.type \notin {"error", "queue_timeout", "login_ok", "match_found"}
    PROVE  TokenSound(p, Append(box, m), out, waits)
<1>1. ~ Enables(m) /\ m.type # "login_ok" /\ m.type # "match_found"
  BY DEF Enables
<1>2. PICK more : more = Append(box, m)
  OBVIOUS
<1>3. /\ Holds(more, "login_ok") <=> Holds(box, "login_ok")
      /\ Holds(more, "match_found") <=> Holds(box, "match_found")
      /\ Enabling(more) <=> Enabling(box)
      /\ OneEnabling(box) => OneEnabling(more)
  BY <1>1, <1>2, OneMore
<1>. QED  BY <1>2, <1>3 DEF TokenSound, IsTold

\* Who does not wait has less to lose.
LEMMA LessToken ==
    ASSUME NEW p, NEW box, NEW out, NEW waits \in BOOLEAN, NEW less \in BOOLEAN,
           TokenSound(p, box, out, waits), less => waits
    PROVE  TokenSound(p, box, out, less)
BY DEF TokenSound

\* A message tells no other color than the one of the seat.
LEMMA ColorMore ==
    ASSUME NEW color, NEW p, NEW box \in Seq(Messages), NEW m \in Messages,
           TellsColor(color, p, box),
           m.type = "match_found" /\ color # NoColor => m.color = color
    PROVE  TellsColor(color, p, Append(box, m))
<1>. DEFINE more == Append(box, m)
            n == Len(box)
<1>1. /\ n \in Nat /\ DOMAIN box = 1 .. n /\ DOMAIN more = 1 .. n + 1
      /\ more[n + 1] = m /\ \A i \in 1 .. n : more[i] = box[i]
  OBVIOUS
<1>. HIDE DEF more, n
<1>2. \A i \in DOMAIN more : \/ i \in DOMAIN box /\ more[i] = box[i]
                             \/ i = n + 1 /\ more[i] = m
  BY <1>1
<1>3. TellsColor(color, p, more)
  BY <1>2 DEF TellsColor
<1>. QED  BY <1>3 DEF more

-----------------------------------------------------------------------------
(* Steps of one process *)

\* Initially there is no server.
LEMMA InitSound == Init => IInv
<1>. SUFFICES ASSUME Init PROVE IInv
  OBVIOUS
<1>. USE DEF Init
<1>1. << >> \in Fair /\ DOMAIN << >> = {}
  BY DEF Fair, PairFree, SingleEntries
<1>2. Process \in Processes /\ Process.at = "off" /\ Process.user = NoUser
  BY DEF Process, Processes, Stages, Statuses, Infos, NoInfo, Names
<1>3. grace \in [Users -> Colors \cup {NoColor}] /\ \A u \in Users : grace[u] = NoColor
  BY DEF NoGrace
<1>4. TypeInv
  BY <1>1, <1>2, <1>3, EmptySessionFields, EmptyBox, LobbyAssumption DEF TypeInv, Outboxes, Open
<1>5. LinksSound
  <2>1. \A c \in Connections : LinkSound(c)
    BY <1>1, <1>2, EmptySessionFields DEF LinkSound, At, Open, Waiting
  <2>. QED  BY <1>1, <2>1 DEF LinksSound
<1>6. \A c \in Connections : Token(c)
  BY <1>1, <1>2, EmptyBox DEF Token, TokenSound, IsTold, Asks, LogsIn, Waiting
<1>7. \A c \in Connections : TellsColor(session.colors[c], client[c], inbox[c])
  BY EmptySessionFields, NoSeatColor
<1>8. NoMatchNoSeat(session)
  <2>1. ~ session.fixedRoster
    BY DEF EmptySession
  <2>. QED  BY <2>1, EmptySessionFields DEF NoMatchNoSeat
<1>. QED  BY <1>4, <1>5, <1>6, <1>7, <1>8 DEF IInv

\* What a process may become in a step of its own, with a box b of messages and
\* with o under way to the server.
Fits(c, p, b, o) ==
    /\ p \in Processes /\ p.user = client[c].user /\ p.at \notin {"off", "login"}
    /\ client[c].at # "off"
    /\ b \in Seq(Messages) /\ o \in Outboxes
    /\ p.at = "gone" => b = << >> /\ c # host
    /\ o \in Open \/ p.at = "gone"
    /\ c \notin linked => o = << >>
    /\ TokenSound(p, b, o, Waiting(queue, c))
    /\ TellsColor(session.colors[c], p, b)

LEMMA OwnStep ==
    ASSUME IInv, NEW c \in Connections, NEW p, NEW b, NEW o, Fits(c, p, b, o),
           client' = [client EXCEPT ![c] = p],
           inbox' = [inbox EXCEPT ![c] = b],
           outbox' = [outbox EXCEPT ![c] = o],
           UNCHANGED <<session, queue, grace, store, host, linked>>
    PROVE  IInv'
<1>0. /\ TypeInv /\ LinksSound /\ NoMatchNoSeat(session)
      /\ \A d \in Connections : Token(d) /\ TellsColor(session.colors[d], client[d], inbox[d])
  BY DEF IInv
<1>1. \A d \in Connections : /\ client'[d] = IF d = c THEN p ELSE client[d]
                             /\ inbox'[d] = IF d = c THEN b ELSE inbox[d]
                             /\ outbox'[d] = IF d = c THEN o ELSE outbox[d]
                             /\ client'[d].user = client[d].user
  BY <1>0 DEF TypeInv, Fits
<1>2. TypeInv'
  BY <1>0 DEF TypeInv, Fits
<1>3. LinksSound'
  <2>1. ASSUME NEW d \in Connections PROVE LinkSound(d)'
    <3>1. LinkSound(d)
      BY <1>0 DEF LinksSound
    <3>2. Waiting(queue, d)' <=> Waiting(queue, d)
      BY DEF Waiting
    <3>3. CASE d = c
      BY <1>1, <3>1, <3>2, <3>3 DEF LinkSound, Fits, At
    <3>4. CASE d # c
      BY <1>1, <3>1, <3>2, <3>4 DEF LinkSound, At
    <3>. QED  BY <3>3, <3>4
  <2>2. host # NoConnection => client'[host].at \notin {"off", "gone"}
    BY <1>0, <1>1 DEF LinksSound, Fits, TypeInv
  <2>3. \A i \in DOMAIN queue : queue[i].user = client'[queue[i].conn].user
    BY <1>0, <1>1, EntryTyped DEF LinksSound, TypeInv
  <2>. QED  BY <1>0, <2>1, <2>2, <2>3 DEF LinksSound
<1>4. \A d \in Connections : Token(d)'
  <2>1. \A d \in Connections : Token(d)' <=>
            TokenSound(client'[d], inbox'[d], outbox'[d], Waiting(queue, d))
    BY DEF Token, Waiting
  <2>. QED  BY <1>0, <1>1, <2>1 DEF Token, Fits
<1>5. \A d \in Connections : TellsColor(session.colors[d], client'[d], inbox'[d])
  BY <1>0, <1>1 DEF Fits
<1>. QED  BY <1>0, <1>2, <1>3, <1>4, <1>5 DEF IInv

-----------------------------------------------------------------------------
(* A turn of the lobby's loop *)

\* What a process knows has four fields.
LEMMA FourFields ==
    ASSUME NEW i, NEW a, NEW b, NEW v, NEW w,
           DOMAIN i = {"color", "opponent", "white", "black"}, i = [key \in DOMAIN i |-> i[key]],
           i.color = a, i.opponent = b, i.white = v, i.black = w
    PROVE  i = [color |-> a, opponent |-> b, white |-> v, black |-> w]
<1>. DEFINE j == [color |-> a, opponent |-> b, white |-> v, black |-> w]
<1>1. /\ DOMAIN j = {"color", "opponent", "white", "black"}
      /\ j = [key \in DOMAIN j |-> j[key]]
  OBVIOUS
<1>2. j.color = a /\ j.opponent = b /\ j.white = v /\ j.black = w
  OBVIOUS
<1>. HIDE DEF j
<1>3. \A key \in DOMAIN i : i[key] = j[key]
  BY <1>2
<1>4. i = j
  BY <1>1, <1>3
<1>. QED  BY <1>4 DEF j

\* What MatchFound tells of a match.
ToldBy(m) == [color |-> m.color, opponent |-> m.opponent, white |-> NoUser, black |-> NoUser]

\* GameStarted leaves what was known of a match as it was, and makes something known.
LEMMA GameStartedTells ==
    ASSUME NEW p \in Processes, NEW m
    PROVE  p.info # NoInfo => /\ InfoFrom(p, m).color = p.info.color
                              /\ p.info.color # NoColor => InfoFrom(p, m) # NoInfo
<1>. SUFFICES ASSUME p.info # NoInfo
              PROVE  /\ InfoFrom(p, m).color = p.info.color
                     /\ p.info.color # NoColor => InfoFrom(p, m) # NoInfo
  OBVIOUS
<1>1. InfoFrom(p, m) = [p.info EXCEPT !.white = m.white, !.black = m.black]
  BY DEF InfoFrom
<1>2. p.info \in Infos
  BY DEF Processes
<1>3. InfoFrom(p, m).color = p.info.color
  BY <1>1, <1>2 DEF Infos
<1>. QED  BY <1>3 DEF NoInfo

\* What one message does to a process.
LEMMA ApplyOne ==
    ASSUME NEW p \in Processes, NEW m \in Messages, NEW x \in {m, W!NoMessage},
           NEW q, q = ApplyServerMessage(p, x)
    PROVE  /\ q \in Processes /\ q.user = p.user
           /\ Clickable(q) => Clickable(p) \/ Enables(m)
           /\ x = m /\ m.type = "game_started" => q.at = "leaving" /\ q.info = InfoFrom(p, m)
           /\ x = m /\ m.type = "match_found" => q.at = p.at /\ q.info = ToldBy(m)
           /\ ~ (x = m /\ m.type \in {"game_started", "match_found"}) =>
                 q.at = p.at /\ q.info = p.info
<1>1. W!NoMessage.type = "unknown"
  BY DEF W!NoMessage
<1>2. /\ p.at \in Stages /\ p.status \in Statuses /\ p.info \in Infos
      /\ {"Searching", "Idle", "Matched", "Error"} \subseteq Statuses /\ "leaving" \in Stages
  BY DEF Processes, Stages, Statuses
<1>3. CASE x = m /\ m.type = "game_started"
  <2>1. q = [p EXCEPT !.status = "Matched", !.at = "leaving", !.info = InfoFrom(p, m)]
    BY <1>3 DEF ApplyServerMessage
  <2>2. InfoFrom(p, m) \in Infos
    <3>1. PICK roster \in Rosters : m = GameStarted(roster)
      BY <1>3, Kinds, GameTypes
    <3>2. m.white \in Users \cup {NoUser} /\ m.black \in Users \cup {NoUser}
      BY <3>1 DEF GameStarted, Rosters
    <3>. QED  BY <1>2, <3>2 DEF InfoFrom, Infos, NoInfo, Colors
  <2>3. /\ q.at = "leaving" /\ q.status = "Matched" /\ q.info = InfoFrom(p, m)
        /\ q.user = p.user /\ q \in Processes
    BY <1>2, <2>1, <2>2 DEF Processes
  <2>. QED  BY <1>3, <2>3 DEF Clickable
<1>4. CASE x = m /\ m.type = "match_found"
  <2>0. PICK told : told = [NoInfo EXCEPT !.color = m.color, !.opponent = m.opponent]
    OBVIOUS
  <2>1. q = [p EXCEPT !.status = "Matched", !.info = told]
    BY <1>4, <2>0 DEF ApplyServerMessage
  <2>2. told = ToldBy(m) /\ told \in Infos
    <3>1. PICK color \in Colors, u \in Users : m = MatchFound(color, u)
      BY <1>4, GameTypes
    <3>2. m.color \in Colors /\ m.opponent \in Users
      BY <3>1 DEF MatchFound
    <3>3. told = ToldBy(m)
      <4>1. /\ DOMAIN told = {"color", "opponent", "white", "black"}
            /\ told = [key \in DOMAIN told |-> told[key]]
        BY <2>0 DEF NoInfo
      <4>2. /\ told.color = m.color /\ told.opponent = m.opponent
            /\ told.white = NoUser /\ told.black = NoUser
        BY <2>0 DEF NoInfo
      <4>. QED  BY ONLY <4>1, <4>2, FourFields DEF ToldBy
    <3>. QED  BY <3>2, <3>3 DEF Infos, ToldBy
  <2>3. /\ q.at = p.at /\ q.status = "Matched" /\ q.info = told
        /\ q.user = p.user /\ q \in Processes
    BY <1>2, <2>1, <2>2 DEF Processes
  <2>. QED  BY <1>4, <2>2, <2>3 DEF Clickable
<1>5. CASE ~ (x = m /\ m.type \in {"game_started", "match_found"})
  <2>1. \/ q = [p EXCEPT !.status = "Searching"]
        \/ q = [p EXCEPT !.status = "Idle"] /\ x.type \in {"queue_left", "queue_timeout"}
        \/ q = [p EXCEPT !.status = "Error"] /\ x.type = "error"
        \/ q = p
    BY <1>1, <1>5 DEF ApplyServerMessage
  <2>2. x.type = "queue_left" \/ Enables(m) \/ x.type \notin {"queue_left", "queue_timeout", "error"}
    BY <1>1 DEF Enables
  <2>3. x.type # "queue_left"
    BY <1>1, GameTypes
  <2>4. /\ q.at = p.at /\ q.info = p.info /\ q.user = p.user /\ q \in Processes
        /\ q.status \in {p.status, "Searching"} \/ Enables(m)
    BY <1>2, <2>1, <2>2, <2>3 DEF Processes
  <2>. QED  BY <1>5, <2>4 DEF Clickable
<1>. QED  BY <1>3, <1>4, <1>5

\* After the first messages the others still tell the color.
LEMMA ColorLess ==
    ASSUME NEW color, NEW p, NEW box, NEW rest, NEW n,
           TellsColor(color, p, box),
           \A i \in DOMAIN rest : i + n \in DOMAIN box /\ rest[i] = box[i + n]
    PROVE  TellsColor(color, p, rest)
BY DEF TellsColor

\* A process in the lobby while it reads: the messages of box are still to come; if
\* it has been told of its match, it knows the color of its seat.
Reads(c, told, p, box) ==
    /\ p \in Processes /\ p.user = client[c].user /\ p.at \in {"lobby", "leaving"}
    /\ box \in Seq(Messages)
    /\ TokenSound(p, box, outbox[c], Waiting(queue, c))
    /\ TellsColor(session.colors[c], p, box)
    /\ told /\ session.colors[c] # NoColor =>
          p.info # NoInfo /\ p.info.color = session.colors[c]

\* One message is read, or is lost.
LEMMA ReadOne ==
    ASSUME NEW c \in Connections, NEW told, NEW p, NEW box, Reads(c, told, p, box),
           1 \in DOMAIN box, NEW x \in {box[1], W!NoMessage}, NEW rest \in Seq(Messages),
           \A i \in DOMAIN rest : i + 1 \in DOMAIN box /\ rest[i] = box[i + 1]
    PROVE  Reads(c, told \/ x.type = "match_found", ApplyServerMessage(p, x), rest)
<1>. PICK q : q = ApplyServerMessage(p, x)
  OBVIOUS
<1>. PICK m \in Messages : m = box[1]
  BY DEF Reads
<1>. PICK color : color = session.colors[c]
  OBVIOUS
<1>0. /\ p \in Processes /\ p.user = client[c].user /\ p.at \in {"lobby", "leaving"}
      /\ box \in Seq(Messages) /\ DOMAIN box = 1 .. Len(box)
      /\ TokenSound(p, box, outbox[c], Waiting(queue, c))
      /\ TellsColor(color, p, box)
      /\ told /\ color # NoColor => p.info # NoInfo /\ p.info.color = color
  BY DEF Reads
<1>1. /\ q \in Processes /\ q.user = p.user
      /\ Clickable(q) => Clickable(p) \/ Enables(m)
      /\ x = m /\ m.type = "game_started" => q.at = "leaving" /\ q.info = InfoFrom(p, m)
      /\ x = m /\ m.type = "match_found" => q.at = p.at /\ q.info = ToldBy(m)
      /\ ~ (x = m /\ m.type \in {"game_started", "match_found"}) =>
            q.at = p.at /\ q.info = p.info
  <2>1. x \in {m, W!NoMessage} /\ p \in Processes /\ q = ApplyServerMessage(p, x)
    BY <1>0
  <2>2. m \in Messages
    OBVIOUS
  <2>. QED  BY ONLY <2>1, <2>2, ApplyOne
<1>2. /\ \A type : Holds(rest, type) => Holds(box, type)
      /\ Enabling(rest) => Enabling(box)
      /\ OneEnabling(box) => OneEnabling(rest)
  BY <1>0, HeldBefore
<1>3. Holds(box, m.type) /\ (Enables(m) => Enabling(box))
  BY DEF Holds, Enabling
<1>4. ASSUME OneEnabling(box), Enables(m) PROVE ~ Enabling(rest)
  <2>. SUFFICES ASSUME NEW i \in DOMAIN rest, Enables(rest[i]) PROVE FALSE
    BY DEF Enabling
  <2>1. i + 1 = 1
    BY <1>4 DEF OneEnabling
  <2>2. i \in Nat /\ i >= 1
    OBVIOUS
  <2>. QED  BY <2>1, <2>2
<1>5. q.at = "lobby" => p.at = "lobby"
  BY <1>0, <1>1
<1>6. IsTold(q, rest) => IsTold(p, box) /\ (q.at = "lobby" => ~ Clickable(q))
  <2>1. IsTold(q, rest) => IsTold(p, box)
    BY <1>1, <1>2, <1>3, <1>5 DEF IsTold
  <2>2. IsTold(p, box) /\ p.at = "lobby" => ~ Clickable(p) /\ ~ Enables(m)
    BY <1>0, <1>3 DEF TokenSound
  <2>. QED  BY <1>1, <1>5, <2>1, <2>2
<1>7. TokenSound(q, rest, outbox[c], Waiting(queue, c))
  BY <1>0, <1>1, <1>2, <1>3, <1>4, <1>5, <1>6 DEF TokenSound
<1>8. m.type = "match_found" => /\ color # NoColor => m.color = color
                                /\ ToldBy(m) # NoInfo /\ ToldBy(m).color = m.color
  <2>. SUFFICES ASSUME m.type = "match_found"
                PROVE  /\ color # NoColor => m.color = color
                       /\ ToldBy(m) # NoInfo /\ ToldBy(m).color = m.color
    OBVIOUS
  <2>1. PICK k \in Colors, u \in Users : m = MatchFound(k, u)
    BY GameTypes
  <2>2. m.color \in Colors
    BY <2>1 DEF MatchFound
  <2>3. ToldBy(m).color = m.color
    BY DEF ToldBy
  <2>4. ToldBy(m) # NoInfo
    BY <2>2, <2>3 DEF NoInfo, Colors, NoColor
  <2>. QED  BY <1>0, <2>3, <2>4 DEF TellsColor
<1>9. TellsColor(color, q, rest)
  <2>1. TellsColor(color, p, rest)
    BY <1>0, ColorLess
  <2>. QED  BY <1>1, <1>5, <1>8, <2>1 DEF TellsColor
<1>10. ASSUME told \/ x.type = "match_found", color # NoColor
       PROVE  q.info # NoInfo /\ q.info.color = color
  <2>1. W!NoMessage.type # "match_found"
    BY DEF W!NoMessage
  <2>2. CASE x = m /\ m.type = "match_found"
    BY <1>1, <1>8, <1>10, <2>2
  <2>3. CASE x = m /\ m.type = "game_started"
    <3>1. p.info # NoInfo /\ p.info.color = color
      BY <1>0, <1>10, <2>3
    <3>. QED  BY <1>0, <1>1, <1>10, <2>3, <3>1, GameStartedTells
  <2>4. CASE ~ (x = m /\ m.type \in {"game_started", "match_found"})
    <3>1. told
      BY <1>10, <2>1, <2>4
    <3>. QED  BY <1>0, <1>1, <1>10, <2>4, <3>1
  <2>. QED  BY <2>2, <2>3, <2>4
<1>11. q.at \in {"lobby", "leaving"}
  BY <1>0, <1>1
<1>12. Reads(c, told \/ x.type = "match_found", q, rest)
  BY <1>0, <1>1, <1>7, <1>9, <1>10, <1>11 DEF Reads
<1>. QED  BY <1>12

\* ApplyRun goes through the messages one after another.
LEMMA ApplyRunDef ==
    ASSUME NEW p \in Processes, NEW messages, Len(messages) \in Nat,
           \A i \in 1 .. Len(messages) : messages[i] \in Messages \cup {W!NoMessage}
    PROVE  /\ ApplyRun(p, messages)[0] = p
           /\ \A i \in 1 .. Len(messages) :
                 ApplyRun(p, messages)[i] = ApplyServerMessage(ApplyRun(p, messages)[i - 1], messages[i])
<1>. DEFINE n == Len(messages)
            Turn(i, x) == IF i \in 1 .. n THEN ApplyServerMessage(x, messages[i]) ELSE x
            F == [y \in Nat \X Processes |-> Turn(y[1], y[2])]
            Eq(r) == r = [i \in 0 .. n |-> IF i = 0 THEN p
                                           ELSE ApplyServerMessage(r[i - 1], messages[i])]
<1>1. ASSUME NEW i \in Nat, NEW x \in Processes PROVE Turn(i, x) \in Processes
  <2>1. CASE i \in 1 .. n
    <3>1. PICK m \in Messages : messages[i] \in {m, W!NoMessage}
      <4>1. \E m \in Messages : TRUE
        BY Kinds
      <4>. QED  BY <2>1, <4>1
    <3>2. PICK q : q = ApplyServerMessage(x, messages[i])
      OBVIOUS
    <3>3. q \in Processes
      BY <3>1, <3>2, ApplyOne
    <3>. QED  BY <2>1, <3>2, <3>3
  <2>2. CASE i \notin 1 .. n
    BY <2>2
  <2>. QED  BY <2>1, <2>2
<1>. HIDE DEF Turn
<1>2. F \in [Nat \X Processes -> Processes] /\ \A i \in Nat, x \in Processes : F[<<i, x>>] = Turn(i, x)
  BY <1>1
<1>3. PICK r : IsRun(r, Processes, p, F)
  <2>. HIDE DEF F
  <2>1. StaysIn(Processes, p, F)
    BY <1>2 DEF StaysIn
  <2>. QED  BY <2>1, LoopRuns
<1>4. \A i \in Nat : r[i] \in Processes /\ r[i] = IF i = 0 THEN p ELSE F[<<i, r[i - 1]>>]
  <2>. HIDE DEF F
  <2>. QED  BY <1>3 DEF IsRun
<1>. DEFINE t == [i \in 0 .. n |-> r[i]]
<1>5. Eq(t)
  <2>1. ASSUME NEW i \in 0 .. n
        PROVE  t[i] = IF i = 0 THEN p ELSE ApplyServerMessage(t[i - 1], messages[i])
    <3>1. CASE i = 0
      BY <1>4, <3>1
    <3>2. CASE i # 0
      <4>1. i \in Nat /\ i \in 1 .. n /\ i - 1 \in Nat /\ i - 1 \in 0 .. n
        BY <3>2
      <4>2. r[i] = Turn(i, r[i - 1]) /\ t[i] = r[i] /\ t[i - 1] = r[i - 1]
        <5>. HIDE DEF F
        <5>. QED  BY <1>2, <1>4, <3>2, <4>1
      <4>3. Turn(i, r[i - 1]) = ApplyServerMessage(r[i - 1], messages[i])
        BY <4>1 DEF Turn
      <4>. QED  BY <3>2, <4>2, <4>3
    <3>. QED  BY <3>1, <3>2
  <2>. QED  BY <2>1
<1>6. ApplyRun(p, messages) = CHOOSE f : Eq(f)
  BY DEF ApplyRun
<1>. HIDE DEF Eq
<1>7. Eq(ApplyRun(p, messages))
  BY <1>5, <1>6
<1>. DEFINE run == ApplyRun(p, messages)
<1>8. run = [i \in 0 .. n |-> IF i = 0 THEN p ELSE ApplyServerMessage(run[i - 1], messages[i])]
  BY <1>7 DEF Eq
<1>. HIDE DEF run
<1>9. run[0] = p
  BY <1>8
<1>10. \A i \in 1 .. n : run[i] = ApplyServerMessage(run[i - 1], messages[i])
  <2>. TAKE i \in 1 .. n
  <2>1. i \in 0 .. n /\ i # 0
    OBVIOUS
  <2>2. run[i] = IF i = 0 THEN p ELSE ApplyServerMessage(run[i - 1], messages[i])
    BY <1>8, <2>1
  <2>. QED  BY <2>1, <2>2
<1>. QED  BY <1>9, <1>10 DEF run

\* The process c was told of its match after n messages.
ToldIn(c, messages, n) ==
    client[c].info # NoInfo \/ \E i \in 1 .. n : messages[i].type = "match_found"

\* A process that has read n messages.
LEMMA ReadMany ==
    ASSUME IInv, NEW c \in Connections, At(c, "lobby"), NEW n \in 1 .. Len(inbox[c])
    PROVE  Reads(c, ToldIn(c, Heard(c, n), n),
                 ApplyRun(client[c], Heard(c, n))[n], SubSeq(inbox[c], n + 1, Len(inbox[c])))
<1>. DEFINE box == inbox[c]
            rest(i) == SubSeq(box, i + 1, Len(box))
            heard == Heard(c, n)
            run == ApplyRun(client[c], heard)
            told(i) == ToldIn(c, heard, i)
            Good == {i \in Nat : i <= n => Reads(c, told(i), run[i], rest(i))}
<1>1. /\ TypeInv /\ LinksSound /\ Token(c)
      /\ client[c] \in Processes /\ box \in Seq(Messages) /\ n \in Nat /\ n <= Len(box)
      /\ DOMAIN box = 1 .. Len(box)
  BY DEF IInv, TypeInv
<1>2. Len(heard) = n /\ \A i \in 1 .. n : heard[i] = W!Received(box[i])
  BY <1>1 DEF Heard
<1>3. \A i \in 1 .. n : heard[i] \in {box[i], W!NoMessage} /\ box[i] \in Messages
  <2>1. \A i \in 1 .. n : i \in DOMAIN box
    BY <1>1
  <2>2. \A i \in 1 .. n : box[i] \in Messages
    BY <1>1, <2>1
  <2>. QED  BY <1>2, <2>2, MessageReceived
<1>. HIDE DEF heard
<1>4. run[0] = client[c] /\ \A i \in 1 .. n : run[i] = ApplyServerMessage(run[i - 1], heard[i])
  <2>1. \A i \in 1 .. n : heard[i] \in Messages \cup {W!NoMessage}
    BY <1>3
  <2>. QED  BY <1>1, <1>2, <2>1, ApplyRunDef
<1>. HIDE DEF run
<1>5. 0 \in Good
  <2>1. rest(0) = box
    BY <1>1
  <2>2. Reads(c, told(0), client[c], box)
    <3>1. TellsColor(session.colors[c], client[c], box)
      BY DEF IInv
    <3>2. told(0) => client[c].info # NoInfo
      BY DEF ToldIn
    <3>. QED  BY <1>1, <3>1, <3>2 DEF Reads, Token, At, TellsColor
  <2>. QED  BY <1>4, <2>1, <2>2
<1>6. ASSUME NEW i \in Nat, i \in Good PROVE i + 1 \in Good
  <2>. SUFFICES ASSUME i + 1 <= n PROVE Reads(c, told(i + 1), run[i + 1], rest(i + 1))
    OBVIOUS
  <2>1. i \in 0 .. Len(box) /\ i + 1 \in 0 .. Len(box) /\ i + 1 \in 1 .. n /\ i <= n
        /\ (i + 1) - 1 = i
    BY <1>1
  <2>2. /\ rest(i) \in Seq(Messages) /\ DOMAIN rest(i) = 1 .. Len(box) - i
        /\ \A j \in DOMAIN rest(i) : rest(i)[j] = box[j + i]
    BY <1>1, <2>1, FirstGone
  <2>3. /\ rest(i + 1) \in Seq(Messages) /\ DOMAIN rest(i + 1) = 1 .. Len(box) - (i + 1)
        /\ \A j \in DOMAIN rest(i + 1) : rest(i + 1)[j] = box[j + (i + 1)]
    BY <1>1, <2>1, FirstGone
  <2>. HIDE DEF rest
  <2>4. 1 \in DOMAIN rest(i) /\ rest(i)[1] = box[i + 1]
    <3>1. 1 \in 1 .. Len(box) - i /\ 1 + i = i + 1
      BY <1>1, <2>1
    <3>. QED  BY <2>2, <3>1
  <2>5. \A j \in DOMAIN rest(i + 1) : j + 1 \in DOMAIN rest(i) /\ rest(i + 1)[j] = rest(i)[j + 1]
    <3>1. \A j \in 1 .. Len(box) - (i + 1) : j + 1 \in 1 .. Len(box) - i /\ (j + 1) + i = j + (i + 1)
      BY <1>1, <2>1
    <3>. QED  BY <2>2, <2>3, <3>1
  <2>6. heard[i + 1] \in {rest(i)[1], W!NoMessage}
    BY <1>3, <2>1, <2>4
  <2>7. Reads(c, told(i), run[i], rest(i))
    BY <1>6, <2>1
  <2>8. run[i + 1] = ApplyServerMessage(run[i], heard[i + 1])
    BY <1>4, <2>1
  <2>9. told(i + 1) <=> told(i) \/ heard[i + 1].type = "match_found"
    <3>1. \A j \in 1 .. i + 1 : j \in 1 .. i \/ j = i + 1
      BY <2>1
    <3>2. i + 1 \in 1 .. i + 1 /\ \A j \in 1 .. i : j \in 1 .. i + 1
      BY <2>1
    <3>. QED  BY <3>1, <3>2, Zenon DEF ToldIn
  <2>. HIDE DEF told
  <2>10. Reads(c, told(i) \/ heard[i + 1].type = "match_found", run[i + 1], rest(i + 1))
    BY <2>3, <2>4, <2>5, <2>6, <2>7, <2>8, ReadOne
  <2>. QED  BY <2>9, <2>10 DEF Reads
<1>. HIDE DEF Good
<1>7. n \in Good
  BY <1>1, <1>5, <1>6, SetInduction
<1>. QED  BY <1>1, <1>7 DEF Good, run, heard, told

\* A turn of the lobby's loop, and the other steps of one process alone.
LEMMA LobbyFrameFits ==
    ASSUME IInv, NEW c \in Connections, NEW n \in 0 .. Len(inbox[c]), n > 0, LobbyFrame(c, n)
    PROVE  \E p, b : Fits(c, p, b, outbox[c]) /\ client' = [client EXCEPT ![c] = p]
                     /\ inbox' = [inbox EXCEPT ![c] = b] /\ p.at \in {"lobby", "leaving"}
                     /\ (ToldIn(c, Heard(c, n), n) /\ session.colors[c] # NoColor =>
                            p.info.color = session.colors[c])
<1>1. TypeInv /\ LinksSound /\ LinkSound(c) /\ At(c, "lobby")
  BY DEF IInv, LinksSound, LobbyFrame
<1>2. n \in 1 .. Len(inbox[c])
  BY <1>1 DEF TypeInv
<1>3. PICK p : p = ApplyRun(client[c], Heard(c, n))[n]
  OBVIOUS
<1>4. PICK b : b = SubSeq(inbox[c], n + 1, Len(inbox[c]))
  OBVIOUS
<1>5. Reads(c, ToldIn(c, Heard(c, n), n), p, b)
  BY <1>1, <1>2, <1>3, <1>4, ReadMany
<1>6. client' = [client EXCEPT ![c] = p] /\ inbox' = [inbox EXCEPT ![c] = b]
  BY <1>1, <1>3, <1>4 DEF LobbyFrame, TypeInv
<1>7. Fits(c, p, b, outbox[c])
  BY <1>1, <1>5 DEF Reads, Fits, LinkSound, TypeInv, At
<1>. QED  BY <1>1, <1>5, <1>6, <1>7 DEF Reads, At

LEMMA EnterLobbyFits ==
    ASSUME IInv, NEW c \in Connections, EnterLobby(c)
    PROVE  \E p : Fits(c, p, inbox[c], outbox[c]) /\ client' = [client EXCEPT ![c] = p]
                  /\ p.at = "lobby"
<1>. PICK p : p = [client[c] EXCEPT !.at = "lobby"]
  OBVIOUS
<1>1. /\ TypeInv /\ LinksSound /\ LinkSound(c) /\ Token(c) /\ client[c].at = "login"
      /\ Holds(inbox[c], "login_ok")
  BY DEF IInv, LinksSound, EnterLobby, At, IsLoggedIn, Holds
<1>2. client[c] \in Processes /\ "lobby" \in Stages
  BY <1>1 DEF TypeInv, Stages
<1>3. /\ p \in Processes /\ p.at = "lobby" /\ p.user = client[c].user /\ p.info = client[c].info
      /\ p.status = client[c].status
  BY <1>2 DEF Processes
<1>5. ~ IsTold(p, inbox[c])
  <2>1. ~ Holds(inbox[c], "match_found")
    BY <1>1 DEF Token, TokenSound, IsTold
  <2>2. p.info = NoInfo
    BY <1>1, <1>3 DEF LinkSound, At
  <2>. QED  BY <2>1, <2>2 DEF IsTold
<1>4. TokenSound(p, inbox[c], outbox[c], Waiting(queue, c))
  <2>1. ~ Enabling(inbox[c]) /\ ~ LogsIn(outbox[c])
    BY <1>1 DEF Token, TokenSound
  <2>2. ~ Asks(outbox[c]) /\ ~ Waiting(queue, c)
    BY <1>1 DEF Token, TokenSound
  <2>3. OneEnabling(inbox[c])
    BY <2>1 DEF Enabling, OneEnabling
  <2>. QED  BY <1>3, <1>5, <2>1, <2>2, <2>3 DEF TokenSound
<1>6. TellsColor(session.colors[c], p, inbox[c])
  BY <1>5, UntoldColor
<1>7. inbox[c] \in Seq(Messages) /\ outbox[c] \in Outboxes
  BY <1>1 DEF TypeInv
<1>8. Fits(c, p, inbox[c], outbox[c])
  BY <1>1, <1>3, <1>4, <1>5, <1>6, <1>7 DEF Fits, LinkSound, At
<1>9. client' = [client EXCEPT ![c] = p]
  BY <1>1 DEF EnterLobby, TypeInv
<1>. QED  BY <1>3, <1>8, <1>9

\* The texts that may be under way to the server.
LEMMA Texts ==
    /\ << >> \in Open /\ ~ Asks(<< >>) /\ ~ LogsIn(<< >>)
    /\ <<"login">> \in Open /\ ~ Asks(<<"login">>) /\ LogsIn(<<"login">>)
    /\ <<"join_queue">> \in Open /\ Asks(<<"join_queue">>) /\ ~ LogsIn(<<"join_queue">>)
    /\ <<"close">> \in Outboxes /\ ~ Asks(<<"close">>) /\ ~ LogsIn(<<"close">>)
    /\ <<"login", "close">> \in Outboxes /\ ~ Asks(<<"login", "close">>)
                                        /\ LogsIn(<<"login", "close">>)
    /\ <<"join_queue", "close">> \in Outboxes /\ Asks(<<"join_queue", "close">>)
                                             /\ ~ LogsIn(<<"join_queue", "close">>)
    /\ Open \subseteq Outboxes
<1>1. /\ \A x, y : <<x>> = <<y>> => x = y
      /\ \A x, y, z : <<x, z>> = <<y, z>> => x = y
      /\ \A x : << >> # <<x>>
      /\ \A x, y : << >> # <<x, y>>
      /\ \A x, y, z : <<z>> # <<x, y>>
  <2>1. \A x, y : <<x>> = <<y>> => x = y
    OBVIOUS
  <2>2. ASSUME NEW x, NEW y, NEW z, <<x, z>> = <<y, z>> PROVE x = y
    BY <2>2
  <2>3. \A x : << >> # <<x>>
    OBVIOUS
  <2>4. \A x, y : << >> # <<x, y>>
    OBVIOUS
  <2>5. ASSUME NEW x, NEW y, NEW z, <<z>> = <<x, y>> PROVE FALSE
    <3>1. Len(<<z>>) = 1 /\ Len(<<x, y>>) = 2
      OBVIOUS
    <3>. QED  BY <2>5, <3>1, Zenon
  <2>. QED  BY <2>1, <2>2, <2>3, <2>4, <2>5, Zenon
<1>2. "login" # "join_queue" /\ "login" # "close" /\ "join_queue" # "close"
  OBVIOUS
<1>. QED  BY <1>1, <1>2, Zenon DEF Open, Outboxes, Asks, LogsIn

LEMMA ClickPlayFits ==
    ASSUME IInv, NEW c \in Connections, ClickPlay(c)
    PROVE  \E p, o : Fits(c, p, inbox[c], o) /\ client' = [client EXCEPT ![c] = p]
                     /\ outbox' = [outbox EXCEPT ![c] = o]
                     /\ p.at = "lobby"
<1>. PICK p : p = [client[c] EXCEPT !.status = "Searching"]
  OBVIOUS
<1>. PICK o : o = IF c \in linked THEN Append(outbox[c], "join_queue") ELSE outbox[c]
  OBVIOUS
<1>1. /\ TypeInv /\ LinksSound /\ LinkSound(c) /\ Token(c) /\ client[c].at = "lobby"
      /\ Clickable(client[c])
  BY DEF IInv, LinksSound, ClickPlay, At, Clickable
<1>2. client[c] \in Processes /\ "Searching" \in Statuses
  BY <1>1 DEF TypeInv, Statuses
<1>3. /\ p \in Processes /\ p.at = "lobby" /\ p.user = client[c].user /\ p.info = client[c].info
      /\ p.status = "Searching"
  BY <1>1, <1>2 DEF Processes
<1>4. /\ ~ Clickable(p) /\ ~ Asks(outbox[c]) /\ ~ Waiting(queue, c) /\ ~ LogsIn(outbox[c])
      /\ OneEnabling(inbox[c]) /\ ~ Enabling(inbox[c]) /\ ~ IsTold(client[c], inbox[c])
  BY <1>1, <1>3 DEF Token, TokenSound, Clickable
<1>5. outbox[c] = << >>
  BY <1>1, <1>4 DEF LinkSound, At, Open, Asks, LogsIn
<1>6. o = IF c \in linked THEN <<"join_queue">> ELSE << >>
  BY <1>5
<1>7. o \in Open /\ o \in Outboxes /\ ~ LogsIn(o)
  <2>1. CASE c \in linked
    BY <1>6, <2>1, Texts
  <2>2. CASE c \notin linked
    BY <1>6, <2>2, Texts
  <2>. QED  BY <2>1, <2>2
<1>8. ~ IsTold(p, inbox[c])
  BY <1>1, <1>3, <1>4 DEF IsTold
<1>9. TokenSound(p, inbox[c], o, Waiting(queue, c))
  BY <1>3, <1>4, <1>7, <1>8 DEF TokenSound
<1>10. TellsColor(session.colors[c], p, inbox[c])
  BY <1>8, UntoldColor
<1>11. inbox[c] \in Seq(Messages)
  BY <1>1 DEF TypeInv
<1>12. Fits(c, p, inbox[c], o)
  BY <1>1, <1>3, <1>6, <1>7, <1>8, <1>9, <1>10, <1>11 DEF Fits
<1>13. client' = [client EXCEPT ![c] = p] /\ outbox' = [outbox EXCEPT ![c] = o]
  BY <1>1 DEF ClickPlay, SendJoinQueue, TypeInv
<1>. QED  BY <1>3, <1>12, <1>13

LEMMA EnterGameFits ==
    ASSUME IInv, NEW c \in Connections, NEW n \in 0 .. Len(inbox[c]), EnterGame(c, n)
    PROVE  \E p, b : Fits(c, p, b, outbox[c]) /\ client' = [client EXCEPT ![c] = p]
                     /\ inbox' = [inbox EXCEPT ![c] = b] /\ p.at = "game"
<1>. PICK p : p = [client[c] EXCEPT !.at = "game", !.status = "Idle"]
  OBVIOUS
<1>. PICK box \in Seq(Messages) : box = inbox[c]
  BY DEF IInv, TypeInv
<1>. PICK b : b = SubSeq(box, n + 1, Len(box))
  OBVIOUS
<1>1. TypeInv /\ LinksSound /\ LinkSound(c) /\ Token(c) /\ client[c].at = "leaving"
  BY DEF IInv, LinksSound, EnterGame, At
<1>2. client[c] \in Processes /\ "game" \in Stages /\ "Idle" \in Statuses
  BY <1>1 DEF TypeInv, Stages, Statuses
<1>3. /\ p \in Processes /\ p.at = "game" /\ p.user = client[c].user /\ p.info = client[c].info
  BY <1>2 DEF Processes
<1>4. /\ b \in Seq(Messages) /\ box \in Seq(Messages) /\ n \in Nat
      /\ \A i \in DOMAIN b : i + n \in DOMAIN box /\ b[i] = box[i + n]
  BY FirstGone
<1>5. TokenSound(p, b, outbox[c], Waiting(queue, c))
  <2>1. Holds(b, "match_found") => Holds(box, "match_found")
    BY ONLY <1>4, HeldBefore
  <2>. QED  BY <1>1, <1>3, <2>1 DEF Token, TokenSound, IsTold
<1>7. TellsColor(session.colors[c], p, b)
  <2>1. TellsColor(session.colors[c], client[c], box)
    BY DEF IInv
  <2>2. TellsColor(session.colors[c], client[c], b)
    BY ONLY <1>4, <2>1, ColorLess
  <2>. QED  BY <1>3, <2>2 DEF TellsColor
<1>8. outbox[c] \in Outboxes
  BY <1>1 DEF TypeInv
<1>9. Fits(c, p, b, outbox[c])
  BY <1>1, <1>3, <1>4, <1>5, <1>7, <1>8 DEF Fits, LinkSound, At
<1>10. client' = [client EXCEPT ![c] = p] /\ inbox' = [inbox EXCEPT ![c] = b]
  BY <1>1 DEF EnterGame, TypeInv
<1>. QED  BY <1>3, <1>9, <1>10

LEMMA GameFrameFits ==
    ASSUME IInv, NEW c \in Connections, GameFrame(c)
    PROVE  \E p : Fits(c, p, << >>, outbox[c]) /\ client' = [client EXCEPT ![c] = p]
                  /\ p.at \in {"game", "over"}
<1>. PICK p : p = IF \E i \in DOMAIN inbox[c] : inbox[c][i].type = "game_ended"
                  THEN [client[c] EXCEPT !.at = "over"] ELSE client[c]
  OBVIOUS
<1>1. TypeInv /\ LinksSound /\ LinkSound(c) /\ Token(c) /\ client[c].at = "game"
  BY DEF IInv, LinksSound, GameFrame, At
<1>2. client[c] \in Processes /\ "over" \in Stages
  BY <1>1 DEF TypeInv, Stages
<1>3. /\ p \in Processes /\ p.at \in {"game", "over"} /\ p.user = client[c].user
      /\ p.info = client[c].info
  BY <1>1, <1>2 DEF Processes
<1>4. TokenSound(p, << >>, outbox[c], Waiting(queue, c))
  BY <1>1, <1>3, EmptyBox DEF Token, TokenSound, IsTold
<1>6. TellsColor(session.colors[c], p, << >>)
  BY <1>3, EmptyBox
<1>7. outbox[c] \in Outboxes /\ << >> \in Seq(Messages)
  BY <1>1 DEF TypeInv
<1>8. Fits(c, p, << >>, outbox[c])
  BY <1>1, <1>3, <1>4, <1>6, <1>7 DEF Fits, LinkSound, At
<1>9. client' = [client EXCEPT ![c] = p]
  BY <1>1 DEF GameFrame, TypeInv
<1>. QED  BY <1>3, <1>8, <1>9

\* A connection that closes when one text is under way.
LEMMA ClosedAfter == ASSUME NEW x, NEW y PROVE Append(<<x>>, y) = <<x, y>>
<1>1. PICK S : x \in S /\ y \in S
  <2>1. x \in {x, y} /\ y \in {x, y}
    OBVIOUS
  <2>. QED  BY <2>1, Zenon
<1>2. <<x>> \in Seq(S)
  BY <1>1
<1>3. PICK a \in Seq(S) : a = <<x>>
  BY <1>2, Zenon
<1>4. Len(a) = 1 /\ a[1] = x
  BY <1>3
<1>5. PICK b : b = Append(a, y)
  OBVIOUS
<1>6. b \in Seq(S) /\ Len(b) = Len(a) + 1
  BY <1>1, <1>5
<1>7. b[Len(a) + 1] = y
  BY <1>1, <1>5
<1>8. \A i \in 1 .. Len(a) : b[i] = a[i]
  BY <1>1, <1>5
<1>9. Len(b) = 2 /\ b[1] = x /\ b[2] = y
  BY <1>4, <1>6, <1>7, <1>8
<1>10. b \in Seq(S)
  BY <1>6
<1>11. b = <<b[1], b[2]>>
  BY ONLY <1>9, <1>10
<1>12. b = <<x, y>>
  BY <1>9, <1>11, Zenon
<1>. QED  BY <1>3, <1>5, <1>12, Zenon

\* A process that does not host ends.
LEMMA EndFits ==
    ASSUME IInv, NEW c \in Connections, c # host, End(c), client[c].at \notin {"off", "gone"}
    PROVE  \E p, o : Fits(c, p, << >>, o) /\ client' = [client EXCEPT ![c] = p]
                     /\ outbox' = [outbox EXCEPT ![c] = o] /\ p.at = "gone"
<1>. PICK p : p = Ended(client[c])
  OBVIOUS
<1>. PICK o : o = IF c \in linked THEN Append(outbox[c], "close") ELSE outbox[c]
  OBVIOUS
<1>1. TypeInv /\ LinksSound /\ LinkSound(c) /\ Token(c)
  BY DEF IInv, LinksSound
<1>2. client[c] \in Processes /\ outbox[c] \in Open
  BY <1>1 DEF TypeInv, LinkSound, At
<1>3. /\ p.at = "gone" /\ p.user = client[c].user /\ p.info = NoInfo /\ p.status = "Idle"
      /\ p \in Processes
  BY <1>2 DEF Ended, Process, Processes, Stages, Statuses, Infos, NoInfo
<1>4. /\ o \in Outboxes /\ (c \notin linked => o = << >>)
      /\ (Asks(o) <=> Asks(outbox[c])) /\ (LogsIn(o) <=> LogsIn(outbox[c]))
  <2>1. CASE c \notin linked
    BY <1>1, <2>1 DEF LinkSound, Outboxes, Open
  <2>2. CASE c \in linked /\ outbox[c] = << >>
    <3>1. o = <<"close">>
      BY <2>2
    <3>. QED  BY <2>2, <3>1 DEF Outboxes, Asks, LogsIn
  <2>3. CASE c \in linked /\ outbox[c] = <<"login">>
    <3>1. o = <<"login", "close">>
      BY <2>3, ClosedAfter, Zenon
    <3>. QED  BY <2>3, <3>1, Texts
  <2>4. CASE c \in linked /\ outbox[c] = <<"join_queue">>
    <3>1. o = <<"join_queue", "close">>
      BY <2>4, ClosedAfter, Zenon
    <3>. QED  BY <2>4, <3>1, Texts
  <2>. QED  BY <1>2, <2>1, <2>2, <2>3, <2>4 DEF Open
<1>5. TokenSound(p, << >>, o, Waiting(queue, c))
  BY <1>1, <1>3, <1>4, EmptyBox DEF Token, TokenSound, IsTold
<1>6. TellsColor(session.colors[c], p, << >>)
  BY <1>3, EmptyBox
<1>7. << >> \in Seq(Messages)
  OBVIOUS
<1>8. Fits(c, p, << >>, o)
  BY <1>3, <1>4, <1>5, <1>6, <1>7 DEF Fits
<1>9. client' = [client EXCEPT ![c] = p] /\ outbox' = [outbox EXCEPT ![c] = o]
  BY <1>1 DEF End, TypeInv
<1>. QED  BY <1>3, <1>8, <1>9

-----------------------------------------------------------------------------
(* Steps of the server *)

\* The boxes of all processes, for a session s, processes ps, texts outs under way
\* and a queue q.  The processes in calm cannot ask again.
BoxesSound(s, ps, boxes, outs, q, calm) ==
    /\ boxes \in [Connections -> Seq(Messages)]
    /\ \A d \in Connections :
          /\ ps[d].at \in {"off", "gone"} => boxes[d] = << >>
          /\ TokenSound(ps[d], boxes[d], outs[d], Waiting(q, d))
          /\ TellsColor(s.colors[d], ps[d], boxes[d])
          /\ d \in calm => ~ Enabling(boxes[d])

\* The messages that change what a process may do.
Weighty(m) == Enables(m) \/ m.type \in {"login_ok", "match_found"}

\* What is told one process or all of them.
LEMMA TellSound ==
    ASSUME TypeInv, LinksSound, NEW s, NEW ps, NEW boxes, NEW outs, NEW q, NEW calm,
           BoxesSound(s, ps, boxes, outs, q, calm), NEW to, NEW m \in Messages,
           \A d \in Connections : ps[d].at \in {"off", "gone"} => client[d].at \in {"off", "gone"},
           Weighty(m) =>
              \A d \in to \cap Connections :
                 /\ TokenSound(ps[d], Append(boxes[d], m), outs[d], Waiting(q, d))
                 /\ d \in calm => ~ Enables(m)
                 /\ m.type = "match_found" /\ s.colors[d] # NoColor => m.color = s.colors[d]
    PROVE  BoxesSound(s, ps, Tell(boxes, to, m), outs, q, calm)
<1>. PICK more : more = Tell(boxes, to, m)
  OBVIOUS
<1>1. /\ more \in [Connections -> Seq(Messages)]
      /\ \A d \in Connections :
            \/ more[d] = boxes[d]
            \/ more[d] = Append(boxes[d], m) /\ d \in to /\ d \in linked /\ ~ At(d, "gone")
  <2>1. boxes \in [Connections -> Seq(Messages)]
    BY DEF BoxesSound
  <2>. QED  BY <2>1, TellBoxes
<1>2. ASSUME NEW d \in Connections, more[d] = Append(boxes[d], m), d \in to, d \in linked,
             ~ At(d, "gone")
      PROVE  /\ ps[d].at \notin {"off", "gone"}
             /\ TokenSound(ps[d], more[d], outs[d], Waiting(q, d))
             /\ TellsColor(s.colors[d], ps[d], more[d])
             /\ d \in calm => ~ Enabling(more[d])
  <2>. PICK box \in Seq(Messages) : box = boxes[d]
    BY DEF BoxesSound
  <2>. PICK p : p = ps[d]
    OBVIOUS
  <2>. PICK color : color = s.colors[d]
    OBVIOUS
  <2>1. more[d] = Append(box, m)
    BY <1>2
  <2>2. /\ TokenSound(p, box, outs[d], Waiting(q, d))
        /\ TellsColor(color, p, box)
        /\ d \in calm => ~ Enabling(box)
    BY <1>2 DEF BoxesSound
  <2>3. Enabling(Append(box, m)) <=> Enabling(box) \/ Enables(m)
    BY OneMore
  <2>4. p.at \notin {"off", "gone"}
    <3>1. client[d].at # "off"
      BY <1>2 DEF LinksSound, LinkSound, At
    <3>. QED  BY <1>2, <3>1 DEF At
  <2>5. TokenSound(p, Append(box, m), outs[d], Waiting(q, d))
    <3>1. CASE Weighty(m)
      BY <1>2, <3>1
    <3>2. CASE ~ Weighty(m)
      <4>1. m.type \notin {"error", "queue_timeout", "login_ok", "match_found"}
        BY <3>2 DEF Weighty, Enables
      <4>2. Waiting(q, d) \in BOOLEAN
        BY DEF Waiting
      <4>. QED  BY <2>2, <4>1, <4>2, NeutralToken
    <3>. QED  BY <3>1, <3>2
  <2>6. d \in calm => ~ Enabling(Append(box, m))
    BY <1>2, <2>2, <2>3 DEF Weighty
  <2>7. TellsColor(color, p, Append(box, m))
    <3>1. m.type = "match_found" /\ color # NoColor => m.color = color
      BY <1>2 DEF Weighty
    <3>. QED  BY <2>2, <3>1, ColorMore
  <2>. QED  BY <2>1, <2>4, <2>5, <2>6, <2>7
<1>3. ASSUME NEW d \in Connections
      PROVE  /\ ps[d].at \in {"off", "gone"} => more[d] = << >>
             /\ TokenSound(ps[d], more[d], outs[d], Waiting(q, d))
             /\ TellsColor(s.colors[d], ps[d], more[d])
             /\ d \in calm => ~ Enabling(more[d])
  <2>1. CASE more[d] = boxes[d]
    BY <2>1 DEF BoxesSound
  <2>2. CASE more[d] = Append(boxes[d], m) /\ d \in to /\ d \in linked /\ ~ At(d, "gone")
    BY <1>2, <2>2
  <2>. QED  BY <1>1, <2>1, <2>2
<1>4. BoxesSound(s, ps, more, outs, q, calm)
  BY <1>1, <1>3 DEF BoxesSound
<1>. QED  BY <1>4

\* A step in which the server tells its processes something, and one of them at
\* most is over.
LEMMA ServerStep ==
    ASSUME IInv, host # NoConnection, NEW calm,
           BoxesSound(session', client', inbox', outbox', queue', calm),
           client' \in [Connections -> Processes],
           \A d \in Connections :
              /\ client'[d].user = client[d].user
              /\ client'[d] = client[d] \/ (client'[d].at = "over" /\ client[d].at = "game"),
           host' = host, linked' \in SUBSET linked, host \in linked',
           session' \in SessionState, queue' \in Fair, NoMatchNoSeat(session'),
           grace' \in [Users -> Colors \cup {NoColor}], IsStore(store', Users),
           outbox' \in [Connections -> Outboxes],
           \A d \in Connections :
              /\ outbox[d] \in Open => outbox'[d] \in Open
              /\ d \notin linked' => /\ outbox'[d] = << >>
                                     /\ session'.users[d] = NoUser /\ session'.colors[d] = NoColor
              /\ session'.users[d] \in {NoUser, client[d].user}
              /\ Waiting(queue', d) => d \in linked' /\ session'.colors[d] = NoColor,
           \A i \in DOMAIN queue' : queue'[i].user = client[queue'[i].conn].user
    PROVE  IInv'
<1>0. TypeInv /\ LinksSound /\ \A d \in Connections : LinkSound(d)
  BY DEF IInv, LinksSound
<1>1. TypeInv'
  <2>1. inbox' \in [Connections -> Seq(Messages)]
    BY DEF BoxesSound
  <2>2. linked' \in SUBSET Connections /\ host' \in Connections \cup {NoConnection}
    BY <1>0 DEF TypeInv
  <2>. QED  BY <2>1, <2>2 DEF TypeInv
<1>2. ASSUME NEW d \in Connections PROVE LinkSound(d)'
  <2>1. LinkSound(d) /\ client'[d].user = client[d].user
    BY <1>0
  <2>2. client'[d].at \in {"off", "gone"} => inbox'[d] = << >>
    BY DEF BoxesSound
  <2>3. Waiting(queue, d)' => d \in linked' /\ session'.colors[d] = NoColor
    BY DEF Waiting
  <2>4. CASE client'[d] = client[d]
    BY <2>1, <2>2, <2>3, <2>4 DEF LinkSound, At
  <2>5. CASE client'[d].at = "over" /\ client[d].at = "game"
    <3>1. outbox'[d] \in Open \/ client[d].at = "gone"
      BY <2>1 DEF LinkSound, At
    <3>. QED  BY <2>1, <2>2, <2>3, <2>5, <3>1 DEF LinkSound, At
  <2>. QED  BY <2>4, <2>5
<1>3. LinksSound'
  <2>1. client'[host'].at \notin {"off", "gone"}
    BY <1>0 DEF LinksSound, TypeInv
  <2>2. \A i \in DOMAIN queue' : queue'[i].user = client'[queue'[i].conn].user
    BY EntryTyped
  <2>. QED  BY <1>2, <2>1, <2>2 DEF LinksSound
<1>4. \A d \in Connections : Token(d)'
  <2>1. \A d \in Connections : Token(d)' <=>
            TokenSound(client'[d], inbox'[d], outbox'[d], Waiting(queue', d))
    BY DEF Token, Waiting
  <2>. QED  BY <2>1 DEF BoxesSound
<1>5. \A d \in Connections : TellsColor(session'.colors[d], client'[d], inbox'[d])
  BY DEF BoxesSound
<1>6. NoMatchNoSeat(session)'
  BY DEF NoMatchNoSeat
<1>. QED  BY <1>1, <1>3, <1>4, <1>5, <1>6 DEF IInv

\* The first text is taken; at most the closing of the connection is left.
LEMMA TextTaken ==
    ASSUME NEW out \in Outboxes, out # << >>
    PROVE  /\ Tail(out) \in {<< >>, <<"close">>}
           /\ out \in Open => Tail(out) = << >>
           /\ Head(out) = "login" => LogsIn(out)
           /\ Head(out) = "join_queue" => Asks(out)
           /\ Head(out) = "close" => out = <<"close">> /\ Tail(out) = << >>
<1>1. \A x : Tail(<<x>>) = << >> /\ Head(<<x>>) = x
  OBVIOUS
<1>2. \A x, y : Tail(<<x, y>>) = <<y>>
  <2>1. ASSUME NEW x, NEW y PROVE Tail(<<x, y>>) = <<y>>
    OBVIOUS
  <2>. QED  BY <2>1, Zenon
<1>3. \A x, y : Head(<<x, y>>) = x
  <2>1. ASSUME NEW x, NEW y PROVE Head(<<x, y>>) = x
    OBVIOUS
  <2>. QED  BY <2>1
<1>4. \A x, y, z : <<z>> # <<x, y>>
  <2>1. ASSUME NEW x, NEW y, NEW z, <<z>> = <<x, y>> PROVE FALSE
    <3>1. Len(<<z>>) = 1 /\ Len(<<x, y>>) = 2
      OBVIOUS
    <3>. QED  BY <2>1, <3>1, Zenon
  <2>. QED  BY <2>1, Zenon
<1>5. \A x, y : << >> # <<x, y>>
  OBVIOUS
<1>6. "login" # "join_queue" /\ "login" # "close" /\ "join_queue" # "close"
  OBVIOUS
<1>7. CASE out \in {<<"login">>, <<"join_queue">>, <<"close">>}
  BY <1>1, <1>6, <1>7, Zenon DEF Asks, LogsIn
<1>8. CASE out \in {<<"login", "close">>, <<"join_queue", "close">>}
  <2>1. PICK x : x \in {"login", "join_queue"} /\ out = <<x, "close">>
    BY <1>8, Zenon
  <2>2. Tail(out) = <<"close">> /\ Head(out) = x /\ out # << >> /\ \A z : out # <<z>>
    BY <1>2, <1>3, <1>4, <1>5, <2>1, Zenon
  <2>3. out \notin Open
    BY <2>2, Zenon DEF Open
  <2>. QED  BY <1>6, <2>1, <2>2, <2>3, Zenon DEF Asks, LogsIn
<1>. QED  BY <1>7, <1>8, Zenon DEF Outboxes, Open

\* Nothing is asked any more.
LEMMA DoneToken ==
    ASSUME NEW p, NEW box, NEW out, NEW o, NEW waits \in BOOLEAN, NEW still \in BOOLEAN,
           TokenSound(p, box, out, waits), ~ Asks(o), ~ LogsIn(o), still => waits \/ Asks(out)
    PROVE  TokenSound(p, box, o, still)
BY DEF TokenSound

\* What a handler finds.  Who waits or has sent something was not told of a match.
LEMMA HandledBoxes ==
    ASSUME IInv, NEW c \in Connections, NEW command, Handles(c, command), NEW t, NEW q, NEW calm,
           \A d \in Connections : Waiting(q, d) => Waiting(queue, d) \/ (d = c /\ Asks(outbox[c])),
           \A d \in Connections : \/ t.colors[d] \in {NoColor, session.colors[d]}
                                  \/ ~ IsTold(client[d], inbox[d]),
           \A d \in calm : ~ Enabling(inbox[d])
    PROVE  BoxesSound(t, client, inbox, outbox', q, calm)
<1>1. /\ TypeInv /\ LinksSound /\ outbox \in [Connections -> Outboxes]
      /\ \A d \in Connections : Token(d) /\ LinkSound(d)
  BY DEF IInv, LinksSound, TypeInv
<1>2. /\ outbox[c] # << >> /\ outbox' = [outbox EXCEPT ![c] = Tail(outbox[c])]
      /\ outbox[c] \in Outboxes
  BY <1>1 DEF Handles
<1>3. ~ Asks(outbox'[c]) /\ ~ LogsIn(outbox'[c])
  BY <1>1, <1>2, TextTaken, Texts
<1>4. ASSUME NEW d \in Connections PROVE TokenSound(client[d], inbox[d], outbox'[d], Waiting(q, d))
  <2>0. Waiting(q, d) \in BOOLEAN /\ Waiting(queue, d) \in BOOLEAN
    BY DEF Waiting
  <2>1. TokenSound(client[d], inbox[d], outbox[d], Waiting(queue, d))
    BY <1>1 DEF Token
  <2>2. CASE d = c
    <3>1. Waiting(q, d) => Waiting(queue, d) \/ Asks(outbox[d])
      BY <2>2
    <3>2. ~ Asks(outbox'[d]) /\ ~ LogsIn(outbox'[d])
      BY <1>3, <2>2
    <3>. QED  BY <2>0, <2>1, <3>1, <3>2, DoneToken
  <2>3. CASE d # c
    <3>1. outbox'[d] = outbox[d] /\ (Waiting(q, d) => Waiting(queue, d))
      BY <1>1, <1>2, <2>3
    <3>. QED  BY <2>0, <2>1, <3>1, LessToken
  <2>. QED  BY <2>2, <2>3
<1>5. ASSUME NEW d \in Connections PROVE TellsColor(t.colors[d], client[d], inbox[d])
  <2>1. TellsColor(session.colors[d], client[d], inbox[d])
    BY DEF IInv
  <2>. QED  BY <2>1, NoSeatColor, UntoldColor
<1>6. inbox \in [Connections -> Seq(Messages)]
      /\ \A d \in Connections : client[d].at \in {"off", "gone"} => inbox[d] = << >>
  BY <1>1 DEF TypeInv, LinkSound
<1>. QED  BY <1>4, <1>5, <1>6 DEF BoxesSound

\* What a handler leaves of the texts.
LEMMA HandledTexts ==
    ASSUME IInv, NEW c \in Connections, NEW command, Handles(c, command)
    PROVE  /\ outbox' \in [Connections -> Outboxes]
           /\ \A d \in Connections : /\ outbox[d] \in Open => outbox'[d] \in Open
                                     /\ d # c => outbox'[d] = outbox[d]
           /\ ~ Asks(outbox'[c]) /\ ~ LogsIn(outbox'[c])
           /\ command = "login" => LogsIn(outbox[c])
           /\ command = "join_queue" => Asks(outbox[c])
           /\ command = "close" => At(c, "gone") /\ outbox'[c] = << >>
           /\ c \in linked /\ host # NoConnection
<1>1. TypeInv /\ LinksSound /\ LinkSound(c) /\ outbox \in [Connections -> Outboxes]
  BY DEF IInv, LinksSound, TypeInv
<1>2. /\ outbox[c] # << >> /\ outbox' = [outbox EXCEPT ![c] = Tail(outbox[c])]
      /\ outbox[c] \in Outboxes /\ Head(outbox[c]) = command
  BY <1>1 DEF Handles
<1>3. /\ Tail(outbox[c]) \in {<< >>, <<"close">>}
      /\ outbox[c] \in Open => Tail(outbox[c]) = << >>
      /\ command = "login" => LogsIn(outbox[c])
      /\ command = "join_queue" => Asks(outbox[c])
      /\ command = "close" => outbox[c] = <<"close">> /\ Tail(outbox[c]) = << >>
  BY <1>2, TextTaken
<1>4. Tail(outbox[c]) \in Outboxes /\ ~ Asks(Tail(outbox[c])) /\ ~ LogsIn(Tail(outbox[c]))
  BY <1>3, Texts
<1>5. command = "close" => At(c, "gone")
  <2>1. <<"close">> \notin Open
    <3>1. \A x, y : <<x>> = <<y>> => x = y
      OBVIOUS
    <3>2. << >> # <<"close">> /\ "close" # "login" /\ "close" # "join_queue"
      OBVIOUS
    <3>. QED  BY <3>1, <3>2, Zenon DEF Open
  <2>. QED  BY <1>1, <1>3, <2>1 DEF LinkSound
<1>6. c \in linked /\ host # NoConnection
  BY <1>1, <1>2 DEF LinkSound, LinksSound
<1>. QED  BY <1>1, <1>2, <1>3, <1>4, <1>5, <1>6, Texts

\* What a login makes of a session, whichever way it is answered.
LoggedIn(s, t, c, u) ==
    /\ t \in SessionState /\ t.phase = s.phase /\ t.fixedRoster = s.fixedRoster
    /\ t.white = s.white /\ t.black = s.black
    /\ \A d \in Connections :
          /\ t.users[d] \in {s.users[d], NoUser} \/ (d = c /\ t.users[d] = u)
          /\ t.colors[d] \in {s.colors[d], NoColor}
               \/ (d = c /\ t.colors[d] \in {ExpectedColorForUsername(s, u), s.reserved[u]})
    /\ \A v \in Users : t.reserved[v] \in {s.reserved[v], NoColor}
    /\ ~ s.fixedRoster /\ s.reserved[u] = NoColor =>
          \/ t = s
          \/ /\ s.users[c] = NoUser /\ s.connections[u] = NoConnection
             /\ t.colors = s.colors
             /\ \A d \in Connections : t.users[d] = IF d = c THEN u ELSE s.users[d]
             /\ \A v \in Users : t.connections[v] = IF v = u THEN c ELSE s.connections[v]

LEMMA LoginEffect ==
    ASSUME NEW s \in SessionState, NEW c \in Connections, NEW u \in Users, NEW t,
           \/ t = s
           \/ CanReconnect(s, u) /\ t = Reconnect(s, c, u)
           \/ s.fixedRoster /\ t = Authenticate(s, c, u)
           \/ ~ s.fixedRoster /\ t = AuthenticateLobby(s, c, u)
    PROVE  LoggedIn(s, t, c, u)
<1>1. CASE t = s
  BY <1>1 DEF LoggedIn
<1>2. CASE CanReconnect(s, u) /\ t = Reconnect(s, c, u)
  <2>1. s.reserved[u] # NoColor
    BY <1>2 DEF CanReconnect
  <2>2. PICK old : old = s.connections[u]
    OBVIOUS
  <2>3. /\ t \in SessionState
        /\ t.phase = s.phase /\ t.fixedRoster = s.fixedRoster
        /\ t.white = s.white /\ t.black = s.black
        /\ \A v \in Users : t.reserved[v] = IF v = u THEN NoColor ELSE s.reserved[v]
        /\ \A d \in Connections :
              /\ t.colors[d] = IF d = c THEN s.reserved[u] ELSE IF d = old THEN NoColor ELSE s.colors[d]
              /\ t.users[d] = IF d = c THEN u ELSE IF d = old THEN NoUser ELSE s.users[d]
    BY <1>2, <2>2, ReconnectFields
  <2>. QED  BY <2>1, <2>3 DEF LoggedIn
<1>3. CASE s.fixedRoster /\ t = Authenticate(s, c, u) /\ t # s
  <2>1. /\ t \in SessionState
        /\ t.phase = s.phase /\ t.fixedRoster = s.fixedRoster
        /\ t.white = s.white /\ t.black = s.black /\ t.reserved = s.reserved
        /\ \A d \in Connections :
              /\ t.colors[d] = IF d = c THEN ExpectedColorForUsername(s, u) ELSE s.colors[d]
              /\ t.users[d] = IF d = c THEN u ELSE s.users[d]
    <3>1. PICK x : x = Authenticate(s, c, u) /\ x # s
      BY <1>3
    <3>2. /\ x \in SessionState
          /\ x.phase = s.phase /\ x.fixedRoster = s.fixedRoster
          /\ x.white = s.white /\ x.black = s.black /\ x.reserved = s.reserved
          /\ \A d \in Connections :
                /\ x.colors[d] = IF d = c THEN ExpectedColorForUsername(s, u) ELSE s.colors[d]
                /\ x.users[d] = IF d = c THEN u ELSE s.users[d]
      BY <3>1, AuthenticateFields
    <3>. QED  BY <1>3, <3>1, <3>2
  <2>. QED  BY <1>3, <2>1 DEF LoggedIn
<1>4. CASE ~ s.fixedRoster /\ t = AuthenticateLobby(s, c, u) /\ t # s
  <2>1. /\ s.users[c] = NoUser /\ s.connections[u] = NoConnection
        /\ t \in SessionState
        /\ t.phase = s.phase /\ t.fixedRoster = s.fixedRoster
        /\ t.white = s.white /\ t.black = s.black
        /\ t.reserved = s.reserved /\ t.colors = s.colors
        /\ \A d \in Connections : t.users[d] = IF d = c THEN u ELSE s.users[d]
        /\ \A v \in Users : t.connections[v] = IF v = u THEN c ELSE s.connections[v]
    BY <1>4, AuthenticateLobbyFields
  <2>. QED  BY <1>4, <2>1 DEF LoggedIn
<1>. QED  BY <1>1, <1>2, <1>3, <1>4

LEMMA LoginSession ==
    ASSUME IInv, NEW c \in Connections, NEW u \in Users, HandleLogin(c, u)
    PROVE  /\ LoggedIn(session, session', c, u)
           /\ grace' \in [Users -> Colors \cup {NoColor}]
           /\ \A v \in Users : grace'[v] \in {grace[v], NoColor}
<1>1. session \in SessionState /\ grace \in [Users -> Colors \cup {NoColor}]
  BY DEF IInv, TypeInv
<1>2. \/ session' = session
      \/ CanReconnect(session, u) /\ session' = Reconnect(session, c, u)
      \/ session.fixedRoster /\ session' = Authenticate(session, c, u)
      \/ ~ session.fixedRoster /\ session' = AuthenticateLobby(session, c, u)
  BY DEF HandleLogin
<1>3. grace' = grace \/ grace' = [grace EXCEPT ![u] = NoColor]
  BY DEF HandleLogin
<1>4. /\ grace' \in [Users -> Colors \cup {NoColor}]
      /\ \A v \in Users : grace'[v] \in {grace[v], NoColor}
  BY <1>1, <1>3
<1>5. PICK t : t = session'
  OBVIOUS
<1>6. LoggedIn(session, t, c, u)
  BY <1>1, <1>2, <1>5, LoginEffect
<1>. QED  BY <1>4, <1>5, <1>6

LEMMA LoginAnswered ==
    ASSUME IInv, NEW c \in Connections, NEW u \in Users, HandleLogin(c, u)
    PROVE  \/ \E m \in {UnknownUsername, NotAccepted} : inbox' = Tell(inbox, {c}, m)
           \/ \E label \in {"none", "white", "black"} : inbox' = Tell(inbox, {c}, LoginOk(label))
           \/ /\ session.reserved[u] # NoColor
              /\ \E label \in {"white", "black"} :
                    inbox' = Tell(Tell(Tell(inbox, Connections, PlayerReconnected(u)),
                                       {c}, LoginOk(label)), {c}, GameStarted(session'))
<1>1. \A color : W!ColorLabel(color) \in {"white", "black"}
  BY DEF W!ColorLabel
<1>2. CASE grace[u] # NoColor /\ CanReconnect(session, u)
  <2>1. inbox' = BackToGame(c, u, session') /\ session.reserved[u] # NoColor
    BY <1>2, Zenon DEF HandleLogin, CanReconnect
  <2>. QED  BY <1>1, <2>1, Zenon DEF BackToGame
<1>3. CASE grace[u] # NoColor /\ ~ CanReconnect(session, u)
  BY <1>3, Zenon DEF HandleLogin
<1>4. CASE grace[u] = NoColor
  <2>1. PICK label : inbox' = Tell(inbox, {c}, NotAccepted)
                     \/ (label \in {"none", "white", "black"} /\ inbox' = Tell(inbox, {c}, LoginOk(label)))
    <3>1. PICK color, enters :
             inbox' = Tell(inbox, {c},
                           IF ~ enters THEN NotAccepted
                           ELSE LoginOk(IF color = NoColor THEN "none" ELSE W!ColorLabel(color)))
      BY <1>4, Zenon DEF HandleLogin
    <3>2. PICK label : label = IF color = NoColor THEN "none" ELSE W!ColorLabel(color)
      BY Zenon
    <3>3. label \in {"none", "white", "black"}
      BY <1>1, <3>2
    <3>4. CASE enters
      BY <3>1, <3>2, <3>3, <3>4, Zenon
    <3>5. CASE ~ enters
      BY <3>1, <3>5, Zenon
    <3>. QED  BY <3>4, <3>5, Zenon
  <2>. QED  BY <2>1, Zenon
<1>. QED  BY <1>2, <1>3, <1>4

LEMMA LoginKeeps ==
    ASSUME IInv, NEW c \in Connections, NEW u \in Users, HandleLogin(c, u)
    PROVE  IInv'
<1>1. /\ TypeInv /\ LinksSound /\ Token(c) /\ Handles(c, "login") /\ u = client[c].user
      /\ queue' = queue /\ linked' = linked /\ client' = client /\ store' = store /\ host' = host
      /\ \A d \in Connections : LinkSound(d)
  BY DEF IInv, LinksSound, HandleLogin, Handles
<1>2. /\ outbox' \in [Connections -> Outboxes]
      /\ \A d \in Connections : /\ outbox[d] \in Open => outbox'[d] \in Open
                                /\ d # c => outbox'[d] = outbox[d]
      /\ ~ Asks(outbox'[c]) /\ ~ LogsIn(outbox'[c]) /\ LogsIn(outbox[c])
      /\ c \in linked /\ host # NoConnection
  BY <1>1, HandledTexts
<1>3. /\ client[c].at \in {"login", "gone"} /\ ~ Waiting(queue, c)
      /\ ~ Holds(inbox[c], "login_ok") /\ ~ Enabling(inbox[c]) /\ ~ IsTold(client[c], inbox[c])
  BY <1>1, <1>2 DEF Token, TokenSound
<1>4. /\ LoggedIn(session, session', c, u)
      /\ grace' \in [Users -> Colors \cup {NoColor}]
  BY LoginSession
<1>5. \A d \in Connections : d = c \/ session'.colors[d] \in {NoColor, session.colors[d]}
  BY <1>4 DEF LoggedIn
<1>. DEFINE Sound(boxes, calm) == BoxesSound(session', client, boxes, outbox', queue, calm)
<1>6. PICK calm : calm = {c}
  OBVIOUS
<1>7. Sound(inbox, calm)
  <2>1. \A d \in Connections : Waiting(queue, d) => Waiting(queue, d) \/ (d = c /\ Asks(outbox[c]))
    OBVIOUS
  <2>2. \A d \in Connections : \/ session'.colors[d] \in {NoColor, session.colors[d]}
                               \/ ~ IsTold(client[d], inbox[d])
    BY <1>3, <1>5
  <2>3. \A d \in calm : ~ Enabling(inbox[d])
    BY <1>3, <1>6
  <2>. QED  BY <1>1, <2>1, <2>2, <2>3, HandledBoxes
<1>8. \A d \in Connections : client[d].at \in {"off", "gone"} => client[d].at \in {"off", "gone"}
  OBVIOUS
<1>9. ASSUME NEW boxes, Sound(boxes, calm), NEW label \in {"none", "white", "black"}
      PROVE  Sound(Tell(boxes, {c}, LoginOk(label)), calm)
  <2>1. PICK m \in Messages : m = LoginOk(label) /\ m.type = "login_ok"
    BY Kinds
  <2>2. /\ boxes[c] \in Seq(Messages) /\ ~ Enabling(boxes[c])
        /\ TokenSound(client[c], boxes[c], outbox'[c], Waiting(queue, c))
    BY <1>6, <1>9 DEF BoxesSound
  <2>3. ~ Enables(m) /\ m.type # "match_found"
    BY <2>1 DEF Enables
  <2>4. TokenSound(client[c], Append(boxes[c], m), outbox'[c], Waiting(queue, c))
    <3>1. /\ ~ Enabling(Append(boxes[c], m))
          /\ Holds(Append(boxes[c], m), "match_found") <=> Holds(boxes[c], "match_found")
      BY <2>2, <2>3, OneMore
    <3>2. client[c].at # "lobby"
      BY <1>3
    <3>. QED  BY <1>2, <1>3, <2>2, <3>1, <3>2 DEF TokenSound, IsTold
  <2>5. Sound(Tell(boxes, {c}, m), calm)
    BY <1>1, <1>8, <1>9, <2>3, <2>4, TellSound
  <2>. QED  BY <2>1, <2>5
<1>10. PICK still : Sound(inbox', still)
  <2>1. CASE \E m \in {UnknownUsername, NotAccepted} : inbox' = Tell(inbox, {c}, m)
    <3>1. PICK m \in Messages : inbox' = Tell(inbox, {c}, m) /\ m.type = "error"
      BY <2>1, Kinds, Zenon
    <3>2. inbox[c] \in Seq(Messages) /\ TokenSound(client[c], inbox[c], outbox'[c], Waiting(queue, c))
      BY <1>7 DEF BoxesSound
    <3>3. TokenSound(client[c], Append(inbox[c], m), outbox'[c], Waiting(queue, c))
      <4>1. /\ ~ Holds(Append(inbox[c], m), "login_ok")
            /\ Holds(Append(inbox[c], m), "match_found") <=> Holds(inbox[c], "match_found")
        BY <1>3, <3>1, <3>2, OneMore
      <4>2. client[c].at # "lobby"
        BY <1>3
      <4>. QED  BY <1>2, <1>3, <3>2, <4>1, <4>2 DEF TokenSound, IsTold
    <3>4. Sound(inbox, {})
      BY <1>7 DEF BoxesSound
    <3>5. m.type # "match_found"
      BY <3>1
    <3>6. Sound(Tell(inbox, {c}, m), {})
      BY <1>1, <1>8, <3>3, <3>4, <3>5, TellSound
    <3>. QED  BY <3>1, <3>6
  <2>2. CASE \E label \in {"none", "white", "black"} : inbox' = Tell(inbox, {c}, LoginOk(label))
    BY <1>7, <1>9, <2>2
  <2>3. CASE \E label \in {"white", "black"} :
                inbox' = Tell(Tell(Tell(inbox, Connections, PlayerReconnected(u)),
                                   {c}, LoginOk(label)), {c}, GameStarted(session'))
    <3>1. PICK label \in {"none", "white", "black"} :
             inbox' = Tell(Tell(Tell(inbox, Connections, PlayerReconnected(u)),
                                {c}, LoginOk(label)), {c}, GameStarted(session'))
      BY <2>3
    <3>2. PICK m \in Messages : m = PlayerReconnected(u) /\ m.type = "player_reconnected"
      BY Kinds
    <3>3. ~ Weighty(m)
      BY <3>2 DEF Weighty, Enables
    <3>4. Sound(Tell(inbox, Connections, m), calm)
      BY <1>1, <1>7, <1>8, <3>3, TellSound
    <3>5. Sound(Tell(Tell(inbox, Connections, m), {c}, LoginOk(label)), calm)
      BY <1>9, <3>4
    <3>6. PICK n \in Messages : n = GameStarted(session') /\ n.type = "game_started"
      <4>1. session' \in SessionState
        BY <1>4 DEF LoggedIn
      <4>. QED  BY <4>1, Kinds
    <3>7. ~ Weighty(n)
      BY <3>6 DEF Weighty, Enables
    <3>8. Sound(Tell(Tell(Tell(inbox, Connections, m), {c}, LoginOk(label)), {c}, n), calm)
      BY <1>1, <1>8, <3>5, <3>7, TellSound
    <3>. QED  BY <3>1, <3>2, <3>6, <3>8
  <2>. QED  BY <2>1, <2>2, <2>3, LoginAnswered
<1>11. \A d \in Connections :
         /\ outbox[d] \in Open => outbox'[d] \in Open
         /\ d \notin linked' => /\ outbox'[d] = << >>
                                /\ session'.users[d] = NoUser /\ session'.colors[d] = NoColor
         /\ session'.users[d] \in {NoUser, client[d].user}
  BY <1>1, <1>2, <1>4 DEF LinkSound, LoggedIn
<1>12. \A d \in Connections : Waiting(queue', d) => d \in linked' /\ session'.colors[d] = NoColor
  <2>. SUFFICES ASSUME NEW d \in Connections, Waiting(queue, d)
                PROVE  d \in linked /\ session'.colors[d] = NoColor
    BY <1>1
  <2>1. d # c /\ d \in linked /\ session.colors[d] = NoColor
    BY <1>1, <1>3 DEF LinkSound
  <2>. QED  BY <1>5, <2>1
<1>13. NoMatchNoSeat(session')
  <2>. SUFFICES ASSUME session'.phase = "Lobby"
                PROVE  /\ ~ session'.fixedRoster
                       /\ \A d \in Connections : session'.colors[d] = NoColor
                       /\ \A v \in Users : session'.reserved[v] = NoColor
    BY DEF NoMatchNoSeat
  <2>1. /\ ~ session.fixedRoster /\ \A d \in Connections : session.colors[d] = NoColor
        /\ \A v \in Users : session.reserved[v] = NoColor
    BY <1>4 DEF IInv, NoMatchNoSeat, LoggedIn
  <2>2. session' = session \/ session'.colors = session.colors
    BY <1>4, <2>1 DEF LoggedIn
  <2>. QED  BY <1>4, <2>1, <2>2 DEF LoggedIn
<1>14. BoxesSound(session', client', inbox', outbox', queue', still)
  BY <1>1, <1>10
<1>15. client' \in [Connections -> Processes] /\ queue' \in Fair /\ IsStore(store', Users)
       /\ linked' \in SUBSET linked /\ host \in linked'
  BY <1>1, <1>2 DEF TypeInv, LinksSound
<1>16. \A d \in Connections :
          /\ client'[d].user = client[d].user
          /\ client'[d] = client[d] \/ (client'[d].at = "over" /\ client[d].at = "game")
  BY <1>1, Zenon
<1>17. \A i \in DOMAIN queue' : queue'[i].user = client[queue'[i].conn].user
  BY <1>1 DEF LinksSound
<1>18. session' \in SessionState
  BY <1>4 DEF LoggedIn
<1>. QED  BY <1>1, <1>2, <1>4, <1>11, <1>12, <1>13, <1>14, <1>15, <1>16, <1>17, <1>18, ServerStep

-----------------------------------------------------------------------------
(* Asking for a match, without a match *)

\* A step of the server that leaves the session alone.
LEMMA TalkStep ==
    ASSUME IInv, host # NoConnection, UNCHANGED <<session, grace, host, linked>>, NEW calm,
           BoxesSound(session, client', inbox', outbox', queue', calm),
           client' \in [Connections -> Processes],
           \A d \in Connections :
              /\ client'[d].user = client[d].user
              /\ client'[d] = client[d] \/ (client'[d].at = "over" /\ client[d].at = "game"),
           queue' \in Fair, IsStore(store', Users), outbox' \in [Connections -> Outboxes],
           \A d \in Connections :
              /\ outbox[d] \in Open => outbox'[d] \in Open
              /\ outbox[d] = << >> => outbox'[d] = << >>
              /\ Waiting(queue', d) => d \in linked /\ session.colors[d] = NoColor,
           \A i \in DOMAIN queue' :
              \/ queue'[i].user = session.users[queue'[i].conn]
              \/ \E j \in DOMAIN queue :
                    queue'[i].conn = queue[j].conn /\ queue'[i].user = queue[j].user
    PROVE  IInv'
<1>0. /\ TypeInv /\ LinksSound /\ \A d \in Connections : LinkSound(d)
      /\ host \in linked /\ linked \subseteq Connections /\ session \in SessionState
      /\ grace \in [Users -> Colors \cup {NoColor}] /\ NoMatchNoSeat(session)
  BY DEF IInv, LinksSound, TypeInv
<1>1. \A d \in Connections :
         /\ outbox[d] \in Open => outbox'[d] \in Open
         /\ d \notin linked => /\ outbox'[d] = << >>
                               /\ session.users[d] = NoUser /\ session.colors[d] = NoColor
         /\ session.users[d] \in {NoUser, client[d].user}
  BY <1>0 DEF LinkSound
<1>2. ASSUME NEW i \in DOMAIN queue' PROVE queue'[i].user = client[queue'[i].conn].user
  <2>1. queue'[i].conn \in Connections /\ queue'[i].user \in Users
    BY <1>2, EntryTyped
  <2>2. CASE queue'[i].user = session.users[queue'[i].conn]
    BY <1>1, <2>1, <2>2, AbsentAssumption
  <2>3. CASE \E j \in DOMAIN queue :
                queue'[i].conn = queue[j].conn /\ queue'[i].user = queue[j].user
    BY <1>0, <2>3 DEF LinksSound
  <2>. QED  BY <1>2, <2>2, <2>3
<1>3. session' = session /\ grace' = grace /\ host' = host /\ linked' = linked
  OBVIOUS
<1>4. BoxesSound(session', client', inbox', outbox', queue', calm)
  OBVIOUS
<1>5. /\ NoMatchNoSeat(session') /\ linked' \in SUBSET linked /\ host \in linked'
      /\ session' \in SessionState /\ grace' \in [Users -> Colors \cup {NoColor}]
  BY <1>0, <1>3
<1>6. \A d \in Connections :
         /\ outbox[d] \in Open => outbox'[d] \in Open
         /\ d \notin linked' => /\ outbox'[d] = << >>
                                /\ session'.users[d] = NoUser /\ session'.colors[d] = NoColor
         /\ session'.users[d] \in {NoUser, client[d].user}
         /\ Waiting(queue', d) => d \in linked' /\ session'.colors[d] = NoColor
  BY <1>1, <1>3
<1>. QED  BY <1>2, <1>3, <1>4, <1>5, <1>6, ServerStep

\* Who joins is not heard of until he is answered.
LEMMA JoinFrom ==
    ASSUME IInv, NEW c \in Connections, HandleJoin(c)
    PROVE  /\ Handles(c, "join_queue") /\ Asks(outbox[c]) /\ ~ Waiting(queue, c)
           /\ client[c].at \notin {"off", "login"}
           /\ At(c, "lobby") => ~ Enabling(inbox[c]) /\ ~ Clickable(client[c])
           /\ ~ IsTold(client[c], inbox[c])
           /\ outbox' \in [Connections -> Outboxes]
           /\ \A d \in Connections : /\ outbox[d] \in Open => outbox'[d] \in Open
                                     /\ outbox[d] = << >> => outbox'[d] = << >>
                                     /\ d # c => outbox'[d] = outbox[d]
           /\ ~ Asks(outbox'[c]) /\ ~ LogsIn(outbox'[c])
           /\ UNCHANGED <<store, host, client, grace, linked>>
           /\ host # NoConnection /\ c \in linked
<1>1. /\ Token(c) /\ Handles(c, "join_queue") /\ UNCHANGED <<store, host, client, grace, linked>>
      /\ outbox[c] # << >>
  BY DEF IInv, HandleJoin, Handles
<1>2. /\ outbox' \in [Connections -> Outboxes]
      /\ \A d \in Connections : /\ outbox[d] \in Open => outbox'[d] \in Open
                                /\ d # c => outbox'[d] = outbox[d]
      /\ ~ Asks(outbox'[c]) /\ ~ LogsIn(outbox'[c]) /\ Asks(outbox[c])
      /\ c \in linked /\ host # NoConnection
  BY <1>1, HandledTexts
<1>. QED  BY <1>1, <1>2 DEF Token, TokenSound, At

LEMMA RefusedKeeps ==
    ASSUME IInv, NEW c \in Connections, HandleJoin(c), ~ MayJoin(c)
    PROVE  IInv'
<1>1. TypeInv /\ LinksSound /\ \A d \in Connections : LinkSound(d)
  BY DEF IInv, LinksSound
<1>2. /\ Handles(c, "join_queue") /\ Asks(outbox[c]) /\ ~ Waiting(queue, c)
      /\ client[c].at \notin {"off", "login"}
      /\ At(c, "lobby") => ~ Enabling(inbox[c]) /\ ~ Clickable(client[c])
      /\ ~ IsTold(client[c], inbox[c])
      /\ outbox' \in [Connections -> Outboxes]
      /\ \A d \in Connections : /\ outbox[d] \in Open => outbox'[d] \in Open
                                /\ outbox[d] = << >> => outbox'[d] = << >>
                                /\ d # c => outbox'[d] = outbox[d]
      /\ ~ Asks(outbox'[c]) /\ ~ LogsIn(outbox'[c])
      /\ UNCHANGED <<store, host, client, grace, linked>>
      /\ host # NoConnection /\ c \in linked
  BY JoinFrom
<1>3. session' = session /\ queue' = queue /\ inbox' = Tell(inbox, {c}, NotNow)
  BY Zenon DEF HandleJoin
<1>4. BoxesSound(session, client, inbox, outbox', queue, {})
  BY <1>2, HandledBoxes
<1>5. PICK m \in Messages : m = NotNow /\ m.type = "error"
  BY Kinds, Zenon
<1>6. TokenSound(client[c], Append(inbox[c], m), outbox'[c], Waiting(queue, c))
  <2>1. /\ inbox[c] \in Seq(Messages)
        /\ TokenSound(client[c], inbox[c], outbox'[c], Waiting(queue, c))
    BY <1>4 DEF BoxesSound
  <2>2. /\ At(c, "lobby") => OneEnabling(Append(inbox[c], m))
        /\ Holds(Append(inbox[c], m), "match_found") <=> Holds(inbox[c], "match_found")
    BY <1>2, <1>5, <2>1, OneMore DEF TokenSound, At
  <2>. QED  BY <1>2, <2>1, <2>2 DEF TokenSound, At, IsTold
<1>7. BoxesSound(session, client, Tell(inbox, {c}, m), outbox', queue, {})
  <2>1. \A d \in Connections : client[d].at \in {"off", "gone"} => client[d].at \in {"off", "gone"}
    OBVIOUS
  <2>2. m.type # "match_found"
    BY <1>5
  <2>. QED  BY <1>1, <1>4, <1>6, <2>1, <2>2, TellSound
<1>8. BoxesSound(session, client', inbox', outbox', queue', {})
  BY <1>2, <1>3, <1>5, <1>7, Zenon
<1>9. client' \in [Connections -> Processes] /\ queue' \in Fair /\ IsStore(store', Users)
  BY <1>1, <1>2, <1>3 DEF TypeInv
<1>10. \A d \in Connections : Waiting(queue', d) => d \in linked /\ session.colors[d] = NoColor
  BY <1>1, <1>3 DEF LinkSound
<1>11. \A d \in Connections :
          /\ client'[d].user = client[d].user
          /\ client'[d] = client[d] \/ (client'[d].at = "over" /\ client[d].at = "game")
  BY <1>2, Zenon
<1>. QED  BY <1>2, <1>3, <1>8, <1>9, <1>10, <1>11, TalkStep

\* The entry that the server makes for who joins.
LEMMA NewcomerTyped ==
    ASSUME IInv, NEW c \in Connections, MayJoin(c)
    PROVE  LET e == NewEntry(c, session.users[c], EloOf(store, session.users[c]))
           IN  e \in QueueEntry /\ e.conn = c /\ e.user = session.users[c] /\ e.user = client[c].user
<1>1. session.users[c] \in Users /\ session.users[c] = client[c].user
  BY DEF IInv, TypeInv, LinksSound, LinkSound, SessionState, MayJoin
<1>2. PICK u \in Users : u = session.users[c]
  BY <1>1
<1>3. EloOf(store, u) \in Int
  BY DEF IInv, TypeInv, EloOf, IsStore, DefaultElo
<1>4. NewEntry(c, u, EloOf(store, u)) \in QueueEntry
      /\ NewEntry(c, u, EloOf(store, u)).conn = c
  BY <1>3, NewEntryType
<1>5. NewEntry(c, u, EloOf(store, u)).user = u
  BY DEF NewEntry
<1>. QED  BY <1>1, <1>2, <1>4, <1>5

\* Who joins finds an opponent.
Pairs(c) ==
    MatchOf(queue, NewEntry(c, session.users[c], EloOf(store, session.users[c]))) # NoMatch

\* Who may join has no seat.
LEMMA JoinsUnseated ==
    ASSUME IInv, NEW c \in Connections, MayJoin(c)
    PROVE  session.colors[c] = NoColor
<1>1. session.phase \in {"Lobby", "InGame"}
  BY DEF IInv, TypeInv, SessionState
<1>. QED  BY <1>1 DEF IInv, NoMatchNoSeat, MayJoin

LEMMA WaitsKeeps ==
    ASSUME IInv, NEW c \in Connections, HandleJoin(c), MayJoin(c), ~ Pairs(c)
    PROVE  IInv'
<1>1. TypeInv /\ LinksSound /\ queue \in Fair /\ \A d \in Connections : LinkSound(d)
  BY DEF IInv, TypeInv, LinksSound
<1>2. /\ Handles(c, "join_queue") /\ Asks(outbox[c]) /\ ~ Waiting(queue, c)
      /\ client[c].at \notin {"off", "login"}
      /\ At(c, "lobby") => ~ Enabling(inbox[c]) /\ ~ Clickable(client[c])
      /\ ~ IsTold(client[c], inbox[c])
      /\ outbox' \in [Connections -> Outboxes]
      /\ \A d \in Connections : /\ outbox[d] \in Open => outbox'[d] \in Open
                                /\ outbox[d] = << >> => outbox'[d] = << >>
                                /\ d # c => outbox'[d] = outbox[d]
      /\ ~ Asks(outbox'[c]) /\ ~ LogsIn(outbox'[c])
      /\ UNCHANGED <<store, host, client, grace, linked>>
      /\ host # NoConnection /\ c \in linked
  BY JoinFrom
<1>3. PICK e \in QueueEntry :
         /\ e = NewEntry(c, session.users[c], EloOf(store, session.users[c]))
         /\ e.conn = c /\ e.user = session.users[c]
  BY NewcomerTyped
<1>4. MatchOf(queue, e) = NoMatch
  BY <1>3, Zenon DEF Pairs
<1>5. session' = session /\ queue' = Enqueued(queue, e) /\ inbox' = Tell(inbox, {c}, QueueJoined)
  BY <1>3, <1>4, Zenon DEF HandleJoin
<1>6. /\ queue' \in Fair
      /\ \A j \in DOMAIN queue' : queue'[j] = e \/ \E i \in DOMAIN queue : queue'[j] = queue[i]
  BY <1>1, <1>2, <1>3, <1>4, <1>5, EnqueuedFair, EnqueueWaits
<1>7. \A d \in Connections : Waiting(queue', d) => Waiting(queue, d) \/ (d = c /\ Asks(outbox[c]))
  BY <1>2, <1>3, <1>6 DEF Waiting
<1>8. BoxesSound(session, client, inbox, outbox', queue', {})
  BY <1>2, <1>7, HandledBoxes
<1>9. PICK m \in Messages : m = QueueJoined /\ m.type = "queue_joined"
  BY Kinds
<1>10. BoxesSound(session, client, Tell(inbox, {c}, m), outbox', queue', {})
  <2>1. \A d \in Connections : client[d].at \in {"off", "gone"} => client[d].at \in {"off", "gone"}
    OBVIOUS
  <2>2. ~ Weighty(m)
    BY <1>9 DEF Weighty, Enables
  <2>. QED  BY <1>1, <1>8, <2>1, <2>2, TellSound
<1>11. BoxesSound(session, client', inbox', outbox', queue', {})
  BY <1>2, <1>5, <1>9, <1>10, Zenon
<1>12. client' \in [Connections -> Processes] /\ IsStore(store', Users)
  BY <1>1, <1>2 DEF TypeInv
<1>13. \A i \in DOMAIN queue' :
          \/ queue'[i].user = session.users[queue'[i].conn]
          \/ \E j \in DOMAIN queue :
                queue'[i].conn = queue[j].conn /\ queue'[i].user = queue[j].user
  BY <1>3, <1>6
<1>14. \A d \in Connections : Waiting(queue', d) => d \in linked /\ session.colors[d] = NoColor
  BY <1>1, <1>2, <1>7, JoinsUnseated DEF LinkSound
<1>15. \A d \in Connections :
          /\ client'[d].user = client[d].user
          /\ client'[d] = client[d] \/ (client'[d].at = "over" /\ client[d].at = "game")
  BY <1>2, Zenon
<1>. QED  BY <1>2, <1>5, <1>6, <1>11, <1>12, <1>13, <1>14, <1>15, TalkStep

-----------------------------------------------------------------------------
(* A match *)

\* The match that begins: white waited, black is who joins.
LEMMA MatchFields ==
    ASSUME IInv, NEW c \in Connections, HandleJoin(c), MayJoin(c), Pairs(c)
    PROVE  \E m \in Matches :
              /\ m.white.conn \in Connections /\ m.black.conn = c /\ m.white.conn # c
              /\ Waiting(queue, m.white.conn) /\ ~ Waiting(queue', m.white.conn)
              /\ m.white.user \in Users /\ m.black.user \in Users
              /\ m.white.user = client[m.white.conn].user /\ m.black.user = client[c].user
              /\ session' = BeginMatch(session, m) /\ queue' \in Within(queue)
              /\ inbox' = Notified(Tell(inbox, {c}, QueueJoined), m, session')
<1>1. TypeInv /\ LinksSound /\ queue \in Fair /\ session \in SessionState
  BY DEF IInv, TypeInv
<1>2. Asks(outbox[c]) /\ ~ Waiting(queue, c)
  BY JoinFrom
<1>3. PICK e \in QueueEntry :
         /\ e = NewEntry(c, session.users[c], EloOf(store, session.users[c]))
         /\ e.conn = c /\ e.user = session.users[c] /\ e.user = client[c].user
  BY NewcomerTyped
<1>4. PICK m : m = MatchOf(queue, e)
  OBVIOUS
<1>5. m # NoMatch
  BY <1>3, <1>4, Zenon DEF Pairs
<1>6. /\ session' = BeginMatch(session, m) /\ queue' = Enqueued(queue, e)
      /\ inbox' = Notified(Tell(inbox, {c}, QueueJoined), m, session')
  BY <1>3, <1>4, <1>5, Zenon DEF HandleJoin
<1>7. PICK i \in DOMAIN queue : m.white = queue[i]
  BY <1>1, <1>4, <1>5, EnqueueMatches
<1>8. m.black = e /\ queue' \in Within(queue) /\ ~ Waiting(queue', m.white.conn)
  BY <1>1, <1>4, <1>5, <1>6, EnqueueMatches
<1>9. m.white \in QueueEntry /\ m.white.conn \in Connections /\ m.white.user \in Users
  BY <1>1, <1>7, EntryTyped
<1>10. m \in Matches
  <2>1. m \in Results
    BY <1>1, <1>4, MatchOfType
  <2>. QED  BY <1>5, <2>1 DEF Results, Matches
<1>11. Waiting(queue, m.white.conn) /\ m.white.conn # c
  BY <1>2, <1>7 DEF Waiting
<1>12. m.white.user = client[m.white.conn].user
  BY <1>1, <1>7 DEF LinksSound
<1>13. e.user \in Users
  BY <1>3 DEF QueueEntry
<1>. QED  BY <1>3, <1>6, <1>8, <1>9, <1>10, <1>11, <1>12, <1>13

\* Who asks for nothing and cannot click may be told of a match.
LEMMA ToldToken ==
    ASSUME NEW p, NEW box \in Seq(Messages), NEW out, NEW waits \in BOOLEAN, NEW m \in Messages,
           TokenSound(p, box, out, waits), m.type = "match_found",
           ~ Asks(out), ~ LogsIn(out), ~ waits, p.at # "login",
           p.at = "lobby" => ~ Clickable(p) /\ ~ Enabling(box)
    PROVE  TokenSound(p, Append(box, m), out, waits)
<1>1. ~ Enables(m)
  BY DEF Enables
<1>2. PICK more : more = Append(box, m)
  OBVIOUS
<1>3. /\ Enabling(more) <=> Enabling(box)
      /\ OneEnabling(box) => OneEnabling(more)
  BY <1>1, <1>2, OneMore
<1>. QED  BY <1>2, <1>3 DEF TokenSound

LEMMA MatchKeeps ==
    ASSUME IInv, NEW c \in Connections, HandleJoin(c), MayJoin(c), Pairs(c)
    PROVE  IInv'
<1>1. /\ TypeInv /\ LinksSound /\ queue \in Fair /\ session \in SessionState
      /\ \A d \in Connections : LinkSound(d) /\ Token(d)
  BY DEF IInv, TypeInv, LinksSound
<1>2. /\ Handles(c, "join_queue") /\ Asks(outbox[c]) /\ ~ Waiting(queue, c)
      /\ client[c].at \notin {"off", "login"}
      /\ At(c, "lobby") => ~ Enabling(inbox[c]) /\ ~ Clickable(client[c])
      /\ ~ IsTold(client[c], inbox[c])
      /\ outbox' \in [Connections -> Outboxes]
      /\ \A d \in Connections : /\ outbox[d] \in Open => outbox'[d] \in Open
                                /\ outbox[d] = << >> => outbox'[d] = << >>
                                /\ d # c => outbox'[d] = outbox[d]
      /\ ~ Asks(outbox'[c]) /\ ~ LogsIn(outbox'[c])
      /\ UNCHANGED <<store, host, client, grace, linked>>
      /\ host # NoConnection /\ c \in linked
  BY JoinFrom
<1>3. PICK m \in Matches :
         /\ m.white.conn \in Connections /\ m.black.conn = c /\ m.white.conn # c
         /\ Waiting(queue, m.white.conn) /\ ~ Waiting(queue', m.white.conn)
         /\ m.white.user \in Users /\ m.black.user \in Users
         /\ m.white.user = client[m.white.conn].user /\ m.black.user = client[c].user
         /\ session' = BeginMatch(session, m) /\ queue' \in Within(queue)
         /\ inbox' = Notified(Tell(inbox, {c}, QueueJoined), m, session')
  BY MatchFields
<1>. PICK w \in Connections : w = m.white.conn
  BY <1>3
<1>. PICK v \in Users, u \in Users : v = m.white.user /\ u = m.black.user
  BY <1>3
<1>. PICK t : t = session'
  OBVIOUS
<1>4. /\ t \in SessionState /\ t.phase = "InGame"
      /\ \A d \in Connections :
            /\ t.colors[d] = IF d = c THEN "Black" ELSE IF d = w THEN "White" ELSE session.colors[d]
            /\ t.users[d] = IF d = c THEN u ELSE IF d = w THEN v ELSE session.users[d]
  <2>1. PICK x : x = BeginMatch(session, m)
    OBVIOUS
  <2>2. /\ x \in SessionState /\ x.phase = "InGame"
        /\ \A d \in Connections :
              /\ x.colors[d] = IF d = m.black.conn THEN "Black"
                               ELSE IF d = m.white.conn THEN "White" ELSE session.colors[d]
              /\ x.users[d] = IF d = m.black.conn THEN m.black.user
                              ELSE IF d = m.white.conn THEN m.white.user ELSE session.users[d]
    BY <1>1, <2>1, BeginMatchFields
  <2>3. x = t
    BY <1>3, <2>1
  <2>. QED  BY <1>3, <2>2, <2>3
<1>5. queue' \in Fair /\ \A d \in Connections : Waiting(queue', d) => Waiting(queue, d)
  BY <1>3, WaitingWithin DEF Within
<1>6. ASSUME NEW d \in {c, w}
      PROVE  /\ d \in Connections /\ d \in linked
             /\ ~ Asks(outbox'[d]) /\ ~ LogsIn(outbox'[d]) /\ ~ Waiting(queue', d)
             /\ client[d].at # "login" /\ ~ IsTold(client[d], inbox[d])
             /\ At(d, "lobby") => ~ Clickable(client[d]) /\ ~ Enabling(inbox[d])
  <2>1. CASE d = c
    BY <1>2, <1>5, <2>1
  <2>2. CASE d = w
    <3>1. TokenSound(client[w], inbox[w], outbox[w], Waiting(queue, w)) /\ LinkSound(w)
      BY <1>1 DEF Token
    <3>2. Waiting(queue, w) /\ w # c /\ ~ Waiting(queue', w) /\ outbox'[w] = outbox[w]
      BY <1>2, <1>3
    <3>. QED  BY <2>2, <3>1, <3>2 DEF TokenSound, LinkSound, At
  <2>. QED  BY <1>6, <2>1, <2>2
<1>. PICK calm : calm = {d \in {c, w} : At(d, "lobby")}
  OBVIOUS
<1>. DEFINE Sound(boxes) == BoxesSound(t, client, boxes, outbox', queue', calm)
<1>7. \A d \in Connections : client[d].at \in {"off", "gone"} => client[d].at \in {"off", "gone"}
  OBVIOUS
<1>8. Sound(inbox)
  <2>1. \A d \in Connections : Waiting(queue', d) => Waiting(queue, d) \/ (d = c /\ Asks(outbox[c]))
    BY <1>5
  <2>2. \A d \in Connections : \/ t.colors[d] \in {NoColor, session.colors[d]}
                               \/ ~ IsTold(client[d], inbox[d])
    BY <1>4, <1>6
  <2>3. \A d \in calm : ~ Enabling(inbox[d])
    BY <1>6
  <2>. QED  BY <1>2, <2>1, <2>2, <2>3, HandledBoxes
<1>9. PICK joined : joined = Tell(inbox, {c}, QueueJoined) /\ Sound(joined)
  <2>1. PICK x \in Messages : x = QueueJoined /\ x.type = "queue_joined"
    BY Kinds
  <2>2. ~ Weighty(x)
    BY <2>1 DEF Weighty, Enables
  <2>3. Sound(Tell(inbox, {c}, x))
    BY <1>1, <1>7, <1>8, <2>2, TellSound
  <2>. QED  BY <2>1, <2>3
<1>10. ASSUME NEW boxes, Sound(boxes), NEW d \in {c, w}, NEW x \in Messages, x.type = "match_found",
              x.color = t.colors[d]
       PROVE  Sound(Tell(boxes, {d}, x))
  <2>1. /\ boxes[d] \in Seq(Messages)
        /\ TokenSound(client[d], boxes[d], outbox'[d], Waiting(queue', d))
        /\ d \in calm => ~ Enabling(boxes[d])
    BY <1>6, <1>10 DEF BoxesSound
  <2>2. At(d, "lobby") => ~ Clickable(client[d]) /\ ~ Enabling(boxes[d])
    BY <1>6, <2>1
  <2>3. TokenSound(client[d], Append(boxes[d], x), outbox'[d], Waiting(queue', d))
    <3>1. Waiting(queue', d) \in BOOLEAN
      BY DEF Waiting
    <3>. QED  BY <1>6, <1>10, <2>1, <2>2, <3>1, ToldToken DEF At
  <2>4. ~ Enables(x)
    BY <1>10 DEF Enables
  <2>. QED  BY <1>1, <1>7, <1>10, <2>3, <2>4, TellSound
<1>11. PICK first : first = Tell(joined, {w}, MatchFound("White", u)) /\ Sound(first)
  <2>1. PICK x \in Messages : x = MatchFound("White", u) /\ x.type = "match_found"
    BY Kinds DEF Colors
  <2>2. x.color = t.colors[w]
    BY <1>3, <1>4, <2>1 DEF MatchFound
  <2>. QED  BY <1>9, <1>10, <2>1, <2>2
<1>12. PICK both : both = Tell(first, {c}, MatchFound("Black", v)) /\ Sound(both)
  <2>1. PICK x \in Messages : x = MatchFound("Black", v) /\ x.type = "match_found"
    BY Kinds DEF Colors
  <2>2. x.color = t.colors[c]
    BY <1>4, <2>1 DEF MatchFound
  <2>. QED  BY <1>10, <1>11, <2>1, <2>2
<1>13. Sound(inbox')
  <2>1. PICK x \in Messages : x = GameStarted(t) /\ x.type = "game_started"
    BY <1>4, Kinds
  <2>2. ~ Weighty(x)
    BY <2>1 DEF Weighty, Enables
  <2>3. Sound(Tell(both, Connections, x))
    BY <1>1, <1>7, <1>12, <2>2, TellSound
  <2>4. inbox' = Tell(both, Connections, x)
    BY <1>3, <1>9, <1>11, <1>12, <2>1, Zenon DEF Notified, Announce
  <2>. QED  BY <2>3, <2>4
<1>14. BoxesSound(session', client', inbox', outbox', queue', calm)
  BY <1>2, <1>13
<1>15. client' \in [Connections -> Processes] /\ IsStore(store', Users)
       /\ grace' \in [Users -> Colors \cup {NoColor}]
  BY <1>1, <1>2 DEF TypeInv
<1>16. \A i \in DOMAIN queue' : queue'[i].user = client[queue'[i].conn].user
  BY <1>1, <1>3 DEF LinksSound, Within
<1>17. host' = host /\ linked' \in SUBSET linked /\ host \in linked' /\ linked' = linked
  BY <1>1, <1>2 DEF LinksSound
<1>18. \A d \in Connections :
          /\ outbox[d] \in Open => outbox'[d] \in Open
          /\ d \notin linked' => /\ outbox'[d] = << >>
                                 /\ session'.users[d] = NoUser /\ session'.colors[d] = NoColor
          /\ session'.users[d] \in {NoUser, client[d].user}
  <2>. TAKE d \in Connections
  <2>1. CASE d \in {c, w}
    BY <1>2, <1>3, <1>4, <1>6, <1>17, <2>1
  <2>2. CASE d \notin {c, w}
    BY <1>1, <1>2, <1>4, <1>17, <2>2 DEF LinkSound
  <2>. QED  BY <2>1, <2>2
<1>19. \A d \in Connections : Waiting(queue', d) => d \in linked' /\ session'.colors[d] = NoColor
  <2>. SUFFICES ASSUME NEW d \in Connections, Waiting(queue', d)
                PROVE  d \in linked' /\ session'.colors[d] = NoColor
    OBVIOUS
  <2>1. d \notin {c, w} /\ Waiting(queue, d)
    BY <1>5, <1>6
  <2>. QED  BY <1>1, <1>4, <1>17, <2>1 DEF LinkSound
<1>20. \A d \in Connections :
             /\ client'[d].user = client[d].user
             /\ client'[d] = client[d] \/ (client'[d].at = "over" /\ client[d].at = "game")
  BY <1>2
<1>21. session' \in SessionState /\ queue' \in Fair /\ NoMatchNoSeat(session')
  BY <1>4, <1>5 DEF NoMatchNoSeat
<1>. QED  BY <1>2, <1>14, <1>15, <1>16, <1>17, <1>18, <1>19, <1>20, <1>21, ServerStep

-----------------------------------------------------------------------------
(* A connection is closed *)

\* What the closing of a connection leaves alone.
LEMMA CloseFrom ==
    ASSUME IInv, NEW c \in Connections, HandleClose(c)
    PROVE  /\ Handles(c, "close") /\ At(c, "gone") /\ c # host /\ host # NoConnection
           /\ outbox' \in [Connections -> Outboxes] /\ outbox'[c] = << >>
           /\ \A d \in Connections : /\ outbox[d] \in Open => outbox'[d] \in Open
                                     /\ d # c => outbox'[d] = outbox[d]
           /\ UNCHANGED <<store, host, client>> /\ linked' = linked \ {c}
<1>1. /\ LinksSound /\ Handles(c, "close") /\ UNCHANGED <<store, host, client>>
      /\ linked' = linked \ {c}
  BY DEF IInv, HandleClose, Handles
<1>2. /\ outbox' \in [Connections -> Outboxes]
      /\ \A d \in Connections : /\ outbox[d] \in Open => outbox'[d] \in Open
                                /\ d # c => outbox'[d] = outbox[d]
      /\ At(c, "gone") /\ outbox'[c] = << >> /\ host # NoConnection
  BY <1>1, HandledTexts
<1>. QED  BY <1>1, <1>2 DEF LinksSound, At

\* What ServerStep needs of the texts and the names, for a session that forgets c.
LEMMA CloseLinks ==
    ASSUME IInv, NEW c \in Connections, HandleClose(c), NEW t,
           \A d \in Connections :
              /\ t.colors[d] = IF d = c THEN NoColor ELSE session.colors[d]
              /\ t.users[d] = IF d = c THEN NoUser ELSE session.users[d]
    PROVE  /\ \A d \in Connections :
                 /\ outbox[d] \in Open => outbox'[d] \in Open
                 /\ d \notin linked' => /\ outbox'[d] = << >>
                                        /\ t.users[d] = NoUser /\ t.colors[d] = NoColor
                 /\ t.users[d] \in {NoUser, client[d].user}
           /\ linked' \in SUBSET linked /\ host \in linked'
           /\ client' \in [Connections -> Processes] /\ IsStore(store', Users)
           /\ \A d \in Connections :
                 /\ client'[d].user = client[d].user
                 /\ client'[d] = client[d] \/ (client'[d].at = "over" /\ client[d].at = "game")
<1>1. /\ TypeInv /\ LinksSound /\ \A d \in Connections : LinkSound(d)
  BY DEF IInv, LinksSound
<1>2. /\ c # host /\ host # NoConnection /\ outbox'[c] = << >>
      /\ \A d \in Connections : /\ outbox[d] \in Open => outbox'[d] \in Open
                                /\ d # c => outbox'[d] = outbox[d]
      /\ UNCHANGED <<store, host, client>> /\ linked' = linked \ {c}
  BY CloseFrom
<1>. QED  BY <1>1, <1>2 DEF LinkSound, LinksSound, TypeInv

\* A player of a match keeps his seat for a while.
LEMMA ReservedKeeps ==
    ASSUME IInv, NEW c \in Connections, HandleClose(c), session.phase = "InGame",
           session.users[c] # NoUser, session.colors[c] # NoColor
    PROVE  IInv'
<1>1. /\ TypeInv /\ LinksSound /\ \A d \in Connections : LinkSound(d)
      /\ session \in SessionState /\ queue \in Fair
  BY DEF IInv, LinksSound, TypeInv
<1>2. /\ Handles(c, "close") /\ host # NoConnection
      /\ outbox' \in [Connections -> Outboxes]
      /\ UNCHANGED <<store, host, client>> /\ linked' = linked \ {c}
  BY CloseFrom
<1>. PICK u \in Users : u = session.users[c]
  BY <1>1 DEF SessionState
<1>. PICK color \in Colors : color = session.colors[c]
  BY <1>1 DEF SessionState
<1>3. /\ session' = ReserveDisconnectedSlot(session, c, u, color)
      /\ grace' = [grace EXCEPT ![u] = color] /\ queue' = queue
      /\ inbox' = Tell(inbox, Connections, PlayerDisconnected(u, color))
  BY Zenon DEF HandleClose
<1>. PICK t : t = session'
  OBVIOUS
<1>4. /\ t \in SessionState /\ t.phase = session.phase
      /\ \A d \in Connections :
            /\ t.colors[d] = IF d = c THEN NoColor ELSE session.colors[d]
            /\ t.users[d] = IF d = c THEN NoUser ELSE session.users[d]
  <2>1. PICK x : x = ReserveDisconnectedSlot(session, c, u, color)
    OBVIOUS
  <2>2. /\ x \in SessionState /\ x.phase = session.phase
        /\ \A d \in Connections :
              /\ x.colors[d] = IF d = c THEN NoColor ELSE session.colors[d]
              /\ x.users[d] = IF d = c THEN NoUser ELSE session.users[d]
    BY <1>1, <2>1, ReserveFields
  <2>3. x = t
    BY <1>3, <2>1
  <2>. QED  BY <2>2, <2>3
<1>5. BoxesSound(t, client, inbox, outbox', queue, {})
  <2>1. \A d \in Connections : \/ t.colors[d] \in {NoColor, session.colors[d]}
                               \/ ~ IsTold(client[d], inbox[d])
    BY <1>4
  <2>. QED  BY <1>2, <2>1, HandledBoxes
<1>6. PICK m \in Messages : m = PlayerDisconnected(u, color) /\ m.type = "player_disconnected"
  BY Kinds
<1>7. BoxesSound(t, client, Tell(inbox, Connections, m), outbox', queue, {})
  <2>1. \A d \in Connections : client[d].at \in {"off", "gone"} => client[d].at \in {"off", "gone"}
    OBVIOUS
  <2>2. ~ Weighty(m)
    BY <1>6 DEF Weighty, Enables
  <2>. QED  BY <1>1, <1>5, <2>1, <2>2, TellSound
<1>8. BoxesSound(session', client', inbox', outbox', queue', {})
  BY <1>2, <1>3, <1>6, <1>7
<1>9. /\ \A d \in Connections :
            /\ outbox[d] \in Open => outbox'[d] \in Open
            /\ d \notin linked' => /\ outbox'[d] = << >>
                                   /\ session'.users[d] = NoUser /\ session'.colors[d] = NoColor
            /\ session'.users[d] \in {NoUser, client[d].user}
      /\ linked' \in SUBSET linked /\ host \in linked'
      /\ client' \in [Connections -> Processes] /\ IsStore(store', Users)
      /\ \A d \in Connections :
            /\ client'[d].user = client[d].user
            /\ client'[d] = client[d] \/ (client'[d].at = "over" /\ client[d].at = "game")
  BY <1>4, CloseLinks
<1>10. \A i \in DOMAIN queue' : queue'[i].user = client[queue'[i].conn].user
  BY <1>1, <1>3 DEF LinksSound
<1>11. grace' \in [Users -> Colors \cup {NoColor}] /\ queue' \in Fair
  BY <1>1, <1>3 DEF TypeInv
<1>12. \A d \in Connections : Waiting(queue', d) => d \in linked' /\ session'.colors[d] = NoColor
  <2>. SUFFICES ASSUME NEW d \in Connections, Waiting(queue, d)
                PROVE  d \in linked' /\ session'.colors[d] = NoColor
    BY <1>3
  <2>1. d # c /\ d \in linked /\ session.colors[d] = NoColor
    BY <1>1 DEF LinkSound
  <2>. QED  BY <1>2, <1>4, <2>1
<1>13. host' = host /\ session' \in SessionState /\ NoMatchNoSeat(session')
  BY <1>2, <1>4 DEF NoMatchNoSeat
<1>. QED  BY <1>2, <1>8, <1>9, <1>10, <1>11, <1>12, <1>13, ServerStep

\* Everybody else is forgotten.
LEMMA ForgottenKeeps ==
    ASSUME IInv, NEW c \in Connections, HandleClose(c),
           ~ (session.phase = "InGame" /\ session.users[c] # NoUser /\ session.colors[c] # NoColor)
    PROVE  IInv'
<1>1. /\ TypeInv /\ LinksSound /\ \A d \in Connections : LinkSound(d)
      /\ session \in SessionState /\ queue \in Fair
  BY DEF IInv, LinksSound, TypeInv
<1>2. /\ Handles(c, "close") /\ host # NoConnection
      /\ outbox' \in [Connections -> Outboxes]
      /\ UNCHANGED <<store, host, client>> /\ linked' = linked \ {c}
  BY CloseFrom
<1>3. /\ session' = Disconnect(session, c) /\ queue' = Removed(queue, c)
      /\ grace' = grace /\ inbox' = inbox
  BY Zenon DEF HandleClose
<1>. PICK t : t = session'
  OBVIOUS
<1>4. /\ t \in SessionState /\ t.phase = session.phase /\ t.fixedRoster = session.fixedRoster
      /\ t.reserved = session.reserved
      /\ \A d \in Connections :
            /\ t.colors[d] = IF d = c THEN NoColor ELSE session.colors[d]
            /\ t.users[d] = IF d = c THEN NoUser ELSE session.users[d]
  <2>1. PICK x : x = Disconnect(session, c)
    OBVIOUS
  <2>2. /\ x \in SessionState /\ x.phase = session.phase /\ x.fixedRoster = session.fixedRoster
        /\ x.reserved = session.reserved
        /\ \A d \in Connections :
              /\ x.colors[d] = IF d = c THEN NoColor ELSE session.colors[d]
              /\ x.users[d] = IF d = c THEN NoUser ELSE session.users[d]
    BY <1>1, <2>1, DisconnectFields
  <2>3. x = t
    BY <1>3, <2>1
  <2>. QED  BY <2>2, <2>3
<1>5. /\ queue' \in Within(queue) /\ queue' \in Fair /\ ~ Waiting(queue', c)
      /\ \A d \in Connections : Waiting(queue', d) => Waiting(queue, d)
  <2>1. queue' \in Within(queue) /\ ~ Waiting(queue', c)
    BY <1>1, <1>3, RemovedFair, RemovedLeaves
  <2>. QED  BY <2>1, WaitingWithin DEF Within
<1>6. BoxesSound(session', client', inbox', outbox', queue', {})
  <2>1. \A d \in Connections : \/ t.colors[d] \in {NoColor, session.colors[d]}
                               \/ ~ IsTold(client[d], inbox[d])
    BY <1>4
  <2>2. BoxesSound(t, client, inbox, outbox', queue', {})
    BY <1>2, <1>5, <2>1, HandledBoxes
  <2>. QED  BY <1>2, <1>3, <2>2
<1>7. /\ \A d \in Connections :
            /\ outbox[d] \in Open => outbox'[d] \in Open
            /\ d \notin linked' => /\ outbox'[d] = << >>
                                   /\ session'.users[d] = NoUser /\ session'.colors[d] = NoColor
            /\ session'.users[d] \in {NoUser, client[d].user}
      /\ linked' \in SUBSET linked /\ host \in linked'
      /\ client' \in [Connections -> Processes] /\ IsStore(store', Users)
      /\ \A d \in Connections :
            /\ client'[d].user = client[d].user
            /\ client'[d] = client[d] \/ (client'[d].at = "over" /\ client[d].at = "game")
  BY <1>4, CloseLinks
<1>8. \A i \in DOMAIN queue' : queue'[i].user = client[queue'[i].conn].user
  BY <1>1, <1>5 DEF LinksSound, Within
<1>9. grace' \in [Users -> Colors \cup {NoColor}]
  BY <1>1, <1>3 DEF TypeInv
<1>10. \A d \in Connections : Waiting(queue', d) => d \in linked' /\ session'.colors[d] = NoColor
  <2>. SUFFICES ASSUME NEW d \in Connections, Waiting(queue', d)
                PROVE  d \in linked' /\ session'.colors[d] = NoColor
    OBVIOUS
  <2>1. d # c /\ d \in linked /\ session.colors[d] = NoColor
    BY <1>1, <1>5 DEF LinkSound
  <2>. QED  BY <1>2, <1>4, <2>1
<1>11. NoMatchNoSeat(session')
  <2>1. NoMatchNoSeat(session)
    BY DEF IInv
  <2>. QED  BY <1>4, <2>1 DEF NoMatchNoSeat
<1>12. host' = host /\ session' \in SessionState
  BY <1>2, <1>4
<1>. QED  BY <1>2, <1>5, <1>6, <1>7, <1>8, <1>9, <1>10, <1>11, <1>12, ServerStep

-----------------------------------------------------------------------------
(* Ticks, and the end of a game *)

\* What the boxes are like when nothing was handled; a process may be over, and
\* seats may be taken away.
LEMMA BoxesFound ==
    ASSUME IInv, NEW s, NEW ps, NEW q,
           \A d \in Connections : Waiting(q, d) => Waiting(queue, d),
           \A d \in Connections : s.colors[d] \in {NoColor, session.colors[d]},
           \A d \in Connections :
              \/ ps[d] = client[d]
              \/ ps[d].at = "over" /\ client[d].at = "game" /\ ps[d].user = client[d].user
    PROVE  BoxesSound(s, ps, inbox, outbox, q, {})
<1>1. /\ TypeInv /\ inbox \in [Connections -> Seq(Messages)]
      /\ \A d \in Connections : Token(d) /\ LinkSound(d)
  BY DEF IInv, LinksSound, TypeInv
<1>2. ASSUME NEW d \in Connections PROVE TokenSound(ps[d], inbox[d], outbox[d], Waiting(q, d))
  <2>0. Waiting(q, d) \in BOOLEAN /\ Waiting(queue, d) \in BOOLEAN
    BY DEF Waiting
  <2>1. TokenSound(client[d], inbox[d], outbox[d], Waiting(q, d))
    BY <1>1, <2>0, LessToken DEF Token
  <2>2. CASE ps[d] = client[d]
    BY <2>1, <2>2
  <2>3. CASE ps[d].at = "over" /\ client[d].at = "game" /\ ps[d].user = client[d].user
    BY <2>1, <2>3 DEF TokenSound, IsTold
  <2>. QED  BY <2>2, <2>3
<1>3. ASSUME NEW d \in Connections PROVE TellsColor(s.colors[d], ps[d], inbox[d])
  <2>1. TellsColor(session.colors[d], client[d], inbox[d])
    BY DEF IInv
  <2>2. TellsColor(session.colors[d], ps[d], inbox[d])
    BY <2>1 DEF TellsColor
  <2>. QED  BY <2>2, NoSeatColor
<1>4. \A d \in Connections : ps[d].at \in {"off", "gone"} => inbox[d] = << >>
  BY <1>1 DEF LinkSound
<1>. QED  BY <1>1, <1>2, <1>3, <1>4 DEF BoxesSound

LEMMA TickKeeps ==
    ASSUME IInv, TickQueue
    PROVE  IInv'
<1>1. /\ TypeInv /\ LinksSound /\ queue \in Fair /\ inbox \in [Connections -> Seq(Messages)]
      /\ outbox \in [Connections -> Outboxes] /\ client \in [Connections -> Processes]
      /\ IsStore(store, Users) /\ \A d \in Connections : Token(d) /\ LinkSound(d)
  BY DEF IInv, TypeInv, LinksSound
<1>. PICK to : to = {entry.conn : entry \in Expired(queue)}
  OBVIOUS
<1>2. /\ host # NoConnection /\ queue' = Ticked(queue) /\ inbox' = Tell(inbox, to, QueueTimedOut)
      /\ UNCHANGED <<session, grace, store, host, linked, client, outbox>>
  BY Zenon DEF TickQueue, Ticks
<1>3. /\ queue' \in Fair /\ queue' \in Within(queue)
      /\ \A d \in Connections : Waiting(queue', d) => Waiting(queue, d)
  BY <1>1, <1>2, TickedFair, WaitingWithin DEF Within
<1>4. \A d \in to : Waiting(queue, d) /\ ~ Waiting(queue', d)
  BY <1>1, <1>2, ExpiredLeave DEF Expired, Waiting
<1>5. BoxesSound(session, client, inbox, outbox, queue', {})
  <2>1. \A d \in Connections :
           \/ client[d] = client[d]
           \/ client[d].at = "over" /\ client[d].at = "game" /\ client[d].user = client[d].user
    OBVIOUS
  <2>2. \A d \in Connections : session.colors[d] \in {NoColor, session.colors[d]}
    OBVIOUS
  <2>. QED  BY <1>3, <2>1, <2>2, BoxesFound
<1>6. PICK m \in Messages : m = QueueTimedOut /\ m.type = "queue_timeout"
  BY Kinds, Zenon
<1>7. ASSUME NEW d \in to \cap Connections
      PROVE  TokenSound(client[d], Append(inbox[d], m), outbox[d], Waiting(queue', d))
  <2>1. TokenSound(client[d], inbox[d], outbox[d], Waiting(queue, d)) /\ inbox[d] \in Seq(Messages)
    BY <1>1 DEF Token
  <2>2. Waiting(queue, d) /\ ~ Waiting(queue', d)
    BY <1>4
  <2>3. /\ client[d].at = "lobby" => OneEnabling(Append(inbox[d], m))
        /\ Holds(Append(inbox[d], m), "match_found") <=> Holds(inbox[d], "match_found")
    BY <1>6, <2>1, <2>2, OneMore DEF TokenSound
  <2>. QED  BY <2>1, <2>2, <2>3 DEF TokenSound, IsTold
<1>8. BoxesSound(session, client, Tell(inbox, to, m), outbox, queue', {})
  <2>1. \A d \in Connections : client[d].at \in {"off", "gone"} => client[d].at \in {"off", "gone"}
    OBVIOUS
  <2>2. m.type # "match_found"
    BY <1>6
  <2>. QED  BY <1>1, <1>5, <1>7, <2>1, <2>2, TellSound
<1>9. BoxesSound(session, client', inbox', outbox', queue', {})
  BY <1>2, <1>6, <1>8, Zenon
<1>10. \A d \in Connections : Waiting(queue', d) => d \in linked /\ session.colors[d] = NoColor
  BY <1>1, <1>3 DEF LinkSound
<1>11. \A i \in DOMAIN queue' :
          \/ queue'[i].user = session.users[queue'[i].conn]
          \/ \E j \in DOMAIN queue :
                queue'[i].conn = queue[j].conn /\ queue'[i].user = queue[j].user
  BY <1>3 DEF Within
<1>12. /\ \A d \in Connections :
             /\ client'[d].user = client[d].user
             /\ client'[d] = client[d] \/ (client'[d].at = "over" /\ client[d].at = "game")
             /\ outbox[d] \in Open => outbox'[d] \in Open
             /\ outbox[d] = << >> => outbox'[d] = << >>
       /\ client' \in [Connections -> Processes] /\ outbox' \in [Connections -> Outboxes]
       /\ IsStore(store', Users)
  BY <1>1, <1>2
<1>. QED  BY <1>2, <1>3, <1>9, <1>10, <1>11, <1>12, TalkStep

LEMMA TimeKeeps ==
    ASSUME IInv, TimePasses
    PROVE  IInv'
<1>1. /\ TypeInv /\ LinksSound /\ queue \in Fair /\ inbox \in [Connections -> Seq(Messages)]
      /\ outbox \in [Connections -> Outboxes] /\ client \in [Connections -> Processes]
      /\ IsStore(store, Users) /\ \A d \in Connections : LinkSound(d)
  BY DEF IInv, TypeInv, LinksSound
<1>2. /\ queue' = [i \in DOMAIN queue |-> Aged(queue[i])]
      /\ \E i \in DOMAIN queue : TRUE
      /\ UNCHANGED <<session, grace, store, host, linked, client, inbox, outbox>>
  BY DEF TimePasses
<1>3. host # NoConnection
  BY <1>1, <1>2 DEF LinksSound
<1>4. queue' \in Fair /\ DOMAIN queue' = DOMAIN queue
      /\ \A i \in DOMAIN queue : queue'[i].conn = queue[i].conn
  BY <1>1, <1>2, AgedFair
<1>5. \A i \in DOMAIN queue : queue'[i].user = queue[i].user
  <2>1. \A e \in QueueEntry : Aged(e).user = e.user
    BY DEF Aged, QueueEntry
  <2>. QED  BY <1>1, <1>2, <2>1, EntryTyped
<1>6. \A d \in Connections : Waiting(queue', d) => Waiting(queue, d)
  BY <1>4 DEF Waiting
<1>7. BoxesSound(session, client', inbox', outbox', queue', {})
  <2>1. \A d \in Connections :
           \/ client[d] = client[d]
           \/ client[d].at = "over" /\ client[d].at = "game" /\ client[d].user = client[d].user
    OBVIOUS
  <2>2. \A d \in Connections : session.colors[d] \in {NoColor, session.colors[d]}
    OBVIOUS
  <2>3. BoxesSound(session, client, inbox, outbox, queue', {})
    BY <1>6, <2>1, <2>2, BoxesFound
  <2>. QED  BY <1>2, <2>3
<1>8. \A d \in Connections : Waiting(queue', d) => d \in linked /\ session.colors[d] = NoColor
  BY <1>1, <1>6 DEF LinkSound
<1>9. \A i \in DOMAIN queue' :
         \/ queue'[i].user = session.users[queue'[i].conn]
         \/ \E j \in DOMAIN queue :
               queue'[i].conn = queue[j].conn /\ queue'[i].user = queue[j].user
  BY <1>4, <1>5
<1>10. /\ \A d \in Connections :
             /\ client'[d].user = client[d].user
             /\ client'[d] = client[d] \/ (client'[d].at = "over" /\ client[d].at = "game")
             /\ outbox[d] \in Open => outbox'[d] \in Open
             /\ outbox[d] = << >> => outbox'[d] = << >>
       /\ client' \in [Connections -> Processes] /\ outbox' \in [Connections -> Outboxes]
       /\ IsStore(store', Users)
  BY <1>1, <1>2
<1>. QED  BY <1>2, <1>3, <1>4, <1>7, <1>8, <1>9, <1>10, TalkStep

\* A rating is an integer if every gain is.
LEMMA RatedStore ==
    ASSUME NEW st, IsStore(st, Users), NEW v \in Users, NEW w \in Users,
           \A diff \in Int : Gain(diff) \in Int
    PROVE  IsStore(Rated(st, v, w), Users)
<1>. DEFINE gain == Gain(st[v].elo - st[w].elo)
<1>1. ASSUME NEW x, IsStore(x, Users), NEW y \in Users, NEW elo \in Int
      PROVE  IsStore(UpdateElo(x, y, elo), Users)
  <2>1. CASE ~ HasRow(x, y)
    BY <1>1, <2>1 DEF UpdateElo
  <2>2. CASE HasRow(x, y)
    <3>1. PICK row : row = [x[y] EXCEPT !.elo = elo]
      OBVIOUS
    <3>2. UpdateElo(x, y, elo) = [x EXCEPT ![y] = row]
      BY <2>2, <3>1 DEF UpdateElo
    <3>3. row = [salt |-> row.salt, hash |-> row.hash, elo |-> row.elo] /\ row.elo \in Int
      <4>1. x[y] = [salt |-> x[y].salt, hash |-> x[y].hash, elo |-> x[y].elo]
        BY <1>1 DEF IsStore
      <4>. QED  BY <1>1, <3>1, <4>1
    <3>4. x = [z \in Users |-> x[z]]
      BY <1>1 DEF IsStore
    <3>5. PICK r : r = UpdateElo(x, y, elo)
      OBVIOUS
    <3>6. r = [z \in Users |-> r[z]] /\ \A z \in Users : r[z] = IF z = y THEN row ELSE x[z]
      BY <3>2, <3>4, <3>5
    <3>7. \A z \in Users : r[z] = [salt |-> r[z].salt, hash |-> r[z].hash, elo |-> r[z].elo]
                           /\ r[z].elo \in Int
      BY <1>1, <3>3, <3>6 DEF IsStore
    <3>. QED  BY <3>5, <3>6, <3>7 DEF IsStore
  <2>. QED  BY <2>1, <2>2
<1>2. st[v].elo \in Int /\ st[w].elo \in Int
  BY DEF IsStore
<1>3. gain \in Int /\ st[v].elo + gain \in Int /\ st[w].elo - gain \in Int
  BY <1>2
<1>4. CASE HasRow(st, v) /\ HasRow(st, w)
  <2>1. Rated(st, v, w) = UpdateElo(UpdateElo(st, v, st[v].elo + gain), w, st[w].elo - gain)
    BY <1>4 DEF Rated, ComputeUpdate
  <2>. QED  BY <1>1, <1>3, <2>1
<1>5. CASE ~ (HasRow(st, v) /\ HasRow(st, w))
  BY <1>5 DEF Rated
<1>. QED  BY <1>4, <1>5

\* What the end of a game changes: the host may be over, and ratings.
LEMMA PublishFrom ==
    ASSUME IInv, host # NoConnection, NEW winner \in Colors, Publish(winner),
           \A diff \in Int : Gain(diff) \in Int
    PROVE  /\ inbox' = Tell(inbox, Connections, GameEnded(winner))
           /\ client' \in [Connections -> Processes] /\ IsStore(store', Users)
           /\ \A d \in Connections :
                 \/ client'[d] = client[d]
                 \/ client'[d].at = "over" /\ client[d].at = "game" /\ client'[d].user = client[d].user
<1>1. /\ TypeInv /\ LinksSound /\ IsStore(store, Users) /\ client \in [Connections -> Processes]
      /\ host \in linked /\ host \in Connections
  BY DEF IInv, LinksSound, TypeInv
<1>2. inbox' = Tell(inbox, Connections, GameEnded(winner))
  BY DEF Publish, Announce
<1>3. CASE Subscribed(GameEnded(winner))
  <2>1. At(host, "game") /\ client' = [client EXCEPT ![host].at = "over"]
    BY <1>3 DEF Publish, Subscribed
  <2>. PICK info : info = client[host].info
    OBVIOUS
  <2>. PICK v : v = IF winner = "White" THEN info.white ELSE info.black
    OBVIOUS
  <2>. PICK w : w = IF W!Opponent(winner) = "White" THEN info.white ELSE info.black
    OBVIOUS
  <2>2. store' = IF {v, w} \subseteq Users THEN Rated(store, v, w) ELSE store
    BY <1>3 DEF Publish
  <2>3. IsStore(store', Users)
    <3>1. CASE {v, w} \subseteq Users
      <4>1. v \in Users /\ w \in Users
        BY <3>1
      <4>2. store' = Rated(store, v, w)
        BY <2>2, <3>1
      <4>. QED  BY <1>1, <4>1, <4>2, RatedStore
    <3>2. CASE ~ ({v, w} \subseteq Users)
      BY <1>1, <2>2, <3>2
    <3>. QED  BY <3>1, <3>2
  <2>4. PICK p : p = [client[host] EXCEPT !.at = "over"]
    OBVIOUS
  <2>5. p \in Processes /\ p.at = "over" /\ p.user = client[host].user
    BY <1>1, <2>4 DEF Processes, Stages
  <2>6. client' = [client EXCEPT ![host] = p]
    BY <2>1, <2>4
  <2>. QED  BY <1>1, <1>2, <2>1, <2>3, <2>5, <2>6 DEF At
<1>4. CASE ~ Subscribed(GameEnded(winner))
  <2>1. client' = client /\ store' = store
    BY <1>4 DEF Publish
  <2>. QED  BY <1>1, <1>2, <2>1
<1>. QED  BY <1>3, <1>4

LEMMA EngineEndsKeeps ==
    ASSUME IInv, NEW winner \in Colors, EngineEnds(winner), \A diff \in Int : Gain(diff) \in Int
    PROVE  IInv'
<1>1. /\ TypeInv /\ LinksSound /\ queue \in Fair /\ outbox \in [Connections -> Outboxes]
      /\ inbox \in [Connections -> Seq(Messages)] /\ \A d \in Connections : LinkSound(d)
  BY DEF IInv, TypeInv, LinksSound
<1>2. /\ host # NoConnection /\ Publish(winner)
      /\ UNCHANGED <<session, queue, grace, host, linked, outbox>>
  BY DEF EngineEnds, server
<1>3. /\ inbox' = Tell(inbox, Connections, GameEnded(winner))
      /\ client' \in [Connections -> Processes] /\ IsStore(store', Users)
      /\ \A d \in Connections :
            \/ client'[d] = client[d]
            \/ client'[d].at = "over" /\ client[d].at = "game" /\ client'[d].user = client[d].user
  BY <1>2, PublishFrom
<1>. PICK ps : ps = client'
  OBVIOUS
<1>4. BoxesSound(session, ps, inbox, outbox, queue, {})
  <2>1. \A d \in Connections : session.colors[d] \in {NoColor, session.colors[d]}
    OBVIOUS
  <2>2. \A d \in Connections :
           \/ ps[d] = client[d]
           \/ ps[d].at = "over" /\ client[d].at = "game" /\ ps[d].user = client[d].user
    BY <1>3
  <2>. QED  BY <2>1, <2>2, BoxesFound
<1>5. PICK m \in Messages : m = GameEnded(winner) /\ m.type = "game_ended"
  BY Kinds
<1>6. BoxesSound(session, ps, Tell(inbox, Connections, m), outbox, queue, {})
  <2>1. \A d \in Connections : ps[d].at \in {"off", "gone"} => client[d].at \in {"off", "gone"}
    BY <1>3
  <2>2. ~ Weighty(m)
    BY <1>5 DEF Weighty, Enables
  <2>. QED  BY <1>1, <1>4, <2>1, <2>2, TellSound
<1>7. BoxesSound(session, client', inbox', outbox', queue', {})
  BY <1>2, <1>3, <1>5, <1>6
<1>8. \A d \in Connections : Waiting(queue', d) => d \in linked /\ session.colors[d] = NoColor
  BY <1>1, <1>2 DEF LinkSound
<1>9. /\ \A d \in Connections :
             /\ client'[d].user = client[d].user
             /\ client'[d] = client[d] \/ (client'[d].at = "over" /\ client[d].at = "game")
             /\ outbox[d] \in Open => outbox'[d] \in Open
             /\ outbox[d] = << >> => outbox'[d] = << >>
      /\ outbox' \in [Connections -> Outboxes] /\ queue' \in Fair
      /\ \A i \in DOMAIN queue' :
            \E j \in DOMAIN queue :
               queue'[i].conn = queue[j].conn /\ queue'[i].user = queue[j].user
  BY <1>1, <1>2, <1>3
<1>. QED  BY <1>2, <1>3, <1>7, <1>8, <1>9, TalkStep

\* The grace time of a player is over, and his match with it.
LEMMA GraceKeeps ==
    ASSUME IInv, NEW u \in Users, GraceExpires(u), \A diff \in Int : Gain(diff) \in Int
    PROVE  IInv'
<1>1. /\ TypeInv /\ LinksSound /\ queue \in Fair /\ outbox \in [Connections -> Outboxes]
      /\ inbox \in [Connections -> Seq(Messages)] /\ grace \in [Users -> Colors \cup {NoColor}]
      /\ \A d \in Connections : LinkSound(d)
  BY DEF IInv, TypeInv, LinksSound
<1>2. /\ host # NoConnection /\ grace[u] # NoColor /\ grace' = [grace EXCEPT ![u] = NoColor]
      /\ session' = EmptySession
      /\ Publish(W!Opponent(grace[u])) /\ UNCHANGED <<queue, host, linked, outbox>>
  BY DEF GraceExpires, Ticks, ResetToLobby
<1>. PICK winner \in Colors : winner = W!Opponent(grace[u])
  BY <1>1, <1>2 DEF Colors, W!Opponent
<1>3. /\ inbox' = Tell(inbox, Connections, GameEnded(winner))
      /\ client' \in [Connections -> Processes] /\ IsStore(store', Users)
      /\ \A d \in Connections :
            \/ client'[d] = client[d]
            \/ client'[d].at = "over" /\ client[d].at = "game" /\ client'[d].user = client[d].user
  BY <1>2, PublishFrom
<1>. PICK ps : ps = client'
  OBVIOUS
<1>. PICK s : s = session'
  OBVIOUS
<1>4. BoxesSound(s, ps, inbox, outbox, queue, {})
  <2>1. \A d \in Connections : s.colors[d] \in {NoColor, session.colors[d]}
    BY <1>2, EmptySessionFields
  <2>2. \A d \in Connections :
           \/ ps[d] = client[d]
           \/ ps[d].at = "over" /\ client[d].at = "game" /\ ps[d].user = client[d].user
    BY <1>3
  <2>. QED  BY <2>1, <2>2, BoxesFound
<1>5. PICK m \in Messages : m = GameEnded(winner) /\ m.type = "game_ended"
  BY Kinds
<1>6. BoxesSound(s, ps, Tell(inbox, Connections, m), outbox, queue, {})
  <2>1. \A d \in Connections : ps[d].at \in {"off", "gone"} => client[d].at \in {"off", "gone"}
    BY <1>3
  <2>2. ~ Weighty(m)
    BY <1>5 DEF Weighty, Enables
  <2>. QED  BY <1>1, <1>4, <2>1, <2>2, TellSound
<1>7. BoxesSound(session', client', inbox', outbox', queue', {})
  BY <1>2, <1>3, <1>5, <1>6
<1>8. \A d \in Connections :
         /\ outbox[d] \in Open => outbox'[d] \in Open
         /\ d \notin linked' => /\ outbox'[d] = << >>
                                /\ session'.users[d] = NoUser /\ session'.colors[d] = NoColor
         /\ session'.users[d] \in {NoUser, client[d].user}
         /\ Waiting(queue', d) => d \in linked' /\ session'.colors[d] = NoColor
  BY <1>1, <1>2, EmptySessionFields DEF LinkSound
<1>9. \A d \in Connections :
         /\ client'[d].user = client[d].user
         /\ client'[d] = client[d] \/ (client'[d].at = "over" /\ client[d].at = "game")
  BY <1>3
<1>10. \A i \in DOMAIN queue' : queue'[i].user = client[queue'[i].conn].user
  BY <1>1, <1>2 DEF LinksSound
<1>11. /\ host' = host /\ linked' \in SUBSET linked /\ host \in linked'
       /\ session' \in SessionState /\ queue' \in Fair /\ outbox' \in [Connections -> Outboxes]
       /\ grace' \in [Users -> Colors \cup {NoColor}]
  BY <1>1, <1>2, EmptySessionFields DEF LinksSound
<1>12. NoMatchNoSeat(session')
  <2>1. ~ EmptySession.fixedRoster
    BY DEF EmptySession
  <2>. QED  BY <1>2, <2>1, EmptySessionFields DEF NoMatchNoSeat
<1>. QED  BY <1>2, <1>3, <1>7, <1>8, <1>9, <1>10, <1>11, <1>12, ServerStep

-----------------------------------------------------------------------------
(* The steps of a process *)

\* Every process, in each of its steps but the end of the host: it does not leave
\* the lobby except in a turn of the lobby's loop.
LEMMA ProcessKeeps ==
    ASSUME IInv, NEW c \in Connections,
           \/ EnterLobby(c) \/ ClickPlay(c) \/ GameFrame(c)
           \/ \E n \in 0 .. Len(inbox[c]) : (n > 0 /\ LobbyFrame(c, n)) \/ EnterGame(c, n)
           \/ c # host /\ End(c) /\ client[c].at \notin {"off", "gone"}
    PROVE  IInv'
<1>1. inbox = [inbox EXCEPT ![c] = inbox[c]] /\ outbox = [outbox EXCEPT ![c] = outbox[c]]
  BY DEF IInv, TypeInv
<1>2. CASE EnterLobby(c)
  <2>1. PICK p : Fits(c, p, inbox[c], outbox[c]) /\ client' = [client EXCEPT ![c] = p]
    BY <1>2, EnterLobbyFits
  <2>2. UNCHANGED <<session, queue, grace, store, host, linked, inbox, outbox>>
    BY <1>2 DEF EnterLobby, server
  <2>. QED  BY <1>1, <2>1, <2>2, OwnStep
<1>3. CASE ClickPlay(c)
  <2>1. PICK p, o : Fits(c, p, inbox[c], o) /\ client' = [client EXCEPT ![c] = p]
                    /\ outbox' = [outbox EXCEPT ![c] = o]
    BY <1>3, ClickPlayFits
  <2>2. UNCHANGED <<session, queue, grace, store, host, linked, inbox>>
    BY <1>3 DEF ClickPlay, server
  <2>. QED  BY <1>1, <2>1, <2>2, OwnStep
<1>4. CASE GameFrame(c)
  <2>1. PICK p : Fits(c, p, << >>, outbox[c]) /\ client' = [client EXCEPT ![c] = p]
    BY <1>4, GameFrameFits
  <2>2. UNCHANGED <<session, queue, grace, store, host, linked, outbox>>
        /\ inbox' = [inbox EXCEPT ![c] = << >>]
    BY <1>4 DEF GameFrame, server
  <2>. QED  BY <1>1, <2>1, <2>2, OwnStep
<1>5. ASSUME NEW n \in 0 .. Len(inbox[c]), n > 0, LobbyFrame(c, n) PROVE IInv'
  <2>1. PICK p, b : Fits(c, p, b, outbox[c]) /\ client' = [client EXCEPT ![c] = p]
                    /\ inbox' = [inbox EXCEPT ![c] = b]
    BY <1>5, LobbyFrameFits
  <2>2. UNCHANGED <<session, queue, grace, store, host, linked, outbox>>
    BY <1>5 DEF LobbyFrame, server
  <2>. QED  BY <1>1, <2>1, <2>2, OwnStep
<1>6. ASSUME NEW n \in 0 .. Len(inbox[c]), EnterGame(c, n) PROVE IInv'
  <2>1. PICK p, b : Fits(c, p, b, outbox[c]) /\ client' = [client EXCEPT ![c] = p]
                    /\ inbox' = [inbox EXCEPT ![c] = b]
    BY <1>6, EnterGameFits
  <2>2. UNCHANGED <<session, queue, grace, store, host, linked, outbox>>
    BY <1>6 DEF EnterGame, server
  <2>. QED  BY <1>1, <2>1, <2>2, OwnStep
<1>7. CASE c # host /\ End(c) /\ client[c].at \notin {"off", "gone"}
  <2>1. PICK p, o : Fits(c, p, << >>, o) /\ client' = [client EXCEPT ![c] = p]
                    /\ outbox' = [outbox EXCEPT ![c] = o]
    BY <1>7, EndFits
  <2>2. UNCHANGED <<session, queue, grace, store, host, linked>>
        /\ inbox' = [inbox EXCEPT ![c] = << >>]
    BY <1>7 DEF End, server
  <2>. QED  BY <2>1, <2>2, OwnStep
<1>. QED  BY <1>2, <1>3, <1>4, <1>5, <1>6, <1>7

-----------------------------------------------------------------------------
(* A process starts; the process of the host ends *)

\* Creating a row keeps a store a store.
LEMMA CreatedStore ==
    ASSUME NEW st, IsStore(st, Users), NEW u, NEW password
    PROVE  IsStore(Create(st, u, password), Users)
<1>1. CASE HasRow(st, u)
  BY <1>1 DEF Create
<1>2. CASE ~ HasRow(st, u)
  <2>1. PICK row : row = Row(u, password, DefaultElo)
    OBVIOUS
  <2>2. row = [salt |-> row.salt, hash |-> row.hash, elo |-> row.elo] /\ row.elo \in Int
    BY <2>1 DEF Row, DefaultElo
  <2>3. st = [v \in Users |-> st[v]]
        /\ \A v \in Users :
              /\ st[v] = [salt |-> st[v].salt, hash |-> st[v].hash, elo |-> st[v].elo]
              /\ st[v].elo \in Int
    BY DEF IsStore
  <2>4. PICK r : r = Create(st, u, password) /\ r = [st EXCEPT ![u] = row]
    BY <1>2, <2>1 DEF Create
  <2>5. r = [v \in Users |-> r[v]] /\ \A v \in Users : r[v] = IF v = u THEN row ELSE st[v]
    BY <2>3, <2>4
  <2>6. \A v \in Users : /\ r[v] = [salt |-> r[v].salt, hash |-> r[v].hash, elo |-> r[v].elo]
                         /\ r[v].elo \in Int
    BY <2>2, <2>3, <2>5
  <2>. QED  BY <2>4, <2>5, <2>6 DEF IsStore
<1>. QED  BY <1>1, <1>2

LEMMA LaunchKeeps ==
    ASSUME IInv, NEW i \in DOMAIN Ids, NEW lines \in Typed, NEW forceClient \in BOOLEAN,
           Launch(i, lines, forceClient)
    PROVE  IInv'
<1>1. /\ TypeInv /\ LinksSound /\ queue \in Fair /\ outbox \in [Connections -> Outboxes]
      /\ inbox \in [Connections -> Seq(Messages)] /\ client \in [Connections -> Processes]
      /\ linked \subseteq Connections /\ session \in SessionState
      /\ \A d \in Connections : LinkSound(d) /\ Token(d)
  BY DEF IInv, TypeInv, LinksSound
<1>. PICK c \in Connections : c = Ids[i]
  BY LobbyAssumption
<1>. PICK u : u = ReadPlayerCredentials(lines).username
  OBVIOUS
<1>. PICK p : p = [client[c] EXCEPT !.at = "login", !.user = u]
  OBVIOUS
<1>2. /\ At(c, "off")
      /\ \E password : store' = Create(store, u, password)
      /\ host' = host \/ (host' = c /\ host = NoConnection)
      /\ client' = [client EXCEPT ![c].at = "login", ![c].user = u]
      /\ linked' = IF host' # NoConnection THEN linked \cup {c} ELSE linked
      /\ outbox' = IF host' # NoConnection THEN [outbox EXCEPT ![c] = <<"login">>] ELSE outbox
      /\ UNCHANGED <<session, queue, grace, inbox>>
  BY DEF Launch, AcquireHostElection, StartsServer, server
<1>3. client[c] = Process /\ c \notin linked /\ inbox[c] = << >> /\ outbox[c] = << >>
      /\ session.users[c] = NoUser /\ session.colors[c] = NoColor
  BY <1>1, <1>2 DEF LinkSound, At
<1>4. /\ p.at = "login" /\ p.user = u /\ p.status = "Idle" /\ p.info = NoInfo /\ p \in Processes
  <2>1. u \in Names
    BY DEF Names
  <2>2. client[c] \in Processes /\ client[c].status = "Idle" /\ client[c].info = NoInfo
    BY <1>1, <1>3 DEF Process
  <2>. QED  BY <2>1, <2>2 DEF Processes, Stages
<1>5. \A d \in Connections : client'[d] = IF d = c THEN p ELSE client[d]
  <2>1. client' = [client EXCEPT ![c] = p]
    BY <1>1, <1>2
  <2>. QED  BY <1>1, <2>1
<1>6. \A d \in Connections :
         /\ d # c => outbox'[d] = outbox[d]
         /\ d = c => outbox'[d] = IF host' # NoConnection THEN <<"login">> ELSE << >>
  BY <1>1, <1>2, <1>3
<1>7. LogsIn(<<"login">>) /\ ~ Asks(<<"login">>) /\ ~ LogsIn(<< >>) /\ ~ Asks(<< >>)
      /\ <<"login">> \in Open /\ << >> \in Open /\ Open \subseteq Outboxes
  BY Texts, Zenon DEF Open, Outboxes, LogsIn, Asks
<1>8. ~ Waiting(queue, c)
  BY <1>1, <1>3 DEF Token, TokenSound, Process
<1>9. TypeInv'
  <2>1. client' \in [Connections -> Processes]
    BY <1>1, <1>2, <1>4
  <2>2. outbox' \in [Connections -> Outboxes]
    BY <1>1, <1>2, <1>7
  <2>3. IsStore(store', Users)
    BY <1>1, <1>2, CreatedStore DEF TypeInv
  <2>. QED  BY <1>1, <1>2, <2>1, <2>2, <2>3 DEF TypeInv
<1>10. LinksSound'
  <2>1. ASSUME NEW d \in Connections PROVE LinkSound(d)'
    <3>1. CASE d = c
      <4>1. client'[c] = p /\ inbox'[c] = << >> /\ session'.users[c] = NoUser
            /\ session'.colors[c] = NoColor
        BY <1>2, <1>3, <1>5
      <4>2. outbox'[c] \in Open /\ (c \notin linked' => outbox'[c] = << >>)
        BY <1>2, <1>6, <1>7
      <4>3. ~ Waiting(queue, c)'
        BY <1>2, <1>8 DEF Waiting
      <4>. QED  BY <1>4, <3>1, <4>1, <4>2, <4>3 DEF LinkSound, At
    <3>2. CASE d # c
      <4>1. client'[d] = client[d] /\ outbox'[d] = outbox[d] /\ inbox'[d] = inbox[d]
            /\ (d \notin linked' => d \notin linked) /\ (d \in linked' <=> d \in linked)
            /\ (Waiting(queue, d)' <=> Waiting(queue, d))
        BY <1>2, <1>5, <1>6, <3>2 DEF Waiting
      <4>. QED  BY <1>1, <1>2, <4>1 DEF LinkSound, At
    <3>. QED  BY <3>1, <3>2
  <2>2. \A j \in DOMAIN queue : queue[j].user = client'[queue[j].conn].user
    <3>. TAKE j \in DOMAIN queue
    <3>1. queue[j].conn \in Connections /\ queue[j].conn # c
      BY <1>1, <1>8, EntryTyped DEF Waiting
    <3>. QED  BY <1>1, <1>5, <3>1 DEF LinksSound
  <2>3. host' # NoConnection => host' \in linked' /\ client'[host'].at \notin {"off", "gone"}
    BY <1>1, <1>2, <1>3, <1>4, <1>5 DEF LinksSound
  <2>4. host' = NoConnection => /\ linked' = {} /\ queue' = << >> /\ session' = EmptySession
                                /\ grace' = NoGrace
    BY <1>1, <1>2, AbsentAssumption DEF LinksSound
  <2>. QED  BY <1>2, <2>1, <2>2, <2>3, <2>4 DEF LinksSound
<1>11. ASSUME NEW d \in Connections PROVE Token(d)'
  <2>1. Token(d)' <=> TokenSound(client'[d], inbox'[d], outbox'[d], Waiting(queue', d))
    BY DEF Token, Waiting
  <2>2. CASE d = c
    <3>1. ~ Holds(<< >>, "login_ok") /\ ~ Enabling(<< >>) /\ ~ Holds(<< >>, "match_found")
      BY EmptyBox
    <3>2. client'[c] = p /\ inbox'[c] = << >> /\ ~ Waiting(queue', c)
      BY <1>2, <1>3, <1>5, <1>8
    <3>3. TokenSound(p, << >>, outbox'[c], Waiting(queue', c))
      BY <1>4, <1>6, <1>7, <3>1, <3>2 DEF TokenSound, IsTold
    <3>. QED  BY <2>1, <2>2, <3>2, <3>3
  <2>3. CASE d # c
    BY <1>1, <1>2, <1>5, <1>6, <2>1, <2>3 DEF Token
  <2>. QED  BY <2>2, <2>3
<1>12. \A d \in Connections : TellsColor(session'.colors[d], client'[d], inbox'[d])
  <2>. TAKE d \in Connections
  <2>1. CASE d = c
    <3>1. session'.colors[c] = NoColor
      BY <1>2, <1>3
    <3>. QED  BY <2>1, <3>1, NoSeatColor
  <2>2. CASE d # c
    <3>1. TellsColor(session.colors[d], client[d], inbox[d])
      BY DEF IInv
    <3>. QED  BY <1>2, <1>5, <2>2, <3>1
  <2>. QED  BY <2>1, <2>2
<1>13. NoMatchNoSeat(session)'
  <2>1. NoMatchNoSeat(session) /\ session' = session
    BY <1>2 DEF IInv
  <2>. QED  BY <2>1 DEF NoMatchNoSeat
<1>. QED  BY <1>9, <1>10, <1>11, <1>12, <1>13 DEF IInv

\* The server ends with its process, and what was under way with it.
LEMMA HostEndKeeps ==
    ASSUME IInv, NEW c \in Connections, c = host, End(c)
    PROVE  IInv'
<1>1. /\ TypeInv /\ LinksSound /\ outbox \in [Connections -> Outboxes]
      /\ inbox \in [Connections -> Seq(Messages)] /\ client \in [Connections -> Processes]
      /\ IsStore(store, Users) /\ client[c].at \notin {"off", "gone"}
      /\ \A d \in Connections : LinkSound(d) /\ Token(d)
  BY AbsentAssumption DEF IInv, TypeInv, LinksSound
<1>. PICK p : p = Ended(client[c])
  OBVIOUS
<1>2. /\ client' = [client EXCEPT ![c] = p] /\ inbox' = [inbox EXCEPT ![c] = << >>]
      /\ session' = EmptySession /\ queue' = << >> /\ grace' = NoGrace
      /\ host' = NoConnection /\ linked' = {} /\ outbox' = [d \in Connections |-> << >>]
      /\ store' = store
  BY DEF End
<1>3. /\ p.at = "gone" /\ p.user = client[c].user /\ p \in Processes
  <2>1. client[c].user \in Names
    BY <1>1 DEF Processes
  <2>. QED  BY <2>1 DEF Ended, Process, Processes, Stages, Statuses, Infos, NoInfo
<1>4. \A d \in Connections : /\ client'[d] = IF d = c THEN p ELSE client[d]
                             /\ inbox'[d] = IF d = c THEN << >> ELSE inbox[d]
                             /\ outbox'[d] = << >> /\ ~ Waiting(queue', d)
  BY <1>1, <1>2 DEF Waiting
<1>5. << >> \in Fair
  BY DEF Fair, PairFree, SingleEntries
<1>6. TypeInv'
  <2>1. NoGrace \in [Users -> Colors \cup {NoColor}]
    BY DEF NoGrace
  <2>2. << >> \in Outboxes
    BY DEF Outboxes, Open
  <2>3. client' \in [Connections -> Processes] /\ inbox' \in [Connections -> Seq(Messages)]
        /\ outbox' \in [Connections -> Outboxes]
    BY <1>1, <1>2, <1>3, <2>2, EmptyBox
  <2>. QED  BY <1>1, <1>2, <1>5, <2>1, <2>3, EmptySessionFields DEF TypeInv
<1>7. LinksSound'
  <2>1. ASSUME NEW d \in Connections PROVE LinkSound(d)'
    <3>1. << >> \in Open /\ session'.users[d] = NoUser /\ session'.colors[d] = NoColor
      BY <1>2, EmptySessionFields DEF Open
    <3>2. outbox'[d] = << >> /\ ~ Waiting(queue, d)'
      BY <1>4 DEF Waiting
    <3>3. CASE d = c
      BY <1>2, <1>3, <1>4, <3>1, <3>2, <3>3 DEF LinkSound, At
    <3>4. CASE d # c
      <4>1. client'[d] = client[d] /\ inbox'[d] = inbox[d] /\ LinkSound(d)
        BY <1>1, <1>4, <3>4
      <4>. QED  BY <1>2, <3>1, <3>2, <4>1 DEF LinkSound, At
    <3>. QED  BY <3>3, <3>4
  <2>. QED  BY <1>2, <2>1 DEF LinksSound
<1>8. ~ Asks(<< >>) /\ ~ LogsIn(<< >>)
  BY Texts
<1>9. ASSUME NEW d \in Connections PROVE Token(d)'
  <2>1. Token(d)' <=> TokenSound(client'[d], inbox'[d], outbox'[d], Waiting(queue', d))
    BY DEF Token, Waiting
  <2>2. CASE d = c
    <3>1. ~ Holds(<< >>, "match_found")
      BY EmptyBox
    <3>. QED  BY <1>3, <1>4, <1>8, <2>1, <2>2, <3>1 DEF TokenSound, IsTold
  <2>3. CASE d # c
    <3>1. TokenSound(client[d], inbox[d], outbox[d], Waiting(queue, d))
      BY <1>1 DEF Token
    <3>. QED  BY <1>4, <1>8, <2>1, <2>3, <3>1 DEF TokenSound
  <2>. QED  BY <2>2, <2>3
<1>10. \A d \in Connections : TellsColor(session'.colors[d], client'[d], inbox'[d])
  BY <1>2, EmptySessionFields, NoSeatColor
<1>11. NoMatchNoSeat(session)'
  <2>1. ~ EmptySession.fixedRoster
    BY DEF EmptySession
  <2>. QED  BY <1>2, <2>1, EmptySessionFields DEF NoMatchNoSeat
<1>. QED  BY <1>6, <1>7, <1>9, <1>10, <1>11 DEF IInv

-----------------------------------------------------------------------------
(* The theorems *)

LEMMA EveryStepKeeps ==
    ASSUME IInv, Next, \A diff \in Int : Gain(diff) \in Int
    PROVE  IInv'
<1>1. ASSUME NEW i \in DOMAIN Ids, NEW lines \in Typed, NEW forceClient \in BOOLEAN,
             Launch(i, lines, forceClient)
      PROVE  IInv'
  BY <1>1, LaunchKeeps
<1>2. ASSUME NEW c \in Connections, Exit(c) \/ Quit(c) PROVE IInv'
  <2>1. End(c) /\ client[c].at \notin {"off", "gone"}
    BY <1>2 DEF Exit, Quit, At
  <2>2. CASE c = host
    BY <2>1, <2>2, HostEndKeeps
  <2>3. CASE c # host
    BY <2>1, <2>3, ProcessKeeps
  <2>. QED  BY <2>2, <2>3
<1>3. ASSUME NEW c \in Connections,
             \/ EnterLobby(c) \/ ClickPlay(c) \/ GameFrame(c)
             \/ \E n \in 0 .. Len(inbox[c]) : (n > 0 /\ LobbyFrame(c, n)) \/ EnterGame(c, n)
      PROVE  IInv'
  BY <1>3, ProcessKeeps
<1>4. ASSUME NEW c \in Connections, Handle(c) PROVE IInv'
  <2>1. ASSUME NEW u \in Users, HandleLogin(c, u) PROVE IInv'
    BY <2>1, LoginKeeps
  <2>2. CASE HandleJoin(c)
    BY <2>2, RefusedKeeps, WaitsKeeps, MatchKeeps
  <2>3. CASE HandleClose(c)
    BY <2>3, ReservedKeeps, ForgottenKeeps
  <2>. QED  BY <1>4, <2>1, <2>2, <2>3 DEF Handle
<1>5. ASSUME NEW winner \in Colors, EngineEnds(winner) PROVE IInv'
  BY <1>5, EngineEndsKeeps
<1>6. CASE TickQueue
  BY <1>6, TickKeeps
<1>7. CASE TimePasses
  BY <1>7, TimeKeeps
<1>8. ASSUME NEW u \in Users, GraceExpires(u) PROVE IInv'
  BY <1>8, GraceKeeps
<1>. QED  BY <1>1, <1>2, <1>3, <1>4, <1>5, <1>6, <1>7, <1>8 DEF Next

LEMMA InvariantKept ==
    ASSUME IInv, [Next]_vars, \A diff \in Int : Gain(diff) \in Int
    PROVE  IInv'
<1>1. CASE UNCHANGED vars
  <2>1. \A d \in Connections : (LinkSound(d) => LinkSound(d)') /\ (Token(d) => Token(d)')
    BY <1>1 DEF vars, LinkSound, Token, Waiting, At
  <2>2. NoMatchNoSeat(session) => NoMatchNoSeat(session)'
    BY <1>1 DEF vars, NoMatchNoSeat
  <2>3. TypeInv' /\ LinksSound'
    BY <1>1, <2>1 DEF vars, IInv, TypeInv, LinksSound
  <2>4. \A d \in Connections : TellsColor(session'.colors[d], client'[d], inbox'[d])
    BY <1>1 DEF vars, IInv
  <2>. QED  BY <2>1, <2>2, <2>3, <2>4 DEF IInv
<1>2. CASE Next
  BY <1>2, EveryStepKeeps
<1>. QED  BY <1>1, <1>2

\* Only a turn of the lobby's loop takes a process from the lobby to its game.
LEMMA LeavesByReading ==
    ASSUME IInv, Next, NEW c \in Connections, At(c, "lobby"), At(c, "leaving")',
           \A diff \in Int : Gain(diff) \in Int
    PROVE  \E n \in 0 .. Len(inbox[c]) : n > 0 /\ LobbyFrame(c, n)
<1>. SUFFICES ASSUME ~ \E n \in 0 .. Len(inbox[c]) : n > 0 /\ LobbyFrame(c, n) PROVE FALSE
  OBVIOUS
<1>0. /\ client \in [Connections -> Processes] /\ client[c].at = "lobby" /\ client'[c].at = "leaving"
      /\ client'[c] # client[c]
  BY DEF IInv, TypeInv, At
<1>1. ASSUME NEW d \in Connections, NEW p, client' = [client EXCEPT ![d] = p], p.at # "leaving"
      PROVE  FALSE
  BY <1>0, <1>1
<1>2. ASSUME NEW i \in DOMAIN Ids, NEW lines \in Typed, NEW forceClient \in BOOLEAN,
             Launch(i, lines, forceClient)
      PROVE  FALSE
  <2>1. PICK d, u :
           d \in Connections /\ client' = [client EXCEPT ![d].at = "login", ![d].user = u]
    BY <1>2, LobbyAssumption DEF Launch
  <2>2. client'[c] = client[c] \/ client'[c].at = "login"
    <3>1. client[d] \in Processes
      BY <1>0, <2>1
    <3>. QED  BY <1>0, <2>1, <3>1 DEF Processes
  <2>. QED  BY <1>0, <2>2
<1>3. ASSUME NEW d \in Connections, Exit(d) \/ Quit(d) PROVE FALSE
  <2>1. client' = [client EXCEPT ![d] = Ended(client[d])]
    BY <1>0, <1>3 DEF Exit, Quit, End
  <2>2. Ended(client[d]).at = "gone"
    BY DEF Ended, Process
  <2>. QED  BY <1>1, <2>1, <2>2
<1>4. ASSUME NEW d \in Connections, EnterLobby(d) \/ ClickPlay(d) \/ GameFrame(d) PROVE FALSE
  BY <1>1, <1>4, EnterLobbyFits, ClickPlayFits, GameFrameFits
<1>5. ASSUME NEW d \in Connections, NEW n \in 0 .. Len(inbox[d]),
             (n > 0 /\ LobbyFrame(d, n)) \/ EnterGame(d, n)
      PROVE  FALSE
  <2>1. CASE EnterGame(d, n)
    BY <1>1, <2>1, EnterGameFits
  <2>2. CASE n > 0 /\ LobbyFrame(d, n)
    <3>1. d # c
      BY <2>2
    <3>2. PICK p, b : client' = [client EXCEPT ![d] = p] /\ inbox' = [inbox EXCEPT ![d] = b]
      BY <2>2, LobbyFrameFits
    <3>. QED  BY <1>0, <3>1, <3>2
  <2>. QED  BY <1>5, <2>1, <2>2
<1>6. ASSUME NEW d \in Connections, Handle(d) PROVE FALSE
  <2>1. client' = client
    BY <1>6 DEF Handle, HandleLogin, HandleJoin, HandleClose, Handles
  <2>. QED  BY <1>0, <2>1
<1>7. ASSUME NEW winner \in Colors, Publish(winner), host # NoConnection PROVE FALSE
  <2>1. client'[c] = client[c] \/ client'[c].at = "over"
    BY <1>7, PublishFrom
  <2>. QED  BY <1>0, <2>1
<1>8. ASSUME NEW u \in Users, GraceExpires(u) PROVE FALSE
  <2>1. PICK winner \in Colors : winner = W!Opponent(grace[u])
    BY DEF W!Opponent, Colors
  <2>2. Publish(winner) /\ host # NoConnection
    BY <1>8, <2>1 DEF GraceExpires, Ticks
  <2>. QED  BY <1>7, <2>2
<1>9. ASSUME NEW winner \in Colors, EngineEnds(winner) PROVE FALSE
  BY <1>7, <1>9 DEF EngineEnds
<1>10. CASE TickQueue \/ TimePasses
  <2>1. client' = client
    BY <1>10 DEF TickQueue, TimePasses
  <2>. QED  BY <1>0, <2>1
<1>. QED  BY <1>2, <1>3, <1>4, <1>5, <1>6, <1>8, <1>9, <1>10 DEF Next

\* What a turn of the loop has read is what it has taken from its messages.
LEMMA ReadIsTaken ==
    ASSUME IInv, NEW c \in Connections, NEW n \in 0 .. Len(inbox[c]), n > 0, LobbyFrame(c, n)
    PROVE  Len(inbox[c]) - Len(inbox'[c]) = n /\ ReadNow(c) = Heard(c, n)
<1>. PICK box \in Seq(Messages) : box = inbox[c]
  BY DEF IInv, TypeInv
<1>1. inbox'[c] = SubSeq(box, n + 1, Len(box)) /\ n \in 0 .. Len(box)
  BY DEF LobbyFrame, IInv, TypeInv
<1>2. PICK rest : rest = SubSeq(box, n + 1, Len(box))
  OBVIOUS
<1>3. rest \in Seq(Messages) /\ DOMAIN rest = 1 .. Len(box) - n
  BY <1>1, <1>2, FirstGone
<1>4. Len(rest) = Len(box) - n
  <2>1. Len(box) - n \in Nat /\ Len(box) \in Nat /\ n \in Nat
    BY <1>1
  <2>2. PICK k \in Nat : k = Len(box) - n
    BY <2>1
  <2>3. rest \in Seq(Messages) /\ DOMAIN rest = 1 .. k
    BY <1>3, <2>2
  <2>4. Len(rest) \in Nat /\ DOMAIN rest = 1 .. Len(rest)
    BY <2>3
  <2>5. Len(rest) = k
    BY <2>2, <2>3, <2>4
  <2>. QED  BY <2>2, <2>5
<1>5. Len(inbox[c]) - Len(inbox'[c]) = n
  <2>1. Len(box) \in Nat /\ n \in Nat
    BY <1>1
  <2>. QED  BY <1>1, <1>2, <1>4, <2>1
<1>. QED  BY <1>5 DEF ReadNow

\* A process that was seated by a match and told of it leaves with its color.
LEMMA StepLeavesAsSeated ==
    ASSUME IInv, Next, NEW c \in Seated(session), At(c, "lobby"), At(c, "leaving")',
           \/ client[c].info # NoInfo
           \/ \E i \in DOMAIN ReadNow(c) : ReadNow(c)[i].type = "match_found",
           \A diff \in Int : Gain(diff) \in Int
    PROVE  client'[c].info.color = session.colors[c]
<1>1. c \in Connections /\ session.colors[c] # NoColor /\ client \in [Connections -> Processes]
  BY DEF Seated, IInv, TypeInv
<1>2. PICK n \in 0 .. Len(inbox[c]) : n > 0 /\ LobbyFrame(c, n)
  BY <1>1, LeavesByReading
<1>3. ReadNow(c) = Heard(c, n)
  BY <1>1, <1>2, ReadIsTaken
<1>4. DOMAIN Heard(c, n) = 1 .. n
  BY DEF Heard
<1>5. ToldIn(c, Heard(c, n), n)
  BY <1>3, <1>4 DEF ToldIn
<1>6. PICK p : /\ client' = [client EXCEPT ![c] = p]
               /\ (ToldIn(c, Heard(c, n), n) /\ session.colors[c] # NoColor =>
                      p.info.color = session.colors[c])
  BY <1>1, <1>2, LobbyFrameFits
<1>. QED  BY <1>1, <1>5, <1>6

\* The inductive invariant of the lobby: for any number of processes and matches,
\* whoever asks for a match was not told of one, and what a player was told of his
\* match by MatchFound is the color of the seat the server gave him.
THEOREM IInvAlways ==
    ASSUME \A diff \in Int : Gain(diff) \in Int
    PROVE  Spec => []IInv
<1>1. Init => IInv
  BY InitSound
<1>2. IInv /\ [Next]_vars => IInv'
  BY InvariantKept
<1>. QED  BY <1>1, <1>2, PTL DEF Spec

\* LeavesAsSeated: however many processes there are, whoever is matched, comes back
\* or leaves, and whatever GameStarted of other matches a lobby reads, a player who
\* was seated and told so leaves for the board with the color of his seat.
THEOREM LeavesAsSeatedHolds ==
    ASSUME \A diff \in Int : Gain(diff) \in Int
    PROVE  Spec => LeavesAsSeated
<1>1. IInv /\ [Next]_vars =>
         [\A c \in Seated(session) :
             /\ At(c, "lobby") /\ At(c, "leaving")'
             /\ \/ client[c].info # NoInfo
                \/ \E i \in DOMAIN ReadNow(c) : ReadNow(c)[i].type = "match_found"
             => client'[c].info.color = session.colors[c]]_vars
  BY StepLeavesAsSeated
<1>2. Spec => []IInv
  BY IInvAlways
<1>. QED  BY <1>1, <1>2, PTL DEF Spec, LeavesAsSeated
=============================================================================

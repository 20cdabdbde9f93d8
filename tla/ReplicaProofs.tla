---------------------------- MODULE ReplicaProofs ----------------------------
(***************************************************************************)
(* The invariants of Replica, proved for every board, every duration and   *)
(* every bound.  Both engines are sound in every state: whatever clicks    *)
(* and messages come together in a turn of a loop, each is an operation of *)
(* the engine, and EngineLemmas has it that every operation keeps          *)
(* GameSound.  The loops over commands and messages are inductions on      *)
(* their turns.                                                            *)
(***************************************************************************)
EXTENDS Replica, EngineLemmas

-----------------------------------------------------------------------------
(* Loops whose turns keep a game sound *)

SoundGames == {g \in GameState : GameSound(g)}

\* A sound game is one of the sound games.
LEMMA SoundGamesDef == \A g : g \in SoundGames <=> GameSound(g)
BY DEF SoundGames, GameSound, Sound

\* A sound game that g may become: no side has gained a piece.
Follows(h, g) == GameSound(h) /\ NoMorePieces(h.board, g.board)

\* Every game follows itself, and what follows what follows it.
LEMMA FollowsTrans ==
    /\ \A g : GameSound(g) => Follows(g, g)
    /\ \A f, g, h : Follows(f, g) /\ Follows(g, h) => Follows(f, h)
<1>1. \A g : NoMorePieces(g.board, g.board)
  BY SameNoMore DEF SameOccupants
<1>. QED  BY <1>1, NoMoreTrans DEF Follows

\* The operations of the engine lead to games that follow.
LEMMA OperationsFollow ==
    ASSUME NEW g, GameSound(g)
    PROVE  /\ \A from, to : Follows(RequestMove(g, from, to), g)
           /\ \A sq : Follows(RequestJump(g, sq), g)
           /\ \A color \in Colors : Follows(ApplyRemoteGameEnded(g, color), g)
           /\ Follows(AdvanceTime(g, 1), g)
<1>1. g \in GameState /\ 1 \in Nat
  BY DEF GameSound, Sound
<1>2. \A h : h.board = g.board => NoMorePieces(h.board, g.board)
  BY SameNoMore DEF SameOccupants
<1>3. ASSUME NEW from, NEW to PROVE Follows(RequestMove(g, from, to), g)
  BY <1>1, <1>2, RequestTouches, MoveKeepsGame DEF Follows
<1>4. ASSUME NEW sq PROVE Follows(RequestJump(g, sq), g)
  BY <1>1, <1>2, JumpTouches, JumpKeepsGame DEF Follows
<1>5. ASSUME NEW color \in Colors PROVE Follows(ApplyRemoteGameEnded(g, color), g)
  <2>1. ApplyRemoteGameEnded(g, color).board = g.board
    BY <1>1 DEF ApplyRemoteGameEnded, GameState
  <2>. QED  BY <1>2, <2>1, EndKeepsGame DEF Follows
<1>6. Follows(AdvanceTime(g, 1), g)
  BY <1>1, AdvanceTimeSound, FrameDescends DEF Follows, Descends
<1>. QED  BY <1>3, <1>4, <1>5, <1>6

\* The commands of a frame are played one after the other.
LEMMA PlayRunDef ==
    ASSUME NEW g, GameSound(g), NEW seats
    PROVE  /\ PlayRun(g, seats)[0] = g
           /\ \A n \in Nat : PlayRun(g, seats)[n + 1]
                               = PlayCommand(PlayRun(g, seats)[n], commands[n + 1], seats)
           /\ \A n \in Nat : GameSound(PlayRun(g, seats)[n])
<1>. DEFINE S == SoundGames
            F == [p \in Nat \X S |-> PlayCommand(p[2], commands[p[1]], seats)]
            Eq(r) == r = [i \in Nat |-> IF i = 0 THEN g ELSE PlayCommand(r[i - 1], commands[i], seats)]
<1>1. g \in S
  BY SoundGamesDef
<1>2. ASSUME NEW h \in S, NEW command PROVE PlayCommand(h, command, seats) \in S
  BY SoundGamesDef, MoveKeepsGame, JumpKeepsGame DEF PlayCommand
<1>3. F \in [Nat \X S -> S]
  BY <1>2
<1>4. PICK r : IsRun(r, S, g, F)
  <2>1. StaysIn(S, g, F)
    BY <1>1, <1>3 DEF StaysIn
  <2>. HIDE DEF F, S
  <2>. QED  BY <2>1, LoopRuns
<1>5. Eq(r)
  <2>1. ASSUME NEW i \in Nat, i # 0 PROVE F[<<i, r[i - 1]>>] = PlayCommand(r[i - 1], commands[i], seats)
    <3>1. i - 1 \in Nat
      BY <2>1
    <3>2. <<i, r[i - 1]>> \in Nat \X S
      BY <1>4, <3>1 DEF IsRun
    <3>. QED  BY <3>2
  <2>. HIDE DEF F
  <2>. QED  BY <1>4, <2>1 DEF IsRun
<1>6. PlayRun(g, seats) = CHOOSE f : Eq(f)
  BY DEF PlayRun
<1>. HIDE DEF Eq
<1>7. Eq(PlayRun(g, seats))
  BY <1>5, <1>6
<1>. DEFINE run == PlayRun(g, seats)
<1>8. run = [i \in Nat |-> IF i = 0 THEN g ELSE PlayCommand(run[i - 1], commands[i], seats)]
  BY <1>7 DEF Eq
<1>. HIDE DEF run
<1>9. run[0] = g
  BY <1>8
<1>10. ASSUME NEW n \in Nat PROVE run[n + 1] = PlayCommand(run[n], commands[n + 1], seats)
  <2>1. n + 1 \in Nat /\ n + 1 # 0 /\ (n + 1) - 1 = n
    OBVIOUS
  <2>. QED  BY <1>8, <2>1
<1>. DEFINE Good == {n \in Nat : GameSound(run[n])}
<1>11. 0 \in Good
  BY <1>9
<1>12. ASSUME NEW n \in Nat, n \in Good PROVE n + 1 \in Good
  <2>1. run[n] \in S
    BY <1>12, SoundGamesDef
  <2>2. GameSound(run[n + 1])
    BY <1>2, <1>10, <2>1, SoundGamesDef
  <2>. QED  BY <2>2
<1>. HIDE DEF Good
<1>13. \A n \in Nat : n \in Good
  BY <1>11, <1>12, SetInduction
<1>. QED  BY <1>9, <1>10, <1>13 DEF run, Good

\* A replica that is fast-forwarded passes through sound games only.
LEMMA UntilIdleSound ==
    ASSUME NEW g, GameSound(g)
    PROVE  \A n \in Nat : Follows(UntilIdle(g)[n], g)
<1>. DEFINE S == SoundGames
            Turn(h) == IF h.active = {} THEN h ELSE AdvanceTime(h, 1)
            F == [p \in Nat \X S |-> Turn(p[2])]
            Eq(r) == r = [i \in Nat |->
                            IF i = 0 THEN g
                            ELSE IF r[i - 1].active = {} THEN r[i - 1] ELSE AdvanceTime(r[i - 1], 1)]
<1>1. g \in S
  BY SoundGamesDef
<1>2. ASSUME NEW h \in S PROVE Turn(h) \in S /\ Follows(Turn(h), h)
  <2>1. Follows(Turn(h), h)
    BY SoundGamesDef, FollowsTrans, OperationsFollow
  <2>. HIDE DEF Turn
  <2>. QED  BY <2>1, SoundGamesDef DEF Follows
<1>3. F \in [Nat \X S -> S]
  <2>. HIDE DEF Turn
  <2>. QED  BY <1>2
<1>4. PICK r : IsRun(r, S, g, F)
  <2>1. StaysIn(S, g, F)
    BY <1>1, <1>3 DEF StaysIn
  <2>. HIDE DEF F, S
  <2>. QED  BY <2>1, LoopRuns
<1>5. Eq(r)
  <2>1. ASSUME NEW i \in Nat, i # 0 PROVE F[<<i, r[i - 1]>>] = Turn(r[i - 1])
    <3>1. i - 1 \in Nat
      BY <2>1
    <3>2. <<i, r[i - 1]>> \in Nat \X S
      BY <1>4, <3>1 DEF IsRun
    <3>. HIDE DEF Turn
    <3>. QED  BY <3>2
  <2>. HIDE DEF F
  <2>. QED  BY <1>4, <2>1 DEF IsRun
<1>6. UntilIdle(g) = CHOOSE f : Eq(f)
  BY DEF UntilIdle
<1>. HIDE DEF Eq
<1>7. Eq(UntilIdle(g))
  BY <1>5, <1>6
<1>. DEFINE run == UntilIdle(g)
<1>8. run = [i \in Nat |-> IF i = 0 THEN g ELSE Turn(run[i - 1])]
  BY <1>7 DEF Eq
<1>. HIDE DEF run, Turn
<1>. DEFINE Good == {n \in Nat : Follows(run[n], g)}
<1>9. 0 \in Good
  BY <1>8, FollowsTrans
<1>10. ASSUME NEW n \in Nat, n \in Good PROVE n + 1 \in Good
  <2>1. n + 1 \in Nat /\ n + 1 # 0 /\ (n + 1) - 1 = n
    OBVIOUS
  <2>2. run[n + 1] = Turn(run[n])
    BY <1>8, <2>1
  <2>3. run[n] \in S
    BY <1>10, SoundGamesDef DEF Follows
  <2>. QED  BY <1>2, <1>10, <2>1, <2>2, <2>3, FollowsTrans
<1>. HIDE DEF Good
<1>11. \A n \in Nat : n \in Good
  BY <1>9, <1>10, SetInduction
<1>. QED  BY <1>11 DEF run, Good

\* A completed move and a jump capture are at most a request and some frames.
LEMMA SyncSound ==
    ASSUME NEW g, GameSound(g), NEW from, NEW to, NEW piece
    PROVE  /\ Follows(SyncCompletedMove(g, from, to, piece), g)
           /\ Follows(SyncJumpCapture(g, from), g)
<1>1. SyncFrames \in Nat /\ Follows(g, g)
  BY ReplicaAssumption, FollowsTrans
<1>2. ASSUME NEW h, Follows(h, g) PROVE Follows(AdvanceUntilIdle(h), g)
  <2>1. GameSound(h)
    BY <1>2 DEF Follows
  <2>2. Follows(AdvanceUntilIdle(h), h)
    BY <1>1, <2>1, UntilIdleSound DEF AdvanceUntilIdle
  <2>. QED  BY <1>2, <2>2, FollowsTrans
<1>3. /\ Follows(AdvanceUntilIdle(RequestMove(g, from, to)), g)
      /\ Follows(AdvanceUntilIdle(RequestJump(g, from)), g)
  BY <1>2, OperationsFollow
<1>. QED  BY <1>1, <1>3 DEF SyncCompletedMove, SyncJumpCapture

\* A game_ended that parses names a winner.
LEMMA WinnerParsed ==
    ASSUME NEW text, Parsed(text).type = "game_ended"
    PROVE  Parsed(text).winner \in Colors
<1>. DEFINE type == Extract(text, "type", "string").value
            parts == LayoutOf(type)
            keys == {parts[i][1] : i \in DOMAIN parts}
            PartOf(key) == parts[CHOOSE i \in DOMAIN parts : parts[i][1] = key]
            Read(key) == IF Found(text, PartOf(key)) THEN ValueOf(text, PartOf(key)) ELSE Nothing
            m == [key \in keys \cup {"type"} |-> IF key = "type" THEN type ELSE Read(key)]
<1>1. Parsed(text) = m
  BY DEF Parsed, NoMessage
<1>2. type = "game_ended"
  BY <1>1
<1>. HIDE DEF type
<1>3. parts = <<<<"winner", "color">>>>
  BY <1>2 DEF LayoutOf, ClientLayout, LobbyLayout, GameLayout
<1>4. DOMAIN parts = {1} /\ parts[1][1] = "winner" /\ parts[1][2] = "color"
  BY <1>3
<1>. HIDE DEF parts
<1>5. keys = {"winner"} /\ PartOf("winner")[2] = "color" /\ PartOf("winner") = parts[1]
  <2>1. (CHOOSE i \in DOMAIN parts : parts[i][1] = "winner") = 1
    BY <1>4
  <2>. QED  BY <1>4, <2>1
<1>. HIDE DEF PartOf
<1>6. Found(text, PartOf("winner"))
  <2>1. ~ \E i \in DOMAIN parts : IsLost(text, parts[i])
    BY DEF Parsed, NoMessage, parts, type
  <2>2. ~ IsLost(text, parts[1])
    BY <1>4, <2>1
  <2>. QED  BY <1>4, <1>5, <2>2 DEF IsLost
<1>7. ValueOf(text, PartOf("winner")) \in Colors
  BY <1>5 DEF ValueOf, Decode, ColorFromLabel, Colors
<1>8. m.winner = Read("winner")
  BY <1>5
<1>. QED  BY <1>1, <1>6, <1>7, <1>8

\* Every message the other process makes out, whatever its fields say, is an
\* operation that keeps its game sound.
LEMMA MessageSound ==
    ASSUME NEW g, GameSound(g), NEW text
    PROVE  Follows(ApplyMessage(g, Parsed(text)), g)
<1>1. PICK m : m = Parsed(text)
  OBVIOUS
<1>2. m.type = "game_ended" => m.winner \in Colors
  BY <1>1, WinnerParsed
<1>3. CASE m.type = "game_ended"
  BY <1>1, <1>2, <1>3, OperationsFollow, FollowsTrans DEF ApplyMessage
<1>4. CASE m.type # "game_ended"
  BY <1>1, <1>4, OperationsFollow, SyncSound, FollowsTrans DEF ApplyMessage, StartMove, StartJump
<1>. QED  BY <1>3, <1>4

\* So is a turn of its loop over the messages.
LEMMA ApplyRunSound ==
    ASSUME NEW g, GameSound(g)
    PROVE  \A n \in Nat : Follows(ApplyRun(g)[n], g)
<1>. DEFINE S == SoundGames
            F == [p \in Nat \X S |-> ApplyMessage(p[2], Received(events[p[1]]))]
            Eq(r) == r = [i \in Nat |->
                            IF i = 0 THEN g ELSE ApplyMessage(r[i - 1], Received(events[i]))]
<1>1. g \in S
  BY SoundGamesDef
<1>2. ASSUME NEW h \in S, NEW i
      PROVE  /\ ApplyMessage(h, Received(events[i])) \in S
             /\ Follows(ApplyMessage(h, Received(events[i])), h)
  BY SoundGamesDef, MessageSound DEF Received, Follows
<1>3. F \in [Nat \X S -> S]
  BY <1>2
<1>4. PICK r : IsRun(r, S, g, F)
  <2>1. StaysIn(S, g, F)
    BY <1>1, <1>3 DEF StaysIn
  <2>. HIDE DEF F, S
  <2>. QED  BY <2>1, LoopRuns
<1>5. Eq(r)
  <2>1. ASSUME NEW i \in Nat, i # 0
        PROVE  F[<<i, r[i - 1]>>] = ApplyMessage(r[i - 1], Received(events[i]))
    <3>1. i - 1 \in Nat
      BY <2>1
    <3>2. <<i, r[i - 1]>> \in Nat \X S
      BY <1>4, <3>1 DEF IsRun
    <3>. QED  BY <3>2
  <2>. HIDE DEF F
  <2>. QED  BY <1>4, <2>1 DEF IsRun
<1>6. ApplyRun(g) = CHOOSE f : Eq(f)
  BY DEF ApplyRun
<1>. HIDE DEF Eq
<1>7. Eq(ApplyRun(g))
  BY <1>5, <1>6
<1>. DEFINE run == ApplyRun(g)
<1>8. run = [i \in Nat |-> IF i = 0 THEN g ELSE ApplyMessage(run[i - 1], Received(events[i]))]
  BY <1>7 DEF Eq
<1>. HIDE DEF run
<1>. DEFINE Good == {n \in Nat : Follows(run[n], g)}
<1>9. 0 \in Good
  BY <1>8, FollowsTrans
<1>10. ASSUME NEW n \in Nat, n \in Good PROVE n + 1 \in Good
  <2>1. n + 1 \in Nat /\ n + 1 # 0 /\ (n + 1) - 1 = n
    OBVIOUS
  <2>2. run[n + 1] = ApplyMessage(run[n], Received(events[n + 1]))
    BY <1>8, <2>1
  <2>3. run[n] \in S
    BY <1>10, SoundGamesDef DEF Follows
  <2>. QED  BY <1>2, <1>10, <2>1, <2>2, <2>3, FollowsTrans
<1>. HIDE DEF Good
<1>11. \A n \in Nat : n \in Good
  BY <1>9, <1>10, SetInduction
<1>. QED  BY <1>11 DEF run, Good

-----------------------------------------------------------------------------
(* Both engines are sound *)

\* A process that starts, dies or comes back and the threads of the server leave
\* the host's engine, its store and its queue alone, and give the other engine a
\* new game at most, when its process ends.
LEMMA OthersLeave ==
    ASSUME Start \/ Die \/ Login \/ \E c \in Guests : Handler(c)
    PROVE  /\ UNCHANGED <<host, store, commands, sent>>
           /\ \/ UNCHANGED <<guest, events>>
              \/ guestAt' # guestAt /\ guest' = NewGame(StartBoard) /\ events' = <<>>
           /\ outbox' = outbox \/ \E c \in Guests : outbox' = [outbox EXCEPT ![c] = <<>>]
<1>1. CASE Start \/ Login
  BY <1>1 DEF Start, Login
<1>2. CASE Die
  BY <1>2 DEF Die
<1>3. ASSUME NEW c \in Guests, Handler(c)
      PROVE  /\ UNCHANGED <<host, store, commands, sent, guest, events>>
             /\ outbox' = outbox \/ outbox' = [outbox EXCEPT ![c] = <<>>]
  BY <1>3 DEF Handler, Reconnect, OnReconnect, TellReturn, Answer, Authenticate, Close,
              OnDisconnect, ReserveSlot, TellLeave, process
<1>. QED  BY <1>1, <1>2, <1>3

\* A premove by a click is one of the premoves that keep a game sound.
LEMMA PremoveClickSound ==
    ASSUME NEW g, GameSound(g), NEW from \in Squares, NEW to \in Squares, NEW player,
           ClickMeans(g, from, to, player) = "premove"
    PROVE  /\ MoveStartedNow(g, from) # {}
           /\ GameSound(PremoveByClick(g, from, to))
<1>1. MoveStartedNow(g, from) # {}
  BY DEF ClickMeans
<1>2. PICK m \in MoveStartedNow(g, from) : PremoveByClick(g, from, to) = QueuePremove(g, from, m.dest, to)
  BY <1>1 DEF PremoveByClick
<1>. QED  BY <1>1, <1>2, PremoveKeepsGame

BothSound == GameSound(host) /\ GameSound(guest)

\* Both engines begin as new games.
LEMMA BothInit == Init => BothSound
BY NewGameSound, ReplicaAssumption DEF Init, BothSound

\* The length of the queue and of what is read are numbers of turns.
QueueTyped == commands \in Seq([connection : Players, request : Requests])

\* No step of Replica leaves the sound games.
LEMMA BothStep ==
    BothSound /\ QueueTyped /\ [Next]_vars => BothSound'
<1>. SUFFICES ASSUME BothSound, QueueTyped, [Next]_vars PROVE BothSound'
  OBVIOUS
<1>0. GameSound(host) /\ GameSound(guest)
  BY DEF BothSound
<1>1. ASSUME NEW p \in Players, NEW from \in Squares, NEW to \in Squares, ClickMove(p, from, to)
      PROVE  BothSound'
  BY <1>0, <1>1, MoveKeepsGame DEF ClickMove, BothSound
<1>2. ASSUME NEW p \in Players, NEW from \in Squares, NEW to \in Squares, ClickPremove(p, from, to)
      PROVE  BothSound'
  <2>1. CASE p = Host
    BY <1>0, <1>2, <2>1, PremoveClickSound DEF ClickPremove, BothSound, EngineOf
  <2>2. CASE p # Host
    BY <1>0, <1>2, <2>2, PremoveClickSound DEF ClickPremove, BothSound, EngineOf
  <2>. QED  BY <2>1, <2>2
<1>3. ASSUME NEW p \in Players, NEW sq \in Squares, ClickJump(p, sq)
      PROVE  BothSound'
  BY <1>0, <1>3, JumpKeepsGame DEF ClickJump, BothSound
<1>4. ASSUME NEW expires \in BOOLEAN, NEW fades \in BOOLEAN, NEW read, HostFrame(expires, read, fades)
      PROVE  BothSound'
  <2>. DEFINE ticked == IF expires THEN ApplyRemoteGameEnded(host, "White") ELSE host
              seats == IF expires THEN {} ELSE seated
              played == PlayRun(ticked, seats)[Len(commands)]
  <2>1. host' = AdvanceTime(played, 1) /\ guest' = guest
    BY <1>4 DEF HostFrame
  <2>2. "White" \in Colors
    BY DEF Colors
  <2>3. GameSound(ticked)
    BY <1>0, <2>2, EndKeepsGame
  <2>4. Len(commands) \in Nat
    BY DEF QueueTyped
  <2>. HIDE DEF ticked, seats
  <2>5. GameSound(played)
    BY <2>3, <2>4, PlayRunDef
  <2>. HIDE DEF played
  <2>6. 1 \in Nat
    OBVIOUS
  <2>. QED  BY <1>0, <2>1, <2>5, <2>6, AdvanceTimeSound DEF BothSound
<1>5. ASSUME NEW read \in 0 .. Len(events), GuestFrame(read)
      PROVE  BothSound'
  <2>1. guest' = AdvanceTime(ApplyRun(guest)[read], 1) /\ host' = host
    BY <1>5 DEF GuestFrame
  <2>2. read \in Nat /\ 1 \in Nat
    BY <1>5
  <2>3. GameSound(ApplyRun(guest)[read])
    BY <1>0, <2>2, ApplyRunSound DEF Follows
  <2>. QED  BY <1>0, <2>1, <2>2, <2>3, AdvanceTimeSound DEF BothSound
<1>6. CASE Start \/ Die \/ Login \/ \E c \in Guests : Handler(c)
  BY <1>0, <1>6, OthersLeave, NewGameSound, ReplicaAssumption DEF BothSound
<1>7. ASSUME NEW p \in Players, Receive(p)
      PROVE  BothSound'
  BY <1>0, <1>7 DEF Receive, BothSound
<1>8. CASE UNCHANGED vars
  BY <1>0, <1>8 DEF vars, BothSound
<1>. QED  BY <1>1, <1>2, <1>3, <1>4, <1>5, <1>6, <1>7, <1>8 DEF Next

\* Requests stay requests on their way into the queue.
OutboxTyped == outbox \in [Players -> Seq(Requests)]

\* The queue starts empty, and so do the connections.
LEMMA QueueInit == Init => OutboxTyped /\ QueueTyped
BY DEF Init, OutboxTyped, QueueTyped

\* What is sent, received and taken keeps its shape.
LEMMA QueueStep ==
    OutboxTyped /\ QueueTyped /\ [Next]_vars => OutboxTyped' /\ QueueTyped'
<1>. SUFFICES ASSUME OutboxTyped, QueueTyped, [Next]_vars PROVE OutboxTyped' /\ QueueTyped'
  OBVIOUS
<1>. DEFINE Command == [connection : Players, request : Requests]
<1>0. outbox \in [Players -> Seq(Requests)] /\ commands \in Seq(Command)
  BY DEF OutboxTyped, QueueTyped
<1>1. ASSUME NEW p \in Players, NEW r \in Requests,
             outbox' = [outbox EXCEPT ![p] = Append(@, r)], commands' = commands
      PROVE  OutboxTyped' /\ QueueTyped'
  <2>1. Append(outbox[p], r) \in Seq(Requests)
    BY <1>0
  <2>. QED  BY <1>0, <1>1, <2>1 DEF OutboxTyped, QueueTyped
<1>2. ASSUME NEW p \in Players, NEW from \in Squares, NEW to \in Squares,
             ClickMove(p, from, to)
      PROVE  OutboxTyped' /\ QueueTyped'
  <2>1. [kind |-> "move", from |-> from, to |-> to] \in Requests
    BY DEF Requests
  <2>. QED  BY <1>1, <1>2, <2>1 DEF ClickMove, Send
<1>3. ASSUME NEW p \in Players, NEW sq \in Squares, ClickJump(p, sq)
      PROVE  OutboxTyped' /\ QueueTyped'
  <2>1. [kind |-> "jump", from |-> sq, to |-> NoSquare] \in Requests
    BY DEF Requests
  <2>. QED  BY <1>1, <1>3, <2>1 DEF ClickJump, Send
<1>4. ASSUME NEW p \in Players, Receive(p)
      PROVE  OutboxTyped' /\ QueueTyped'
  <2>1. outbox[p] \in Seq(Requests) /\ outbox[p] # <<>>
    BY <1>0, <1>4 DEF Receive
  <2>2. Tail(outbox[p]) \in Seq(Requests) /\ Head(outbox[p]) \in Requests
    BY <2>1
  <2>3. [connection |-> p, request |-> Head(outbox[p])] \in Command
    BY <2>2
  <2>4. Append(commands, [connection |-> p, request |-> Head(outbox[p])]) \in Seq(Command)
    BY <1>0, <2>3
  <2>. HIDE DEF Command
  <2>5. outbox' \in [Players -> Seq(Requests)] /\ commands' \in Seq(Command)
    BY <1>0, <1>4, <2>2, <2>4 DEF Receive
  <2>. QED  BY <2>5 DEF OutboxTyped, QueueTyped, Command
<1>5. ASSUME NEW expires \in BOOLEAN, NEW fades \in BOOLEAN, NEW read, HostFrame(expires, read, fades)
      PROVE  OutboxTyped' /\ QueueTyped'
  <2>1. commands' = <<>> /\ outbox' = outbox
    BY <1>5 DEF HostFrame
  <2>. QED  BY <1>0, <2>1 DEF OutboxTyped, QueueTyped
<1>6. CASE Start \/ Die \/ Login \/ \E c \in Guests : Handler(c)
  <2>1. /\ outbox' = outbox \/ \E c \in Guests : outbox' = [outbox EXCEPT ![c] = <<>>]
        /\ commands' = commands
    BY <1>6, OthersLeave
  <2>2. <<>> \in Seq(Requests)
    OBVIOUS
  <2>. QED  BY <1>0, <2>1, <2>2 DEF OutboxTyped, QueueTyped
<1>7. ASSUME \/ \E p \in Players, from \in Squares, to \in Squares : ClickPremove(p, from, to)
             \/ \E read \in 0 .. Len(events) : GuestFrame(read)
             \/ UNCHANGED vars
      PROVE  OutboxTyped' /\ QueueTyped'
  <2>1. outbox' = outbox /\ commands' = commands
    BY <1>7 DEF ClickPremove, GuestFrame, vars
  <2>. QED  BY <1>0, <2>1 DEF OutboxTyped, QueueTyped
<1>. QED  BY <1>2, <1>3, <1>4, <1>5, <1>6, <1>7 DEF Next

\* Both engines are sound and the queue holds requests, in every state.
THEOREM BothSoundAlways == Spec => [](BothSound /\ OutboxTyped /\ QueueTyped)
<1>1. Init => BothSound /\ OutboxTyped /\ QueueTyped
  BY BothInit, QueueInit
<1>2. BothSound /\ OutboxTyped /\ QueueTyped /\ [Next]_vars
        => (BothSound /\ OutboxTyped /\ QueueTyped)'
  BY BothStep, QueueStep
<1>. QED  BY <1>1, <1>2, PTL DEF Spec

\* The replica: no piece is in two motions, no motion loses its piece or
\* outlives its end, no airborne piece is taken, no premove outlives its motion.
THEOREM ReplicaStaysSound == Spec => []ReplicaIsSound
<1>1. BothSound => ReplicaIsSound
  BY DEF BothSound, ReplicaIsSound, GameSound, Sound, SourcesDiffer, Occupied, JumpersStay,
         NoneOverdue, PremovesFollow, HasMotion, IsEmpty, Squares, NoPremove, NoSquare,
         GuestGame!IsEmpty, GuestGame!Squares, GuestGame!NoPremove, GuestGame!NoSquare,
         GuestGame!OneMotionPerSquare, GuestGame!SourcesAreOccupied, GuestGame!AirborneStaysPut,
         GuestGame!NoOverdueMotion, GuestGame!PremovesFollowMotions
<1>. QED  BY <1>1, BothSoundAlways, PTL

-----------------------------------------------------------------------------
(* What the commands may do to the engine that counts *)

\* The motion that m is was asked for by its own player, who has his seat.
AskedFor(m, seats) ==
    \E i \in DOMAIN commands :
        /\ commands[i].connection \in seats
        /\ commands[i].request.from = m.source
        /\ ColorOf(commands[i].connection) = m.color

\* A game h that g has become by playing commands.
Played(g, h, seats) ==
    /\ h.premoves = g.premoves /\ h.elapsed = g.elapsed
    /\ \A m \in h.active : m \in g.active \/ AskedFor(m, seats)

\* Commands touch nothing but the motions, and only on behalf of their senders.
LEMMA PlayRunTouches ==
    ASSUME NEW g, GameSound(g), QueueTyped, NEW seats
    PROVE  Played(g, PlayRun(g, seats)[Len(commands)], seats)
<1>. DEFINE run == PlayRun(g, seats)
            Good == {n \in Nat : n <= Len(commands) => Played(g, run[n], seats)}
<1>1. /\ run[0] = g
      /\ \A n \in Nat : run[n + 1] = PlayCommand(run[n], commands[n + 1], seats)
      /\ \A n \in Nat : GameSound(run[n])
  BY PlayRunDef
<1>. HIDE DEF run
<1>2. 0 \in Good
  BY <1>1 DEF Played
<1>3. ASSUME NEW n \in Nat, n \in Good PROVE n + 1 \in Good
  <2>. SUFFICES ASSUME n + 1 <= Len(commands) PROVE Played(g, run[n + 1], seats)
    OBVIOUS
  <2>1. PICK h : h = run[n]
    OBVIOUS
  <2>2. n + 1 \in DOMAIN commands /\ Played(g, h, seats)
    BY <1>3, <2>1 DEF QueueTyped
  <2>3. PICK command : command = commands[n + 1]
    OBVIOUS
  <2>4. h \in GameState /\ run[n + 1] = PlayCommand(h, command, seats)
    BY <1>1, <2>1, <2>3 DEF GameSound, Sound
  <2>. DEFINE from == command.request.from
  <2>5. CASE ~CanControlSquare(h, seats, command.connection, from)
    <3>1. PlayCommand(h, command, seats) = h
      BY <2>5 DEF PlayCommand
    <3>. QED  BY <2>2, <2>4, <3>1
  <2>6. CASE CanControlSquare(h, seats, command.connection, from)
    <3>1. command.connection \in seats /\ h.board[from].color = ColorOf(command.connection)
      BY <2>6 DEF CanControlSquare, IsFriendly
    <3>2. \/ PlayCommand(h, command, seats) = RequestMove(h, from, command.request.to)
          \/ PlayCommand(h, command, seats) = RequestJump(h, from)
      BY <2>6 DEF PlayCommand
    <3>3. /\ run[n + 1].premoves = h.premoves /\ run[n + 1].elapsed = h.elapsed
          /\ \A m \in run[n + 1].active :
                m \in h.active \/ (m.source = from /\ m.color = h.board[from].color)
      BY <2>4, <3>2, RequestTouches, JumpTouches
    <3>4. ASSUME NEW m, m.source = from, m.color = h.board[from].color
          PROVE  AskedFor(m, seats)
      BY <2>2, <2>3, <3>1, <3>4 DEF AskedFor
    <3>. QED  BY <2>2, <3>3, <3>4 DEF Played
  <2>. QED  BY <2>5, <2>6
<1>. HIDE DEF Good
<1>4. \A n \in Nat : n \in Good
  BY <1>2, <1>3, SetInduction
<1>5. Len(commands) \in Nat /\ Len(commands) <= Len(commands)
  BY DEF QueueTyped
<1>. QED  BY <1>4, <1>5 DEF Good, run

\* On the host every motion is older than the clock's last advance, and no
\* premove is kept.
HostQuiet ==
    /\ \A sq \in Squares : host.premoves[sq] = NoPremove
    /\ \A m \in host.active : m.start < host.elapsed

\* A game begins without motions and premoves.
LEMMA QuietInit == Init => HostQuiet
BY DEF Init, NewGame, HostQuiet

\* A frame of the host: what it plays, and where it leaves the clock.
LEMMA HostFrameParts ==
    ASSUME BothSound, QueueTyped, HostQuiet,
           NEW expires, NEW fades, NEW read, HostFrame(expires, read, fades)
    PROVE  /\ host'.premoves = host.premoves /\ host'.elapsed = host.elapsed + 1
           /\ \A m \in host'.active :
                 /\ m.start < host'.elapsed
                 /\ m \in host.active \/ AskedFor(m, seated')
<1>. DEFINE ticked == IF expires THEN ApplyRemoteGameEnded(host, "White") ELSE host
            played == PlayRun(ticked, seated')[Len(commands)]
<1>1. host' = AdvanceTime(played, 1) /\ seated' = IF expires THEN {} ELSE seated
  BY DEF HostFrame
<1>2. /\ GameSound(ticked) /\ ticked.active = host.active /\ ticked.premoves = host.premoves
      /\ ticked.elapsed = host.elapsed
  <2>1. GameSound(host) /\ host \in GameState /\ "White" \in Colors
    BY DEF BothSound, GameSound, Sound, Colors
  <2>2. GameSound(ticked)
    BY <2>1, EndKeepsGame
  <2>3. /\ ticked.active = host.active /\ ticked.premoves = host.premoves
        /\ ticked.elapsed = host.elapsed
    BY <2>1 DEF ApplyRemoteGameEnded, GameState
  <2>. QED  BY <2>2, <2>3
<1>. HIDE DEF ticked
<1>3. Len(commands) \in Nat
  BY DEF QueueTyped
<1>4. GameSound(played) /\ Played(ticked, played, seated')
  BY <1>2, <1>3, PlayRunDef, PlayRunTouches
<1>. HIDE DEF played
<1>5. 1 \in Nat /\ \A sq \in Squares : played.premoves[sq] = NoPremove
  BY <1>2, <1>4 DEF Played, HostQuiet
<1>6. /\ host'.elapsed = played.elapsed + 1
      /\ host'.premoves = played.premoves /\ host'.active \subseteq played.active
  BY <1>1, <1>4, <1>5, FrameTouches
<1>7. \A m \in played.active : m.start \in Nat /\ m.start <= played.elapsed /\ played.elapsed \in Nat
  BY <1>4 DEF GameSound, Sound, IdsInOrder, GameState, Motion
<1>8. \A m \in played.active : m.start < played.elapsed + 1
  BY <1>7
<1>. QED  BY <1>2, <1>4, <1>6, <1>8 DEF Played

\* No step lets a premove in: a click that queues one needs a motion that set
\* off at this very time.
LEMMA QuietStep ==
    BothSound /\ QueueTyped /\ HostQuiet /\ [Next]_vars => HostQuiet'
<1>. SUFFICES ASSUME BothSound, QueueTyped, HostQuiet, [Next]_vars PROVE HostQuiet'
  OBVIOUS
<1>1. ASSUME NEW expires \in BOOLEAN, NEW fades \in BOOLEAN, NEW read, HostFrame(expires, read, fades)
      PROVE  HostQuiet'
  BY <1>1, HostFrameParts DEF HostQuiet
<1>2. ASSUME NEW p \in Players, NEW from \in Squares, NEW to \in Squares, ClickPremove(p, from, to)
      PROVE  HostQuiet'
  <2>1. CASE p = Host
    <3>1. GameSound(host) /\ ClickMeans(host, from, to, ColorOf(p)) = "premove"
      BY <1>2, <2>1 DEF ClickPremove, EngineOf, BothSound
    <3>2. MoveStartedNow(host, from) # {}
      BY <3>1, PremoveClickSound
    <3>3. PICK m \in host.active : m.start = host.elapsed
      BY <3>2 DEF MoveStartedNow
    <3>4. m.start < host.elapsed /\ host.elapsed \in Nat
      BY <3>1 DEF HostQuiet, GameSound, Sound, GameState
    <3>. QED  BY <3>3, <3>4
  <2>2. CASE p # Host
    BY <1>2, <2>2 DEF ClickPremove, HostQuiet
  <2>. QED  BY <2>1, <2>2
<1>3. CASE UNCHANGED host
  BY <1>3 DEF HostQuiet
<1>4. \/ \E expires \in BOOLEAN, fades \in BOOLEAN, read \in 0 .. Len(notices) :
            HostFrame(expires, read, fades)
      \/ \E p \in Players, from \in Squares, to \in Squares : ClickPremove(p, from, to)
      \/ UNCHANGED host
  BY OthersLeave DEF Next, ClickMove, ClickJump, Receive, GuestFrame, vars
<1>. QED  BY <1>1, <1>2, <1>3, <1>4

RInv == BothSound /\ OutboxTyped /\ QueueTyped /\ HostQuiet

\* The inductive invariant of Replica.
THEOREM RInvAlways == Spec => []RInv
<1>1. Init => RInv
  BY BothInit, QueueInit, QuietInit DEF RInv
<1>2. RInv /\ [Next]_vars => RInv'
  BY BothStep, QueueStep, QuietStep DEF RInv
<1>. QED  BY <1>1, <1>2, PTL DEF Spec

\* No premove ever gets to the engine that counts.
THEOREM NoPremoveOnHost == Spec => []HostNeverPremoves
<1>1. RInv => HostNeverPremoves
  BY DEF RInv, HostQuiet, HostNeverPremoves
<1>. QED  BY <1>1, RInvAlways, PTL

\* On the host a piece sets off by a command of its own player only, sent over
\* a connection that has its seat when the command is played.
THEOREM OwnPiecesOnly == Spec => CommandsMoveOwnPieces
<1>. DEFINE Own == \A m \in host'.active :
                      m.id >= host.nextId =>
                        \E i \in DOMAIN commands :
                            /\ commands[i].connection \in seated'
                            /\ commands[i].request.from = m.source
                            /\ ColorOf(commands[i].connection) = m.color
<1>1. RInv /\ [Next]_vars => Own
  <2>. SUFFICES ASSUME RInv, [Next]_vars, NEW m \in host'.active, m.id >= host.nextId
                PROVE  AskedFor(m, seated')
    BY DEF AskedFor
  <2>0. /\ BothSound /\ QueueTyped /\ HostQuiet /\ GameSound(host) /\ host \in GameState
    BY DEF RInv, BothSound, GameSound, Sound
  <2>1. m \notin host.active
    <3>1. \A n \in host.active : n.id \in Nat /\ n.id < host.nextId /\ host.nextId \in Nat
      BY <2>0 DEF GameSound, Sound, IdsInOrder, GameState, Motion
    <3>. QED  BY <3>1
  <2>2. ASSUME NEW expires \in BOOLEAN, NEW fades \in BOOLEAN, NEW read,
               HostFrame(expires, read, fades)
        PROVE  AskedFor(m, seated')
    BY <2>0, <2>1, <2>2, HostFrameParts
  <2>3. ASSUME NEW p \in Players, NEW from \in Squares, NEW to \in Squares, ClickPremove(p, from, to)
        PROVE  FALSE
    <3>1. host' = host \/ host' = PremoveByClick(host, from, to)
      BY <2>3 DEF ClickPremove
    <3>2. host'.active = host.active
      BY <2>0, <3>1 DEF PremoveByClick, QueuePremove, GameState
    <3>. QED  BY <2>1, <3>2
  <2>4. CASE UNCHANGED host
    BY <2>1, <2>4
  <2>5. \/ \E expires \in BOOLEAN, fades \in BOOLEAN, read \in 0 .. Len(notices) :
              HostFrame(expires, read, fades)
        \/ \E p \in Players, from \in Squares, to \in Squares : ClickPremove(p, from, to)
        \/ UNCHANGED host
    BY OthersLeave DEF Next, ClickMove, ClickJump, Receive, GuestFrame, vars
  <2>. QED  BY <2>2, <2>3, <2>4, <2>5
<1>. QED  BY <1>1, RInvAlways, PTL DEF Spec, CommandsMoveOwnPieces

\* Whatever the replica receives, twice, late or out of step with its clock, no
\* side gains a piece on it while the process lives.
THEOREM NothingGained == Spec => ReplicaGainsNothing
<1>. DEFINE Kept == guestAt' = guestAt =>
                      \A color \in Colors :
                        Cardinality(PiecesOf(guest'.board, color))
                          <= Cardinality(PiecesOf(guest.board, color))
<1>1. RInv /\ [Next]_vars => Kept
  <2>. SUFFICES ASSUME RInv, [Next]_vars, guestAt' = guestAt
                PROVE  NoMorePieces(guest'.board, guest.board)
    BY DEF NoMorePieces
  <2>0. GameSound(guest) /\ guest \in GameState /\ Follows(guest, guest)
    BY FollowsTrans DEF RInv, BothSound, GameSound, Sound
  <2>1. ASSUME NEW p \in Players, NEW from \in Squares, NEW to \in Squares, ClickMove(p, from, to)
        PROVE  NoMorePieces(guest'.board, guest.board)
    BY <2>0, <2>1, OperationsFollow DEF ClickMove, Follows
  <2>2. ASSUME NEW p \in Players, NEW from \in Squares, NEW to \in Squares, ClickPremove(p, from, to)
        PROVE  NoMorePieces(guest'.board, guest.board)
    <3>1. guest' = guest \/ guest' = PremoveByClick(guest, from, to)
      BY <2>2 DEF ClickPremove
    <3>2. guest'.board = guest.board
      BY <2>0, <3>1 DEF PremoveByClick, QueuePremove, GameState
    <3>. QED  BY <2>0, <3>2 DEF Follows
  <2>3. ASSUME NEW p \in Players, NEW sq \in Squares, ClickJump(p, sq)
        PROVE  NoMorePieces(guest'.board, guest.board)
    BY <2>0, <2>3, OperationsFollow DEF ClickJump, Follows
  <2>4. ASSUME NEW read \in 0 .. Len(events), GuestFrame(read)
        PROVE  NoMorePieces(guest'.board, guest.board)
    <3>1. PICK g : g = ApplyRun(guest)[read]
      OBVIOUS
    <3>2. guest' = AdvanceTime(g, 1) /\ read \in Nat
      BY <2>4, <3>1 DEF GuestFrame
    <3>3. Follows(g, guest)
      BY <2>0, <3>1, <3>2, ApplyRunSound
    <3>4. Follows(guest', g)
      BY <3>2, <3>3, OperationsFollow DEF Follows
    <3>. QED  BY <3>3, <3>4, NoMoreTrans DEF Follows
  <2>5. CASE UNCHANGED guest
    BY <2>0, <2>5 DEF Follows
  <2>6. Start \/ Die \/ Login \/ (\E c \in Guests : Handler(c)) => UNCHANGED guest
    BY OthersLeave
  <2>7. \/ \E p \in Players, from, to \in Squares : ClickMove(p, from, to) \/ ClickPremove(p, from, to)
        \/ \E p \in Players, sq \in Squares : ClickJump(p, sq)
        \/ \E read \in 0 .. Len(events) : GuestFrame(read)
        \/ UNCHANGED guest
    BY <2>6 DEF Next, Receive, HostFrame, vars
  <2>. QED  BY <2>1, <2>2, <2>3, <2>4, <2>5, <2>7
<1>. QED  BY <1>1, RInvAlways, PTL DEF Spec, ReplicaGainsNothing
-----------------------------------------------------------------------------
(* The rating of the game *)

\* A fold over no event and over one.
LEMMA FoldShort ==
    ASSUME NEW db, NEW end
    PROVE  /\ FoldLeft(RatedEnd, db, <<>>) = db
           /\ FoldLeft(RatedEnd, db, <<end>>) = RatedEnd(db, end)
<1>1. FoldLeft(RatedEnd, db, <<>>) = db
  <2>. DEFINE Eq(f) == f = [s \in SUBSET {} |->
                              IF s = {} THEN db ELSE RatedEnd(f[s \ {Max(s)}], <<>>[Max(s)])]
  <2>1. Eq([s \in SUBSET {} |-> db])
    OBVIOUS
  <2>2. DOMAIN <<>> = {}
    OBVIOUS
  <2>3. FoldLeft(RatedEnd, db, <<>>) = (CHOOSE f : Eq(f))[{}]
    BY <2>2 DEF FoldLeft, MapThenFoldSet
  <2>. HIDE DEF Eq
  <2>4. Eq(CHOOSE f : Eq(f))
    BY <2>1
  <2>. QED  BY <2>3, <2>4 DEF Eq
<1>2. FoldLeft(RatedEnd, db, <<end>>) = RatedEnd(db, end)
  <2>. DEFINE Eq(f) == f = [s \in SUBSET {1} |->
                              IF s = {} THEN db ELSE RatedEnd(f[s \ {Max(s)}], <<end>>[Max(s)])]
  <2>1. Max({1}) = 1
    BY DEF Max
  <2>2. Eq([s \in SUBSET {1} |-> IF s = {} THEN db ELSE RatedEnd(db, end)])
    <3>1. ASSUME NEW s \in SUBSET {1}, s # {}
          PROVE  s \ {Max(s)} = {} /\ <<end>>[Max(s)] = end
      <4>1. s = {1}
        BY <3>1
      <4>. QED  BY <2>1, <4>1
    <3>. QED  BY <3>1
  <2>3. DOMAIN <<end>> = {1}
    OBVIOUS
  <2>4. FoldLeft(RatedEnd, db, <<end>>) = (CHOOSE f : Eq(f))[{1}]
    BY <2>3 DEF FoldLeft, MapThenFoldSet
  <2>. HIDE DEF Eq
  <2>5. Eq(CHOOSE f : Eq(f))
    BY <2>2
  <2>. DEFINE f == CHOOSE f : Eq(f)
  <2>. HIDE DEF f
  <2>6. f = [s \in SUBSET {1} |-> IF s = {} THEN db ELSE RatedEnd(f[s \ {Max(s)}], <<end>>[Max(s)])]
    BY <2>5 DEF f, Eq
  <2>7. f[{}] = db
    BY <2>6
  <2>8. {1} \ {1} = {} /\ {1} # {} /\ <<end>>[1] = end
    OBVIOUS
  <2>9. f[{1}] = RatedEnd(f[{1} \ {Max({1})}], <<end>>[Max({1})])
    BY <2>6, <2>8
  <2>. QED  BY <2>1, <2>4, <2>7, <2>8, <2>9 DEF f
<1>. QED  BY <1>1, <1>2

\* What one end of the game does to the store of the beginning.
PaidOnce(db, color) ==
    LET winner == NameOf[color]
        loser == NameOf[Opponent(color)]
        gain == Gain(FirstStore[winner].elo - FirstStore[loser].elo)
    IN  /\ db[winner].elo = FirstStore[winner].elo + gain
        /\ db[loser].elo = FirstStore[loser].elo - gain

\* The end of the game pays the winner what the loser pays: both have a row.
LEMMA EndPays ==
    ASSUME NEW color \in Colors
    PROVE  PaidOnce(RatedEnd(FirstStore, GameEnded(color)), color)
<1>. DEFINE winner == NameOf[color]
            loser == NameOf[Opponent(color)]
            gain == Gain(FirstStore[winner].elo - FirstStore[loser].elo)
            first == [FirstStore EXCEPT ![winner].elo = FirstStore[winner].elo + gain]
            second == [first EXCEPT ![loser].elo = FirstStore[loser].elo - gain]
<1>1. winner # loser /\ Opponent(color) \in Colors
  BY DEF NameOf, Opponent, Colors
<1>2. GameEnded(color).winner = color
  BY DEF GameEnded
<1>. HIDE DEF winner, loser, gain
<1>3. /\ winner \in DOMAIN FirstStore /\ HasRow(FirstStore, winner)
      /\ loser \in DOMAIN FirstStore /\ HasRow(FirstStore, loser)
  BY <1>1, StoreAssumption DEF winner, loser
<1>4. \A u \in DOMAIN FirstStore : FirstStore[u] \in UserRow
  BY StoreAssumption
<1>5. /\ first[loser] = FirstStore[loser] /\ first[winner].elo = FirstStore[winner].elo + gain
      /\ DOMAIN first = DOMAIN FirstStore
  BY <1>1, <1>3, <1>4 DEF UserRow
<1>6. /\ second[winner] = first[winner] /\ second[loser].elo = FirstStore[loser].elo - gain
  <2>. HIDE DEF first
  <2>. QED  BY <1>1, <1>3, <1>4, <1>5 DEF UserRow
<1>7. UpdateElo(FirstStore, winner, FirstStore[winner].elo + gain) = first
  BY <1>3 DEF UpdateElo
<1>8. UpdateElo(first, loser, FirstStore[loser].elo - gain) = second
  <2>1. HasRow(first, loser)
    BY <1>3, <1>5 DEF HasRow
  <2>. HIDE DEF first
  <2>. QED  BY <2>1 DEF UpdateElo
<1>9. Rated(FirstStore, winner, loser) = second
  <2>. HIDE DEF first, second
  <2>1. ComputeUpdate(FirstStore[winner].elo, FirstStore[loser].elo)
          = [winner |-> FirstStore[winner].elo + gain, loser |-> FirstStore[loser].elo - gain]
    BY DEF ComputeUpdate, gain
  <2>. QED  BY <1>3, <1>7, <1>8, <2>1 DEF Rated
<1>10. RatedEnd(FirstStore, GameEnded(color)) = second
  BY <1>2, <1>9 DEF RatedEnd, winner, loser
<1>. HIDE DEF first, second
<1>. QED  BY <1>5, <1>6, <1>10 DEF PaidOnce, winner, loser, gain

\* The store follows the verdict of the engine that counts.
RatedInv ==
    /\ ~host.over => store = FirstStore
    /\ host.over => host.winner \in Colors /\ PaidOnce(store, host.winner)

\* Commands give no verdict.
LEMMA PlayRunNoVerdict ==
    ASSUME NEW g, GameSound(g), NEW seats, NEW n \in Nat
    PROVE  LET h == PlayRun(g, seats)[n] IN h.over = g.over /\ h.winner = g.winner
<1>. DEFINE run == PlayRun(g, seats)
            Good == {i \in Nat : run[i].over = g.over /\ run[i].winner = g.winner}
<1>1. /\ run[0] = g
      /\ \A i \in Nat : run[i + 1] = PlayCommand(run[i], commands[i + 1], seats)
      /\ \A i \in Nat : GameSound(run[i])
  BY PlayRunDef
<1>. HIDE DEF run
<1>2. 0 \in Good
  BY <1>1
<1>3. ASSUME NEW i \in Nat, i \in Good PROVE i + 1 \in Good
  <2>1. PICK h : h = run[i]
    OBVIOUS
  <2>2. PICK command : command = commands[i + 1]
    OBVIOUS
  <2>3. h \in GameState /\ run[i + 1] = PlayCommand(h, command, seats)
    BY <1>1, <2>1, <2>2 DEF GameSound, Sound
  <2>4. \/ PlayCommand(h, command, seats) = h
        \/ PlayCommand(h, command, seats) = RequestMove(h, command.request.from, command.request.to)
        \/ PlayCommand(h, command, seats) = RequestJump(h, command.request.from)
    BY DEF PlayCommand
  <2>5. run[i + 1].over = h.over /\ run[i + 1].winner = h.winner
    BY <2>3, <2>4, RequestTouches, JumpTouches
  <2>. QED  BY <1>3, <2>1, <2>5
<1>. HIDE DEF Good
<1>4. n \in Good
  BY <1>2, <1>3, SetInduction
<1>. QED  BY <1>4 DEF Good, run

\* The frame of the host that ends the game rates it; no other frame does.
LEMMA RatedFrame ==
    ASSUME BothSound, QueueTyped, RatedInv,
           NEW expires \in BOOLEAN, NEW fades \in BOOLEAN, NEW read,
           HostFrame(expires, read, fades)
    PROVE  RatedInv'
<1>. DEFINE ticked == IF expires THEN ApplyRemoteGameEnded(host, "White") ELSE host
            seats == IF expires THEN {} ELSE seated
            played == PlayRun(ticked, seats)[Len(commands)]
            after == AdvanceTime(played, 1)
            expired == IF expires THEN <<GameEnded("White")>> ELSE <<>>
            ends == expired \o EndTold(played, after)
<1>1. ~host.over /\ host' = after /\ store' = FoldLeft(RatedEnd, store, ends)
  BY DEF HostFrame
<1>2. GameSound(host) /\ host \in GameState /\ "White" \in Colors /\ store = FirstStore
  BY <1>1 DEF BothSound, GameSound, Sound, Colors, RatedInv
<1>3. /\ GameSound(ticked)
      /\ expires => ticked.over /\ ticked.winner = "White"
      /\ ~expires => ~ticked.over
  <2>1. CASE expires
    <3>1. ticked = ApplyRemoteGameEnded(host, "White")
      BY <2>1
    <3>2. GameSound(ApplyRemoteGameEnded(host, "White"))
      BY <1>2, EndKeepsGame
    <3>3. /\ ApplyRemoteGameEnded(host, "White").over
          /\ ApplyRemoteGameEnded(host, "White").winner = "White"
      BY <1>2 DEF ApplyRemoteGameEnded, GameState
    <3>. QED  BY <2>1, <3>1, <3>2, <3>3
  <2>2. CASE ~expires
    <3>1. ticked = host
      BY <2>2
    <3>. HIDE DEF ticked
    <3>. QED  BY <1>1, <1>2, <2>2, <3>1
  <2>. QED  BY <2>1, <2>2
<1>. HIDE DEF ticked
<1>4. GameSound(played) /\ played.over = ticked.over /\ played.winner = ticked.winner
  <2>1. Len(commands) \in Nat
    BY DEF QueueTyped
  <2>. QED  BY <1>3, <2>1, PlayRunDef, PlayRunNoVerdict
<1>. HIDE DEF played, seats
<1>5. \A end : <<end>> \o <<>> = <<end>> /\ <<>> \o <<end>> = <<end>>
  OBVIOUS
<1>6. CASE expires
  <2>1. Sound(played) /\ played.over /\ 1 \in Nat
    BY <1>3, <1>4, <1>6 DEF GameSound
  <2>2. after.over /\ after.winner = "White"
    BY <1>3, <1>4, <1>6, <2>1, FrameAfterEnd
  <2>3. EndTold(played, after) = <<>> /\ expired = <<GameEnded("White")>>
    BY <1>6, <2>1 DEF EndTold
  <2>4. ends = <<GameEnded("White")>>
    BY <1>5, <2>3
  <2>. HIDE DEF ends, after
  <2>5. store' = RatedEnd(FirstStore, GameEnded("White"))
    BY <1>1, <1>2, <2>4, FoldShort
  <2>6. PaidOnce(store', "White")
    BY <1>2, <2>5, EndPays
  <2>. QED  BY <1>1, <1>2, <2>2, <2>6 DEF RatedInv, PaidOnce
<1>7. CASE ~expires
  <2>1. ~played.over /\ 1 \in Nat /\ expired = <<>>
    BY <1>3, <1>4, <1>7
  <2>2. after.over => after.winner \in Colors
    BY <1>4, <2>1, FrameNamesWinner
  <2>. HIDE DEF after
  <2>3. CASE after.over
    <3>1. ends = <<GameEnded(after.winner)>>
      BY <1>5, <2>1, <2>3 DEF EndTold
    <3>. HIDE DEF ends
    <3>2. store' = RatedEnd(FirstStore, GameEnded(after.winner))
      BY <1>1, <1>2, <3>1, FoldShort
    <3>3. PaidOnce(store', after.winner)
      BY <2>2, <2>3, <3>2, EndPays
    <3>. QED  BY <1>1, <2>2, <2>3, <3>3 DEF RatedInv, PaidOnce
  <2>4. CASE ~after.over
    <3>1. ends = <<>>
      BY <2>1, <2>4 DEF EndTold
    <3>. HIDE DEF ends
    <3>2. store' = FirstStore
      BY <1>1, <1>2, <3>1, FoldShort
    <3>. QED  BY <1>1, <2>4, <3>2 DEF RatedInv
  <2>. QED  BY <2>3, <2>4
<1>. QED  BY <1>6, <1>7

\* No other action touches the verdict or the store.
LEMMA RatedStep == BothSound /\ QueueTyped /\ RatedInv /\ [Next]_vars => RatedInv'
<1>. SUFFICES ASSUME BothSound, QueueTyped, RatedInv, [Next]_vars PROVE RatedInv'
  OBVIOUS
<1>1. ASSUME NEW expires \in BOOLEAN, NEW fades \in BOOLEAN, NEW read, HostFrame(expires, read, fades)
      PROVE  RatedInv'
  BY <1>1, RatedFrame
<1>2. ASSUME NEW p \in Players, NEW from \in Squares, NEW to \in Squares, ClickPremove(p, from, to)
      PROVE  RatedInv'
  <2>1. host' = host \/ host' = PremoveByClick(host, from, to)
    BY <1>2 DEF ClickPremove
  <2>2. host \in GameState /\ store' = store
    BY <1>2 DEF BothSound, GameSound, Sound, ClickPremove
  <2>3. host'.over = host.over /\ host'.winner = host.winner
    BY <2>1, <2>2 DEF PremoveByClick, QueuePremove, GameState
  <2>. QED  BY <2>2, <2>3 DEF RatedInv, PaidOnce
<1>3. CASE UNCHANGED <<host, store>>
  BY <1>3 DEF RatedInv, PaidOnce
<1>4. \/ \E expires \in BOOLEAN, fades \in BOOLEAN, read \in 0 .. Len(notices) :
            HostFrame(expires, read, fades)
      \/ \E p \in Players, from \in Squares, to \in Squares : ClickPremove(p, from, to)
      \/ UNCHANGED <<host, store>>
  BY OthersLeave DEF Next, ClickMove, ClickJump, Receive, GuestFrame, vars
<1>. QED  BY <1>1, <1>2, <1>3, <1>4

\* A game that begins is not rated.
LEMMA RatedInit == Init => RatedInv
BY DEF Init, NewGame, RatedInv

\* A game is rated once, when it is over: what the winner gains the loser loses.
THEOREM RatedOnceHolds == Spec => []RatedOnce
<1>1. Init => RatedInv
  BY RatedInit
<1>2. BothSound /\ QueueTyped /\ RatedInv /\ [Next]_vars => RatedInv'
  BY RatedStep
<1>3. RatedInv => RatedOnce
  BY DEF RatedInv, RatedOnce, PaidOnce
<1>. QED  BY <1>1, <1>2, <1>3, BothSoundAlways, PTL DEF Spec

-----------------------------------------------------------------------------
(* What the host publishes *)

\* Sequences of messages put one after the other.
LEMMA FlattenTyped ==
    ASSUME NEW E, NEW seqs \in Seq(Seq(E))
    PROVE  FlattenSeq(seqs) \in Seq(E)
<1>. DEFINE N == Len(seqs)
            Eq(f) == f = [i \in 1 .. N |-> IF i = 1 THEN seqs[i] ELSE f[i - 1] \o seqs[i]]
<1>1. CASE N = 0
  BY <1>1 DEF FlattenSeq
<1>2. CASE N # 0
  <2>. DEFINE Turn(i, s) == IF i + 1 \in 1 .. N THEN s \o seqs[i + 1] ELSE s
              F == [p \in Nat \X Seq(E) |-> Turn(p[1], p[2])]
  <2>1. N \in Nat /\ \A i \in 1 .. N : seqs[i] \in Seq(E)
    OBVIOUS
  <2>2. FlattenSeq(seqs) = (CHOOSE f : Eq(f))[N]
    BY <1>2 DEF FlattenSeq
  <2>. HIDE DEF N
  <2>3. seqs[1] \in Seq(E)
    BY <1>2, <2>1
  <2>4. ASSUME NEW i \in Nat, NEW s \in Seq(E) PROVE Turn(i, s) \in Seq(E)
    <3>1. i + 1 \in 1 .. N => seqs[i + 1] \in Seq(E)
      BY <2>1
    <3>. QED  BY <3>1
  <2>5. F \in [Nat \X Seq(E) -> Seq(E)]
    <3>. HIDE DEF Turn
    <3>. QED  BY <2>4
  <2>6. PICK r : IsRun(r, Seq(E), seqs[1], F)
    <3>1. StaysIn(Seq(E), seqs[1], F)
      BY <2>3, <2>5 DEF StaysIn
    <3>. HIDE DEF F
    <3>. QED  BY <3>1, LoopRuns
  <2>7. /\ r[0] = seqs[1]
        /\ \A i \in Nat : i # 0 /\ i + 1 \in 1 .. N => r[i] = r[i - 1] \o seqs[i + 1]
    <3>1. ASSUME NEW i \in Nat, i # 0, i + 1 \in 1 .. N
          PROVE  F[<<i, r[i - 1]>>] = r[i - 1] \o seqs[i + 1]
      <4>1. i - 1 \in Nat
        BY <3>1
      <4>2. <<i, r[i - 1]>> \in Nat \X Seq(E)
        BY <2>6, <4>1 DEF IsRun
      <4>. QED  BY <3>1, <4>2
    <3>. HIDE DEF F
    <3>. QED  BY <2>6, <3>1 DEF IsRun
  <2>8. Eq([i \in 1 .. N |-> r[i - 1]])
    <3>. DEFINE g == [i \in 1 .. N |-> r[i - 1]]
    <3>1. ASSUME NEW i \in 1 .. N PROVE g[i] = IF i = 1 THEN seqs[i] ELSE g[i - 1] \o seqs[i]
      <4>1. CASE i = 1
        BY <2>7, <4>1
      <4>2. CASE i # 1
        <5>1. i - 1 \in Nat /\ i - 1 # 0 /\ (i - 1) + 1 = i /\ i - 1 \in 1 .. N
          BY <2>1, <4>2
        <5>2. r[i - 1] = r[(i - 1) - 1] \o seqs[i]
          BY <2>7, <5>1
        <5>. QED  BY <4>2, <5>1, <5>2
      <4>. QED  BY <4>1, <4>2
    <3>. QED  BY <3>1
  <2>. DEFINE f == CHOOSE f : Eq(f)
  <2>. HIDE DEF f, Eq
  <2>9. Eq(f)
    BY <2>8 DEF f
  <2>10. f = [i \in 1 .. N |-> IF i = 1 THEN seqs[i] ELSE f[i - 1] \o seqs[i]]
    BY <2>9 DEF Eq
  <2>. DEFINE Good == {i \in Nat : i + 1 \in 1 .. N => f[i + 1] \in Seq(E)}
  <2>11. 0 \in Good
    BY <2>1, <2>3, <2>10
  <2>12. ASSUME NEW i \in Nat, i \in Good PROVE i + 1 \in Good
    <3>. SUFFICES ASSUME i + 2 \in 1 .. N PROVE f[i + 2] \in Seq(E)
      OBVIOUS
    <3>1. i + 1 \in 1 .. N /\ (i + 2) - 1 = i + 1 /\ i + 2 # 1
      BY <2>1
    <3>2. f[i + 2] = f[i + 1] \o seqs[i + 2]
      BY <2>10, <3>1
    <3>. QED  BY <2>1, <2>12, <3>1, <3>2
  <2>. HIDE DEF Good
  <2>13. \A i \in Nat : i \in Good
    BY <2>11, <2>12, SetInduction
  <2>14. N - 1 \in Nat /\ (N - 1) + 1 = N /\ N \in 1 .. N
    BY <1>2, <2>1
  <2>15. f[N] \in Seq(E)
    BY <2>13, <2>14 DEF Good
  <2>. QED  BY <2>2, <2>15 DEF f
<1>. QED  BY <1>1, <1>2

\* A motion of a sound game makes a message that the host may publish.
LEMMA MotionTold ==
    ASSUME NEW m \in Motion, m.kind = "Move" => m.dest \in Squares
    PROVE  (IF m.kind = "Move" THEN MoveStarted(m) ELSE JumpStarted(m)) \in HostMessages
<1>1. /\ m.type \in PieceTypes /\ m.color \in Colors /\ m.source \in Squares
      /\ m.kind \in {"Move", "Jump"}
  BY DEF Motion
<1>2. NewPiece(m.type, m.color) \in GamePieces
  BY <1>1 DEF GamePieces
<1>3. CASE m.kind = "Move"
  <2>1. MoveStarted(m) \in [type : {"move_started"}, piece : GamePieces, from : Squares, to : Squares]
    BY <1>1, <1>2, <1>3 DEF MoveStarted
  <2>. QED  BY <1>3, <2>1 DEF HostMessages
<1>4. CASE m.kind # "Move"
  <2>1. JumpStarted(m) \in [type : {"jump_started"}, piece : GamePieces, square : Squares]
    BY <1>1, <1>2 DEF JumpStarted
  <2>. QED  BY <1>4, <2>1 DEF HostMessages
<1>. QED  BY <1>3, <1>4

\* When nothing set off, or one motion did, what is told is typed.
LEMMA StartedTyped ==
    ASSUME NEW g, NEW h,
           \/ {m \in h.active : m.id >= g.nextId} = {}
           \/ \E m \in Motion : /\ {n \in h.active : n.id >= g.nextId} = {m}
                                /\ m.id = g.nextId
                                /\ m.kind = "Move" => m.dest \in Squares
    PROVE  StartedEvents(g, h) \in Seq(HostMessages)
<1>. DEFINE new == {m \in h.active : m.id >= g.nextId}
            Told(m) == IF m.kind = "Move" THEN MoveStarted(m) ELSE JumpStarted(m)
            N == Cardinality(new)
            told(i) == Told(CHOOSE m \in new : m.id = g.nextId + i - 1)
<1>1. StartedEvents(g, h) = [i \in 1 .. N |-> told(i)]
  BY DEF StartedEvents
<1>2. N \in Nat /\ \A i \in 1 .. N : told(i) \in HostMessages
  <2>1. CASE new = {}
    <3>1. N = 0
      BY <2>1, FS_EmptySet
    <3>. HIDE DEF N, told
    <3>. QED  BY <3>1
  <2>2. CASE new # {}
    <3>1. PICK m \in Motion : /\ new = {m} /\ m.id = g.nextId
                              /\ m.kind = "Move" => m.dest \in Squares
      BY <2>2
    <3>2. N = 1
      BY <3>1, FS_Singleton
    <3>. HIDE DEF N, new
    <3>3. m.id \in Nat /\ Told(m) \in HostMessages
      BY <3>1, MotionTold DEF Motion
    <3>4. m.id = g.nextId + 1 - 1
      BY <3>1, <3>3
    <3>5. (CHOOSE n \in new : n.id = g.nextId + 1 - 1) = m
      BY <3>1, <3>4
    <3>. HIDE DEF Told
    <3>6. told(1) \in HostMessages
      BY <3>3, <3>5
    <3>. HIDE DEF told
    <3>. QED  BY <3>2, <3>6
  <2>. QED  BY <2>1, <2>2
<1>. HIDE DEF N, told
<1>3. [i \in 1 .. N |-> told(i)] \in Seq(HostMessages)
  BY <1>2
<1>. QED  BY <1>1, <1>3

\* A command that is played is told in messages of that shape.
LEMMA CommandTold ==
    ASSUME NEW g, GameSound(g), NEW command, NEW seats
    PROVE  StartedEvents(g, PlayCommand(g, command, seats)) \in Seq(HostMessages)
<1>. DEFINE h == PlayCommand(g, command, seats)
            from == command.request.from
            to == command.request.to
<1>1. Sound(g) /\ g \in GameState /\ g.nextId \in Nat /\ g.active \in SUBSET Motion
  BY DEF GameSound, Sound, GameState
<1>2. \A m \in g.active : ~(m.id >= g.nextId)
  <2>1. \A m \in g.active : m.id \in Nat /\ m.id < g.nextId
    BY <1>1 DEF Sound, IdsInOrder, Motion
  <2>. QED  BY <1>1, <2>1
<1>3. \/ h = g
      \/ \E m : m.id = g.nextId /\ Sound(h) /\ h.active = g.active \cup {m}
  <2>1. h = g \/ h = RequestMove(g, from, to) \/ h = RequestJump(g, from)
    BY DEF PlayCommand
  <2>2. CASE h = RequestMove(g, from, to)
    <3>. DEFINE m == NewMotion(g, from, to, "Move", Distance(from, to) * MoveDuration)
    <3>1. Sound(RequestMove(g, from, to))
      BY <1>1, RequestMoveSound
    <3>2. m.id = g.nextId
      BY DEF NewMotion
    <3>3. RequestMove(g, from, to) = g \/ RequestMove(g, from, to) = AddMotion(g, m)
      BY DEF RequestMove
    <3>. HIDE DEF m
    <3>4. AddMotion(g, m).active = g.active \cup {m}
      BY <1>1 DEF AddMotion, GameState
    <3>. HIDE DEF h
    <3>. QED  BY <2>2, <3>1, <3>2, <3>3, <3>4
  <2>3. CASE h = RequestJump(g, from)
    <3>. DEFINE m == NewMotion(g, from, NoSquare, "Jump", JumpDuration)
    <3>1. Sound(RequestJump(g, from))
      BY <1>1, RequestJumpSound
    <3>2. m.id = g.nextId
      BY DEF NewMotion
    <3>3. RequestJump(g, from) = g \/ RequestJump(g, from) = AddMotion(g, m)
      BY DEF RequestJump
    <3>. HIDE DEF m
    <3>4. AddMotion(g, m).active = g.active \cup {m}
      BY <1>1 DEF AddMotion, GameState
    <3>. HIDE DEF h
    <3>. QED  BY <2>3, <3>1, <3>2, <3>3, <3>4
  <2>. QED  BY <2>1, <2>2, <2>3
<1>. HIDE DEF h
<1>4. CASE h = g
  <2>1. {m \in h.active : m.id >= g.nextId} = {}
    BY <1>2, <1>4
  <2>2. StartedEvents(g, h) \in Seq(HostMessages)
    BY <2>1, StartedTyped
  <2>. QED  BY <2>2 DEF h
<1>5. CASE h # g
  <2>1. PICK m : m.id = g.nextId /\ Sound(h) /\ h.active = g.active \cup {m}
    BY <1>3, <1>5
  <2>2. m \in Motion /\ (m.kind = "Move" => m.dest \in Squares)
    BY <2>1 DEF Sound, GameState, MovesHaveTargets
  <2>3. {n \in h.active : n.id >= g.nextId} = {m}
    BY <1>1, <1>2, <2>1
  <2>4. StartedEvents(g, h) \in Seq(HostMessages)
    BY <2>1, <2>2, <2>3, StartedTyped
  <2>. QED  BY <2>4 DEF h
<1>. QED  BY <1>4, <1>5

\* While an arrival is left, one is next: the earliest, and of those that set
\* off at the same time the one with the least id.
LEMMA NextArrivalExists ==
    ASSUME NEW left \in SUBSET Motion, left # {},
           \A m, n \in left : m.id = n.id => m = n
    PROVE  \E m \in left : \A n \in left \ {m} : MotionLess(m, n)
<1>1. \A m \in left : m.id \in Nat /\ m.start \in Nat
  BY DEF Motion
<1>2. PICK s \in {m.start : m \in left} : \A k \in {m.start : m \in left} : s <= k
  <2>1. {m.start : m \in left} \in SUBSET Nat /\ {m.start : m \in left} # {}
    BY <1>1
  <2>. QED  BY <2>1, LeastNatural
<1>. DEFINE earliest == {m \in left : m.start = s}
<1>3. PICK i \in {m.id : m \in earliest} : \A k \in {m.id : m \in earliest} : i <= k
  <2>1. {m.id : m \in earliest} \in SUBSET Nat /\ {m.id : m \in earliest} # {}
    BY <1>1, <1>2
  <2>. QED  BY <2>1, LeastNatural
<1>4. PICK m \in earliest : m.id = i
  BY <1>3
<1>5. ASSUME NEW n \in left, n # m PROVE MotionLess(m, n)
  <2>1. m \in left /\ m.start = s /\ s <= n.start /\ n.id # m.id
    BY <1>2, <1>4, <1>5
  <2>2. n.start = s => m.id <= n.id
    BY <1>3, <1>4, <1>5
  <2>3. n.start \in Nat /\ n.id \in Nat /\ m.start \in Nat /\ m.id \in Nat
    BY <1>1, <2>1
  <2>. QED  BY <2>1, <2>2, <2>3 DEF MotionLess
<1>. QED  BY <1>4, <1>5

\* A resolution that is told makes one message of that shape, any other none.
LEMMA ResolutionTyped ==
    ASSUME NEW batch, batch.board \in Board, NEW m \in Motion, m.dest \in Squares, NEW active
    PROVE  ResolutionEvents(batch, m, active) \in Seq(HostMessages)
<1>. DEFINE outcome == Outcome(batch, m, active)
            target == batch.board[m.dest]
            moved == [type |-> "move_completed", piece |-> NewPiece(m.type, m.color),
                      from |-> m.source, to |-> m.dest, captured |-> Bare(target)]
            taken == [type |-> "jump_capture", jumper |-> Bare(target),
                      victim |-> NewPiece(m.type, m.color), jump_square |-> m.dest,
                      victim_from |-> m.source, victim_to |-> m.dest]
<1>1. m.type \in PieceTypes /\ m.color \in Colors /\ m.source \in Squares /\ target \in Piece
  BY DEF Motion, Board
<1>2. NewPiece(m.type, m.color) \in GamePieces
  BY <1>1 DEF GamePieces
<1>3. /\ Bare(target) \in GamePieces \cup {Nothing}
      /\ ~IsEmpty(target) => Bare(target) \in GamePieces
  <2>1. ~IsEmpty(target) => target.type \in PieceTypes /\ target.color \in Colors
    BY <1>1 DEF IsEmpty, Piece
  <2>2. ~IsEmpty(target) => Bare(target) = NewPiece(target.type, target.color)
    BY DEF Bare
  <2>3. IsEmpty(target) => Bare(target) = Nothing
    BY DEF Bare
  <2>. QED  BY <2>1, <2>2, <2>3 DEF GamePieces
<1>4. moved \in HostMessages
  <2>1. moved \in [type : {"move_completed"}, piece : GamePieces, from : Squares, to : Squares,
                   captured : GamePieces \cup {Nothing}]
    BY <1>1, <1>2, <1>3
  <2>. QED  BY <2>1 DEF HostMessages
<1>5. ~IsEmpty(target) => taken \in HostMessages
  <2>1. ~IsEmpty(target) =>
          taken \in [type : {"jump_capture"}, jumper : GamePieces, victim : GamePieces,
                     jump_square : Squares, victim_from : Squares, victim_to : Squares]
    BY <1>1, <1>2, <1>3
  <2>. QED  BY <2>1 DEF HostMessages
<1>6. outcome = "jumpCaptured" => ~IsEmpty(target)
  BY DEF Outcome
<1>7. ResolutionEvents(batch, m, active)
        = CASE outcome = "completed" -> <<moved>>
            [] outcome = "jumpCaptured" -> <<taken>>
            [] OTHER -> <<>>
  BY DEF ResolutionEvents
<1>. HIDE DEF outcome, moved, taken
<1>. QED  BY <1>4, <1>5, <1>6, <1>7

\* The arrivals of a frame are told in messages of that shape: each of the turns
\* of the loop finds an arrival.
LEMMA ArrivalTyped ==
    ASSUME NEW g, GameSound(g), NEW ms \in Nat
    PROVE  ArrivalEvents(g, ms) \in Seq(HostMessages)
<1>. DEFINE now == g.elapsed + ms
            completing == Completing(g.active, now)
            board == DecreaseAllCooldowns(g.board, ms)
            first == [left |-> completing, board |-> board, score |-> g.score, arrived |-> {}]
            run == ResolveRun(first, g.active)
            N == Cardinality(completing)
            next(i) == CHOOSE m \in run[i - 1].left : IsNextArrival(run[i - 1], m)
            told(i) == ResolutionEvents(run[i - 1], next(i), g.active)
            Good == {i \in Nat : i <= N => Cardinality(run[i].left) = N - i}
<1>0. ArrivalEvents(g, ms) = FlattenSeq([i \in 1 .. N |-> told(i)])
  BY DEF ArrivalEvents
<1>1. /\ g.board \in Board /\ g.active \in SUBSET Motion /\ IsFiniteSet(g.active)
      /\ g.score \in [Colors -> Nat] /\ SourcesDiffer(g.active) /\ MovesHaveTargets(g.active)
      /\ Occupied(g.board, g.active) /\ JumpersStay(g.board, g.active)
      /\ \A m, n \in g.active : m.id = n.id => m = n
  BY DEF GameSound, Sound, GameState, IdsInOrder
<1>2. /\ completing \in SUBSET g.active /\ (\A m \in completing : m.kind = "Move")
      /\ N \in Nat /\ IsFiniteSet(completing)
  <2>1. /\ completing \in SUBSET g.active /\ (\A m \in completing : m.kind = "Move")
        /\ N \in Nat
    BY <1>1, CompletingType
  <2>. QED  BY <1>1, <2>1, FS_Subset
<1>. HIDE DEF completing
<1>3. BatchSound(first, completing, g.active) /\ first.left = completing
  <2>1. board \in Board /\ SameOccupants(board, g.board)
    BY <1>1, DecreaseBoard
  <2>2. \A m \in g.active : m.source \in Squares
    BY <1>1 DEF Motion
  <2>. HIDE DEF board
  <2>3. Occupied(board, g.active) /\ JumpersStay(board, g.active)
    BY <1>1, <2>1, <2>2 DEF Occupied, JumpersStay, SameOccupants, IsEmpty
  <2>. QED  BY <1>1, <1>2, <2>1, <2>3 DEF BatchSound, BatchState, Occupied
<1>. HIDE DEF first
<1>4. /\ run[0] = first /\ \A n \in Nat : run[n + 1] = ResolveNext(run[n], g.active)
      /\ \A n \in Nat : BatchSound(run[n], completing, g.active)
  BY <1>1, <1>2, <1>3, ResolveRunDef, RunSound
<1>. HIDE DEF run, N
<1>5. ASSUME NEW n \in Nat, run[n].left # {}
      PROVE  /\ next(n + 1) \in run[n].left
             /\ run[n + 1].left = run[n].left \ {next(n + 1)}
  <2>. DEFINE batch == run[n]
  <2>1. batch.left \in SUBSET Motion /\ batch.left \subseteq completing /\ batch.left # {}
    BY <1>4, <1>5 DEF BatchSound, BatchState
  <2>2. run[n + 1] = ResolveNext(batch, g.active) /\ (n + 1) - 1 = n
    BY <1>4
  <2>. DEFINE m == CHOOSE m \in batch.left : IsNextArrival(batch, m)
  <2>3. next(n + 1) = m
    BY <2>2
  <2>. HIDE DEF batch, next
  <2>4. \A k, l \in batch.left : k.id = l.id => k = l
    BY <1>1, <1>2, <2>1
  <2>5. \E k \in batch.left : IsNextArrival(batch, k)
    BY <2>1, <2>4, NextArrivalExists DEF IsNextArrival
  <2>6. m \in batch.left
    BY <2>5
  <2>7. run[n + 1] = ResolveMoveArrival(batch, m, g.active)
    BY <2>2, <2>5 DEF ResolveNext
  <2>. HIDE DEF m
  <2>8. run[n + 1].left = batch.left \ {m}
    BY <2>7 DEF ResolveMoveArrival
  <2>. QED  BY <2>3, <2>6, <2>8 DEF batch
<1>6. \A n \in Nat : run[n].left \subseteq completing /\ IsFiniteSet(run[n].left)
  BY <1>2, <1>4, FS_Subset DEF BatchSound
<1>. HIDE DEF next
<1>7. 0 \in Good
  BY <1>2, <1>3, <1>4 DEF N
<1>8. ASSUME NEW n \in Nat, n \in Good PROVE n + 1 \in Good
  <2>. SUFFICES ASSUME n + 1 <= N PROVE Cardinality(run[n + 1].left) = N - (n + 1)
    OBVIOUS
  <2>1. Cardinality(run[n].left) = N - n /\ N - n # 0
    BY <1>2, <1>8
  <2>2. run[n].left # {}
    BY <2>1, FS_EmptySet
  <2>3. next(n + 1) \in run[n].left /\ run[n + 1].left = run[n].left \ {next(n + 1)}
    BY <1>5, <2>2
  <2>4. PICK m \in run[n].left : run[n + 1].left = run[n].left \ {m}
    BY <2>3
  <2>5. IsFiniteSet(run[n].left)
    BY <1>6
  <2>6. Cardinality(run[n].left \ {m}) = Cardinality(run[n].left) - 1
    BY <2>5, FS_RemoveElement
  <2>. QED  BY <1>2, <2>1, <2>4, <2>6
<1>. HIDE DEF Good
<1>9. \A n \in Nat : n \in Good
  BY <1>7, <1>8, SetInduction
<1>10. ASSUME NEW i \in 1 .. N PROVE told(i) \in Seq(HostMessages)
  <2>1. i - 1 \in Nat /\ (i - 1) + 1 = i /\ i - 1 <= N /\ N - (i - 1) # 0
    BY <1>2
  <2>2. Cardinality(run[i - 1].left) = N - (i - 1)
    BY <1>9, <2>1 DEF Good
  <2>3. run[i - 1].left # {}
    BY <2>1, <2>2, FS_EmptySet
  <2>4. next(i) \in run[i - 1].left
    BY <1>5, <2>1, <2>3
  <2>5. next(i) \in Motion /\ next(i).dest \in Squares
    BY <1>1, <1>2, <1>6, <2>1, <2>4 DEF MovesHaveTargets
  <2>6. run[i - 1].board \in Board
    BY <1>4, <2>1 DEF BatchSound, BatchState
  <2>. QED  BY <2>5, <2>6, ResolutionTyped
<1>. HIDE DEF told
<1>11. [i \in 1 .. N |-> told(i)] \in Seq(Seq(HostMessages))
  BY <1>2, <1>10
<1>. QED  BY <1>0, <1>11, FlattenTyped

\* A verdict that is told names a color.
LEMMA EndTyped ==
    ASSUME NEW g, NEW h, h.over /\ ~g.over => h.winner \in Colors
    PROVE  EndTold(g, h) \in Seq(HostMessages)
<1>1. h.winner \in Colors => GameEnded(h.winner) \in HostMessages
  <2>1. h.winner \in Colors =>
          GameEnded(h.winner) \in [type : {"game_ended"}, winner : Colors]
    BY DEF GameEnded
  <2>. QED  BY <2>1 DEF HostMessages
<1>2. CASE h.over /\ ~g.over
  <2>1. EndTold(g, h) = <<GameEnded(h.winner)>>
    BY <1>2 DEF EndTold
  <2>. QED  BY <1>1, <1>2, <2>1
<1>3. CASE ~(h.over /\ ~g.over)
  BY <1>3 DEF EndTold
<1>. QED  BY <1>2, <1>3

\* A whole frame of the host, which has no premoves to play.
LEMMA FrameTold ==
    ASSUME NEW g, GameSound(g), \A sq \in Squares : g.premoves[sq] = NoPremove
    PROVE  FrameEvents(g, 1, AdvanceTime(g, 1)) \in Seq(HostMessages)
<1>. DEFINE after == AdvanceTime(g, 1)
<1>1. 1 \in Nat /\ g.active \in SUBSET Motion /\ g.nextId \in Nat
  BY DEF GameSound, Sound, GameState
<1>2. after.active \subseteq g.active
  BY <1>1, FrameTouches
<1>3. ~g.over /\ after.over => after.winner \in Colors
  BY <1>1, FrameNamesWinner
<1>4. ArrivalEvents(g, 1) \in Seq(HostMessages)
  BY <1>1, ArrivalTyped
<1>. HIDE DEF after
<1>5. \A m \in g.active : m.id \in Nat /\ m.id < g.nextId
  BY <1>1 DEF GameSound, Sound, IdsInOrder, Motion
<1>6. {m \in after.active : m.id >= g.nextId} = {}
  BY <1>1, <1>2, <1>5
<1>7. StartedEvents(g, after) \in Seq(HostMessages)
  BY <1>6, StartedTyped
<1>8. EndTold(g, after) \in Seq(HostMessages)
  BY <1>3, EndTyped
<1>9. \A a, b, c \in Seq(HostMessages) : a \o b \o c \in Seq(HostMessages)
  OBVIOUS
<1>10. FrameEvents(g, 1, after) \in Seq(HostMessages)
  BY <1>4, <1>7, <1>8, <1>9 DEF FrameEvents
<1>. QED  BY <1>10 DEF after

-----------------------------------------------------------------------------
(* Every variable keeps its shape *)

\* The messages under way are messages that the host may publish.
EventsTyped == events \in Seq(HostMessages)

\* What a frame of the host adds to them is.
LEMMA EventsFrame ==
    ASSUME RInv, EventsTyped, NEW expires, NEW fades, NEW read,
           HostFrame(expires, read, fades)
    PROVE  EventsTyped'
<1>. DEFINE ticked == IF expires THEN ApplyRemoteGameEnded(host, "White") ELSE host
            seats == IF expires THEN {} ELSE seated
            run == PlayRun(ticked, seats)
            played == run[Len(commands)]
            told(i) == StartedEvents(run[i - 1], run[i])
            plays == PlayEvents(ticked, seats)
            frame == FrameEvents(played, 1, AdvanceTime(played, 1))
            expired == IF expires THEN <<GameEnded("White")>> ELSE <<>>
<1>1. events' = IF guestAt = "playing" THEN events \o ((expired \o plays) \o frame) ELSE events
  BY Zenon DEF HostFrame
<1>2. /\ GameSound(host) /\ host \in GameState /\ "White" \in Colors
      /\ commands \in Seq([connection : Players, request : Requests])
      /\ \A sq \in Squares : host.premoves[sq] = NoPremove
  BY DEF RInv, BothSound, QueueTyped, HostQuiet, GameSound, Sound, Colors
<1>3. GameSound(ticked) /\ ticked.premoves = host.premoves
  <2>1. GameSound(ApplyRemoteGameEnded(host, "White"))
    BY <1>2, EndKeepsGame
  <2>2. ApplyRemoteGameEnded(host, "White").premoves = host.premoves
    BY <1>2 DEF ApplyRemoteGameEnded, GameState
  <2>. QED  BY <1>2, <2>1, <2>2
<1>. HIDE DEF ticked, seats
<1>4. /\ \A n \in Nat : run[n + 1] = PlayCommand(run[n], commands[n + 1], seats)
      /\ \A n \in Nat : GameSound(run[n])
  BY <1>3, PlayRunDef
<1>5. Len(commands) \in Nat /\ DOMAIN commands = 1 .. Len(commands)
  BY <1>2
<1>6. Played(ticked, played, seats)
  BY <1>3, PlayRunTouches DEF RInv
<1>7. plays = FlattenSeq([i \in DOMAIN commands |-> told(i)])
  BY DEF PlayEvents
<1>. HIDE DEF plays, run
<1>8. frame \in Seq(HostMessages)
  <2>1. GameSound(played) /\ \A sq \in Squares : played.premoves[sq] = NoPremove
    BY <1>2, <1>3, <1>4, <1>5, <1>6 DEF Played
  <2>. HIDE DEF played
  <2>. QED  BY <2>1, FrameTold
<1>9. ASSUME NEW i \in DOMAIN commands PROVE told(i) \in Seq(HostMessages)
  <2>1. i - 1 \in Nat /\ (i - 1) + 1 = i
    BY <1>5
  <2>2. PICK g : g = run[i - 1]
    OBVIOUS
  <2>3. PICK command : command = commands[i]
    OBVIOUS
  <2>4. GameSound(g) /\ run[i] = PlayCommand(g, command, seats)
    BY <1>4, <2>1, <2>2, <2>3
  <2>. QED  BY <2>2, <2>4, CommandTold
<1>. HIDE DEF told, frame
<1>10. [i \in DOMAIN commands |-> told(i)] \in Seq(Seq(HostMessages))
  BY <1>5, <1>9
<1>11. plays \in Seq(HostMessages)
  BY <1>7, <1>10, FlattenTyped
<1>12. \A a, b, c, d \in Seq(HostMessages) : a \o ((b \o c) \o d) \in Seq(HostMessages)
  OBVIOUS
<1>13. events \o ((expired \o plays) \o frame) \in Seq(HostMessages)
  <2>1. GameEnded("White") \in HostMessages
    BY <1>2 DEF GameEnded, HostMessages
  <2>2. expired \in Seq(HostMessages)
    BY <2>1
  <2>. HIDE DEF expired
  <2>. QED  BY <1>8, <1>11, <1>12, <2>2 DEF EventsTyped
<1>. QED  BY <1>1, <1>13 DEF EventsTyped

\* The other process takes messages from the front, and loses them all when it
\* dies.
LEMMA EventsStep == RInv /\ EventsTyped /\ [Next]_vars => EventsTyped'
<1>. SUFFICES ASSUME RInv, EventsTyped, [Next]_vars PROVE EventsTyped'
  OBVIOUS
<1>1. ASSUME NEW expires \in BOOLEAN, NEW fades \in BOOLEAN, NEW read,
             HostFrame(expires, read, fades)
      PROVE  EventsTyped'
  BY <1>1, EventsFrame
<1>2. ASSUME NEW read \in 0 .. Len(events), GuestFrame(read)
      PROVE  EventsTyped'
  <2>1. events' = SubSeq(events, read + 1, Len(events)) /\ events \in Seq(HostMessages)
    BY <1>2 DEF GuestFrame, EventsTyped
  <2>2. read \in Nat /\ Len(events) \in Nat
    BY <2>1
  <2>3. \A s \in Seq(HostMessages) : SubSeq(s, read + 1, Len(s)) \in Seq(HostMessages)
    BY <2>2
  <2>. QED  BY <2>1, <2>3 DEF EventsTyped
<1>3. CASE events' = <<>>
  BY <1>3 DEF EventsTyped
<1>4. CASE UNCHANGED events
  BY <1>4 DEF EventsTyped
<1>5. \/ \E expires \in BOOLEAN, fades \in BOOLEAN, read \in 0 .. Len(notices) :
            HostFrame(expires, read, fades)
      \/ \E read \in 0 .. Len(events) : GuestFrame(read)
      \/ events' = <<>> \/ UNCHANGED events
  BY OthersLeave DEF Next, ClickMove, ClickPremove, ClickJump, Receive, vars
<1>. QED  BY <1>1, <1>2, <1>3, <1>4, <1>5

\* Where the other process and the threads of its connections are, and who has a
\* seat: one connection of the player at most.
Places ==
    /\ guestAt \in GuestStates /\ connection \in Guests
    /\ open \subseteq Guests /\ handler \in [Guests -> Points]
    /\ seated \subseteq Players /\ reserved \in BOOLEAN /\ grace \in BOOLEAN
    /\ OneSeat

\* A connection is one of the bounded number of connections; the host's is none.
LEMMA GuestsAreNumbers == Guests \subseteq Nat /\ 1 \in Guests /\ Host \notin Guests
BY ReplicaAssumption DEF Guests, Host

\* The threads and the other process keep them; a new seat is given where the
\* player has none, or replaces the one he has.
LEMMA PlacesStep == Places /\ [Next]_vars => Places'
<1>. SUFFICES ASSUME Places, [Next]_vars PROVE Places'
  OBVIOUS
<1>0. /\ guestAt \in GuestStates /\ connection \in Guests
      /\ open \subseteq Guests /\ handler \in [Guests -> Points]
      /\ seated \subseteq Players /\ reserved \in BOOLEAN /\ grace \in BOOLEAN
      /\ OneSeat /\ Guests \subseteq Players /\ Host \in Players /\ Host \notin Guests
  BY GuestsAreNumbers DEF Places, Players
<1>1. ASSUME NEW c \in Guests, NEW p \in Points, Goto(c, p) PROVE handler' \in [Guests -> Points]
  BY <1>0, <1>1 DEF Goto
<1>2. CASE UNCHANGED <<process, server>>
  BY <1>2 DEF process, server, Places, OneSeat
<1>3. ASSUME NEW expires \in BOOLEAN, NEW fades, NEW read, HostFrame(expires, read, fades)
      PROVE  Places'
  <2>1. seated' = IF expires THEN {} ELSE seated
    BY <1>3, Zenon DEF HostFrame
  <2>2. /\ UNCHANGED <<guestAt, connection, open, handler>>
        /\ grace' = (grace /\ ~expires) /\ reserved' = (reserved /\ ~expires)
    BY <1>3 DEF HostFrame, process
  <2>3. grace' \in BOOLEAN /\ reserved' \in BOOLEAN
    BY <2>2
  <2>4. OneSeat'
    BY <1>0, <2>1 DEF OneSeat
  <2>. QED  BY <1>0, <2>1, <2>2, <2>3, <2>4 DEF Places
<1>4. CASE Start \/ Die
  BY <1>0, <1>4 DEF Start, Die, server, Places, OneSeat, GuestStates
<1>5. CASE Login
  <2>1. /\ connection + 1 \in Guests /\ connection' = connection + 1 /\ guestAt' = "joining"
        /\ open' = open \cup {connection + 1} /\ UNCHANGED <<seated, reserved, grace>>
        /\ Goto(connection + 1, IF grace THEN "reconnect" ELSE "authenticate")
    BY <1>5 DEF Login
  <2>2. handler' \in [Guests -> Points]
    BY <1>1, <2>1 DEF Points
  <2>. QED  BY <1>0, <2>1, <2>2 DEF Places, OneSeat, GuestStates
<1>6. ASSUME NEW c \in Guests, Handler(c)
      PROVE  Places'
  <2>0. \A status \in GuestStates : Answered(c, status) \in GuestStates
    BY <1>0 DEF Answered
  <2>1. CASE Reconnect(c)
    <3>1. handler' \in [Guests -> Points]
      BY <1>1, <2>1 DEF Reconnect, Points
    <3>2. guestAt' \in GuestStates
      BY <1>0, <2>0, <2>1 DEF Reconnect, GuestStates
    <3>3. /\ seated' = (seated \cap {Host}) \cup {c} \/ seated' = seated
          /\ reserved' \in BOOLEAN /\ UNCHANGED <<connection, open, grace>>
      BY <1>0, <2>1 DEF Reconnect
    <3>. QED  BY <1>0, <3>1, <3>2, <3>3 DEF Places, OneSeat
  <2>2. CASE Authenticate(c)
    <3>1. handler' \in [Guests -> Points]
      BY <1>1, <2>2 DEF Authenticate, Points
    <3>2. guestAt' \in GuestStates
      BY <2>0, <2>2 DEF Authenticate, GuestStates
    <3>3. /\ seated' = seated \/ (seated' = seated \cup {c} /\ seated \cap Guests = {})
          /\ UNCHANGED <<connection, open, reserved, grace>>
      BY <2>2 DEF Authenticate
    <3>. QED  BY <1>0, <3>1, <3>2, <3>3 DEF Places, OneSeat
  <2>3. CASE Answer(c)
    <3>1. handler' \in [Guests -> Points]
      BY <1>1, <2>3 DEF Answer, Points
    <3>2. guestAt' \in GuestStates
      BY <2>0, <2>3 DEF Answer, GuestStates
    <3>. QED  BY <1>0, <2>3, <3>1, <3>2 DEF Places, OneSeat, Answer
  <2>4. CASE Close(c)
    <3>1. handler' \in [Guests -> Points]
      BY <1>1, <2>4 DEF Close, Points
    <3>. QED  BY <1>0, <2>4, <3>1 DEF Places, OneSeat, Close, process
  <2>5. CASE OnReconnect(c) \/ OnDisconnect(c)
    <3>1. handler' \in [Guests -> Points]
      BY <1>1, <2>5 DEF OnReconnect, OnDisconnect, Points
    <3>. QED  BY <1>0, <2>5, <3>1 DEF Places, OneSeat, OnReconnect, OnDisconnect, process
  <2>6. CASE TellReturn(c) \/ TellLeave(c)
    <3>1. handler' \in [Guests -> Points]
      BY <1>1, <2>6 DEF TellReturn, TellLeave, Points
    <3>. QED  BY <1>0, <2>6, <3>1 DEF Places, OneSeat, TellReturn, TellLeave, process
  <2>7. CASE ReserveSlot(c)
    <3>1. handler' \in [Guests -> Points]
      BY <1>1, <2>7 DEF ReserveSlot, Points
    <3>. QED  BY <1>0, <2>7, <3>1 DEF Places, OneSeat, ReserveSlot, process
  <2>. QED  BY <1>6, <2>1, <2>2, <2>3, <2>4, <2>5, <2>6, <2>7 DEF Handler
<1>7. ASSUME \/ \E p \in Players, from, to \in Squares : ClickMove(p, from, to) \/ ClickPremove(p, from, to)
             \/ \E p \in Players, sq \in Squares : ClickJump(p, sq)
             \/ \E p \in Players : Receive(p)
             \/ \E read \in 0 .. Len(events) : GuestFrame(read)
             \/ UNCHANGED vars
      PROVE  UNCHANGED <<process, server>>
  BY <1>7 DEF ClickMove, ClickPremove, ClickJump, Receive, GuestFrame, vars
<1>. QED  BY <1>2, <1>3, <1>4, <1>5, <1>6, <1>7 DEF Next

\* What the windows of the host are told, and the number of requests.
WindowsTyped ==
    /\ notices \in Seq({"player_disconnected", "player_reconnected"})
    /\ overlay \in BOOLEAN /\ sent \in 0 .. MaxRequests

\* The notices that have come are applied one after the other.
LEMMA ShownRunDef ==
    ASSUME overlay \in BOOLEAN
    PROVE  /\ ShownRun[0] = overlay
           /\ \A n \in Nat : ShownRun[n + 1] = Shown(notices[n + 1], ShownRun[n])
           /\ \A n \in Nat : ShownRun[n] \in BOOLEAN
<1>. DEFINE F == [p \in Nat \X BOOLEAN |-> Shown(notices[p[1]], p[2])]
            Eq(r) == r = [i \in Nat |-> IF i = 0 THEN overlay ELSE Shown(notices[i], r[i - 1])]
<1>1. \A notice, shown : Shown(notice, shown) \in BOOLEAN
  BY DEF Shown
<1>2. PICK r : IsRun(r, BOOLEAN, overlay, F)
  <2>1. StaysIn(BOOLEAN, overlay, F)
    BY <1>1 DEF StaysIn
  <2>. HIDE DEF F
  <2>. QED  BY <2>1, LoopRuns
<1>3. Eq(r)
  <2>1. ASSUME NEW i \in Nat, i # 0 PROVE F[<<i, r[i - 1]>>] = Shown(notices[i], r[i - 1])
    <3>1. i - 1 \in Nat
      BY <2>1
    <3>2. <<i, r[i - 1]>> \in Nat \X BOOLEAN
      BY <1>2, <3>1 DEF IsRun
    <3>. QED  BY <3>2
  <2>. HIDE DEF F
  <2>. QED  BY <1>2, <2>1 DEF IsRun
<1>4. ShownRun = CHOOSE f : Eq(f)
  BY DEF ShownRun
<1>. HIDE DEF Eq
<1>5. Eq(ShownRun)
  BY <1>3, <1>4
<1>. DEFINE run == ShownRun
<1>6. run = [i \in Nat |-> IF i = 0 THEN overlay ELSE Shown(notices[i], run[i - 1])]
  BY <1>5 DEF Eq
<1>. HIDE DEF run
<1>7. run[0] = overlay
  BY <1>6
<1>8. ASSUME NEW n \in Nat PROVE run[n + 1] = Shown(notices[n + 1], run[n])
  <2>1. n + 1 \in Nat /\ n + 1 # 0 /\ (n + 1) - 1 = n
    OBVIOUS
  <2>. QED  BY <1>6, <2>1
<1>9. ASSUME NEW n \in Nat PROVE run[n] \in BOOLEAN
  <2>1. CASE n = 0
    BY <1>7, <2>1
  <2>2. CASE n # 0
    <3>1. n - 1 \in Nat /\ (n - 1) + 1 = n
      BY <2>2
    <3>2. run[(n - 1) + 1] = Shown(notices[(n - 1) + 1], run[n - 1])
      BY <1>8, <3>1
    <3>. QED  BY <1>1, <3>1, <3>2
  <2>. QED  BY <2>1, <2>2
<1>. QED  BY <1>7, <1>8, <1>9 DEF run

\* Notices are written at the end and read from the front.
LEMMA WindowsStep == WindowsTyped /\ [Next]_vars => WindowsTyped'
<1>. DEFINE Notices == {"player_disconnected", "player_reconnected"}
<1>. SUFFICES ASSUME WindowsTyped, [Next]_vars PROVE WindowsTyped'
  OBVIOUS
<1>0. notices \in Seq(Notices) /\ overlay \in BOOLEAN /\ sent \in 0 .. MaxRequests /\ MaxRequests \in Nat
  BY ReplicaAssumption DEF WindowsTyped
<1>1. ASSUME NEW p \in Players, NEW kind, NEW from, NEW to,
             Send(p, kind, from, to), sent < MaxRequests, UNCHANGED <<notices, overlay>>
      PROVE  WindowsTyped'
  BY <1>0, <1>1 DEF Send, WindowsTyped
<1>2. ASSUME NEW p \in Players, NEW from \in Squares, NEW to \in Squares, ClickMove(p, from, to)
      PROVE  WindowsTyped'
  BY <1>1, <1>2 DEF ClickMove
<1>3. ASSUME NEW p \in Players, NEW sq \in Squares, ClickJump(p, sq)
      PROVE  WindowsTyped'
  BY <1>1, <1>3 DEF ClickJump
<1>4. ASSUME NEW expires \in BOOLEAN, NEW fades \in BOOLEAN, NEW read \in 0 .. Len(notices),
             HostFrame(expires, read, fades)
      PROVE  WindowsTyped'
  <2>1. overlay' = (ShownRun[read] /\ ~fades)
    BY <1>4, Zenon DEF HostFrame
  <2>2. notices' = SubSeq(notices, read + 1, Len(notices))
    BY <1>4, Zenon DEF HostFrame
  <2>3. sent' = sent
    BY <1>4 DEF HostFrame
  <2>4. read \in Nat /\ Len(notices) \in Nat
    BY <1>0
  <2>5. \A s \in Seq(Notices) : SubSeq(s, read + 1, Len(s)) \in Seq(Notices)
    BY <2>4
  <2>6. overlay' \in BOOLEAN
    BY <2>1, <2>4, <1>0, ShownRunDef
  <2>. QED  BY <1>0, <2>2, <2>3, <2>5, <2>6 DEF WindowsTyped
<1>5. ASSUME NEW c \in Guests, Handler(c)
      PROVE  WindowsTyped'
  <2>1. /\ UNCHANGED <<overlay, sent>>
        /\ \/ notices' = notices
           \/ notices' = Append(notices, "player_disconnected")
           \/ notices' = Append(notices, "player_reconnected")
    BY <1>5 DEF Handler, Reconnect, OnReconnect, TellReturn, Answer, Authenticate, Close,
                OnDisconnect, ReserveSlot, TellLeave
  <2>. QED  BY <1>0, <2>1 DEF WindowsTyped
<1>6. CASE UNCHANGED <<notices, overlay, sent>>
  BY <1>6 DEF WindowsTyped
<1>7. ASSUME \/ \E p \in Players, from, to \in Squares : ClickPremove(p, from, to)
             \/ \E p \in Players : Receive(p)
             \/ \E read \in 0 .. Len(events) : GuestFrame(read)
             \/ Start \/ Die \/ Login \/ UNCHANGED vars
      PROVE  UNCHANGED <<notices, overlay, sent>>
  BY <1>7 DEF ClickPremove, Receive, GuestFrame, Start, Die, Login, vars
<1>. QED  BY <1>2, <1>3, <1>4, <1>5, <1>6, <1>7 DEF Next

\* The inductive invariant with its parts about messages, threads and seats.
ShapeInv == RInv /\ EventsTyped /\ Places /\ WindowsTyped

\* Nothing is under way when the game begins.
LEMMA ShapeInit == Init => EventsTyped /\ Places /\ WindowsTyped
<1>. SUFFICES ASSUME Init PROVE EventsTyped /\ Places /\ WindowsTyped
  OBVIOUS
<1>1. /\ events = <<>> /\ notices = <<>> /\ overlay = FALSE /\ sent = 0
      /\ guestAt \in {"starting", "playing"} /\ connection = 1 /\ seated = {Host, 1}
      /\ open = {1} /\ handler = [c \in Guests |-> "idle"] /\ reserved = FALSE /\ grace = FALSE
  BY ReplicaAssumption DEF Init
<1>2. Places
  BY <1>1, GuestsAreNumbers DEF Places, Players, OneSeat, GuestStates, Points
<1>3. EventsTyped
  BY <1>1 DEF EventsTyped
<1>4. WindowsTyped
  <2>1. MaxRequests \in Nat
    BY ReplicaAssumption
  <2>2. notices = <<>> /\ overlay = FALSE /\ sent = 0
    BY <1>1
  <2>3. sent \in 0 .. MaxRequests
    BY <2>1, <2>2
  <2>4. \A T : << >> \in Seq(T)
    OBVIOUS
  <2>. QED  BY <2>2, <2>3, <2>4 DEF WindowsTyped
<1>. QED  BY <1>2, <1>3, <1>4

\* It holds in every state.
THEOREM ShapeInvAlways == Spec => []ShapeInv
<1>1. Init => EventsTyped /\ Places /\ WindowsTyped
  BY ShapeInit
<1>2. RInv /\ EventsTyped /\ Places /\ WindowsTyped /\ [Next]_vars => EventsTyped' /\ Places' /\ WindowsTyped'
  BY EventsStep, PlacesStep, WindowsStep
<1>. QED  BY <1>1, <1>2, RInvAlways, PTL DEF Spec, ShapeInv

\* Every variable keeps its shape, and every message on its way to the other
\* process is one that a host may publish: a move or a jump of a piece between
\* squares of the board, a verdict for a color.
THEOREM ReplicaTypeHolds == Spec => []ReplicaTypeOK
<1>1. ShapeInv => ReplicaTypeOK
  BY DEF ShapeInv, RInv, BothSound, GameSound, Sound, OutboxTyped, QueueTyped, EventsTyped,
         Places, WindowsTyped, ReplicaTypeOK
<1>. QED  BY <1>1, ShapeInvAlways, PTL

\* However closes of old connections and logins of new ones interleave, the
\* player never sits on two connections, for any number of returns.
THEOREM OneSeatHolds == Spec => []OneSeat
<1>1. ShapeInv => OneSeat
  BY DEF ShapeInv, Places
<1>. QED  BY <1>1, ShapeInvAlways, PTL

-----------------------------------------------------------------------------
(* What is written reads back *)

KeysOf(parts) == {parts[i][1] : i \in DOMAIN parts}

\* A value survives its conversions, and as a string it reads like no key; a
\* captured piece that is left out is none.
Survives(value, kind, keys) ==
    /\ IF kind = "captured" /\ IsEmpty(value) THEN value = Nothing
       ELSE Decode(kind, Encode(kind, value)) = value
    /\ kind \in {"string", "color"} => Encode(kind, value) \notin keys
    /\ kind = "square" => value # Nowhere
    /\ kind = "piece" => value # Nothing

\* A message that can be read back from its text: its fields are the ones of its
\* type, no string in it reads like a key, and every value survives its own
\* conversions.
Readable(m, parts) ==
    /\ m.type \in Types /\ LayoutOf(m.type) = parts
    /\ Len(parts) \in Nat /\ DOMAIN parts = 1 .. Len(parts)
    /\ \A i, j \in DOMAIN parts : parts[i][1] = parts[j][1] => i = j
    /\ "type" \notin KeysOf(parts) /\ m.type \notin KeysOf(parts)
    /\ m = [key \in KeysOf(parts) \cup {"type"} |-> m[key]]
    /\ \A i \in DOMAIN parts : /\ Survives(m[parts[i][1]], parts[i][2], KeysOf(parts))
                               /\ parts[i][2] = "captured" => i = Len(parts)

\* The first match of a key is a field with that key, of the kind asked for.
FieldAt(text, key, kind, i) ==
    /\ DOMAIN text \subseteq Nat /\ i \in DOMAIN text
    /\ IsFirstMatch(text, key, i) /\ text[i].key = key
    /\ (text[i].kind = "number") <=> (kind = "number")

\* Then that field is what is found.
LEMMA ExtractFirst ==
    ASSUME NEW text, NEW key, NEW kind, NEW i, FieldAt(text, key, kind, i)
    PROVE  Extract(text, key, kind) = text[i]
<1>. USE DEF FieldAt
<1>. DEFINE k == CHOOSE k \in DOMAIN text : IsFirstMatch(text, key, k)
<1>1. k \in DOMAIN text /\ IsFirstMatch(text, key, k)
  OBVIOUS
<1>2. \E j \in DOMAIN text : IsFirstMatch(text, key, j)
  OBVIOUS
<1>3. Extract(text, key, kind)
        = IF text[k].key = key /\ (text[k].kind = "number") = (kind = "number")
          THEN text[k] ELSE Absent
  BY <1>2 DEF Extract
<1>. HIDE DEF k
<1>4. k = i
  BY <1>1 DEF IsFirstMatch
<1>5. (text[i].kind = "number") = (kind = "number")
  BY Zenon
<1>. QED  BY <1>3, <1>4, <1>5

\* A text without a match has no such field.
LEMMA ExtractNone ==
    ASSUME NEW text, NEW key, NEW kind, \A i \in DOMAIN text : ~ReadsLike(text[i], key)
    PROVE  Extract(text, key, kind) = Absent
BY DEF Extract, IsFirstMatch

\* A sequence with one more element in front.
LEMMA Prefixed ==
    ASSUME NEW T, NEW e \in T, NEW r \in Seq(T)
    PROVE  LET s == <<e>> \o r
           IN  /\ DOMAIN s = 1 .. Len(r) + 1 /\ s[1] = e
               /\ \A i \in 1 .. Len(r) : s[i + 1] = r[i]
<1>. DEFINE s == <<e>> \o r
<1>1. <<e>> \in Seq(T) /\ Len(<<e>>) = 1
  OBVIOUS
<1>2. Len(s) = 1 + Len(r) /\ s \in Seq(T)
  BY <1>1
<1>3. s[1] = e
  OBVIOUS
<1>4. ASSUME NEW i \in 1 .. Len(r) PROVE s[i + 1] = r[i]
  <2>1. i + 1 > 1 /\ i + 1 <= 1 + Len(r) /\ (i + 1) - 1 = i
    OBVIOUS
  <2>. QED  BY <1>1, <2>1
<1>. QED  BY <1>2, <1>3, <1>4

\* The fields of a text, and where they are.
LEMMA TextFields ==
    ASSUME NEW m, NEW parts, Readable(m, parts)
    PROVE  LET text == Serialized(m)
           IN  \E count \in 0 .. Len(parts) :
                 /\ DOMAIN text = 1 .. count + 1
                 /\ text[1] = Field("type", "string", m.type)
                 /\ \A i \in 1 .. count : text[i + 1] = WrittenField(m, parts[i])
                 /\ \A i \in DOMAIN parts : i <= count <=> IsWritten(m, parts[i])
<1>. DEFINE n == Len(parts)
            count == IF n > 0 /\ ~IsWritten(m, parts[n]) THEN n - 1 ELSE n
            first == Field("type", "string", m.type)
            field(i) == WrittenField(m, parts[i])
            rest == [i \in 1 .. count |-> field(i)]
            text == <<first>> \o rest
<1>1. n \in Nat /\ DOMAIN parts = 1 .. n
  BY DEF Readable
<1>2. Serialized(m) = text
  BY DEF Serialized, Readable
<1>3. count \in 0 .. n
  BY <1>1
<1>4. ASSUME NEW i \in DOMAIN parts PROVE i <= count <=> IsWritten(m, parts[i])
  <2>1. ~IsWritten(m, parts[i]) => i = n
    BY DEF Readable, Survives, IsWritten
  <2>. QED  BY <1>1, <2>1
<1>. HIDE DEF count, first, field
<1>5. PICK T : first \in T /\ \A i \in 1 .. count : field(i) \in T
  <2>1. /\ first \in {first} \cup {field(j) : j \in 1 .. count}
        /\ \A i \in 1 .. count : field(i) \in {first} \cup {field(j) : j \in 1 .. count}
    OBVIOUS
  <2>. QED  BY <2>1
<1>6. rest \in Seq(T) /\ Len(rest) = count
  BY <1>3, <1>5
<1>7. \A i \in 1 .. count : rest[i] = field(i)
  OBVIOUS
<1>. HIDE DEF rest
<1>8. /\ DOMAIN text = 1 .. count + 1 /\ text[1] = first
      /\ \A i \in 1 .. count : text[i + 1] = rest[i]
  BY <1>5, <1>6, Prefixed
<1>. HIDE DEF text
<1>. QED  BY <1>2, <1>3, <1>4, <1>7, <1>8 DEF first, field

\* Every field that is written is found, with its value.
LEMMA FieldsFound ==
    ASSUME NEW m, NEW parts, Readable(m, parts)
    PROVE  LET text == Serialized(m)
           IN  /\ Extract(text, "type", "string") = Field("type", "string", m.type)
               /\ \A i \in DOMAIN parts :
                    Extract(text, parts[i][1], parts[i][2])
                      = IF IsWritten(m, parts[i]) THEN WrittenField(m, parts[i]) ELSE Absent
<1>1. PICK text : text = Serialized(m)
  OBVIOUS
<1>2. PICK count \in 0 .. Len(parts) :
         /\ DOMAIN text = 1 .. count + 1
         /\ text[1] = Field("type", "string", m.type)
         /\ \A i \in 1 .. count : text[i + 1] = WrittenField(m, parts[i])
         /\ \A i \in DOMAIN parts : i <= count <=> IsWritten(m, parts[i])
  BY <1>1, TextFields
<1>3. Len(parts) \in Nat /\ DOMAIN parts = 1 .. Len(parts) /\ count \in Nat /\ count <= Len(parts)
  BY <1>2 DEF Readable
<1>4. /\ "type" \notin KeysOf(parts) /\ m.type \notin KeysOf(parts)
      /\ \A i \in DOMAIN parts : parts[i][1] \in KeysOf(parts)
      /\ \A i, j \in DOMAIN parts : parts[i][1] = parts[j][1] => i = j
  BY DEF Readable, KeysOf
<1>5. /\ text[1].key = "type" /\ text[1].kind = "string" /\ text[1].value = m.type
  BY <1>2 DEF Field
<1>6. ASSUME NEW i \in 1 .. count
      PROVE  LET field == text[i + 1]
             IN  /\ field = WrittenField(m, parts[i])
                 /\ i \in DOMAIN parts /\ i + 1 \in DOMAIN text
                 /\ field.key = parts[i][1]
                 /\ (field.kind = "number") <=> (parts[i][2] = "number")
                 /\ field.kind = "string" => field.value \notin KeysOf(parts)
  <2>1. i \in DOMAIN parts /\ i + 1 \in DOMAIN text /\ text[i + 1] = WrittenField(m, parts[i])
    BY <1>2, <1>3
  <2>2. parts[i][2] \in {"string", "color"}
          => Encode(parts[i][2], m[parts[i][1]]) \notin KeysOf(parts)
    BY <2>1 DEF Readable, Survives
  <2>. DEFINE value == Encode(parts[i][2], m[parts[i][1]])
              field == WrittenField(m, parts[i])
  <2>. HIDE DEF value
  <2>3. /\ field.key = parts[i][1] /\ field.value = value
        /\ (field.kind = "number") <=> (parts[i][2] = "number")
        /\ field.kind = "string" => parts[i][2] \in {"string", "color"}
    BY DEF WrittenField, Field, value
  <2>. HIDE DEF field
  <2>. QED  BY <2>1, <2>2, <2>3 DEF value, field
<1>7. DOMAIN text \subseteq Nat /\ 1 \in DOMAIN text
  BY <1>2, <1>3
<1>8. Extract(text, "type", "string") = text[1]
  <2>1. IsFirstMatch(text, "type", 1)
    BY <1>2, <1>3, <1>5 DEF IsFirstMatch, ReadsLike
  <2>2. (text[1].kind = "number") <=> ("string" = "number")
    BY <1>5
  <2>3. FieldAt(text, "type", "string", 1)
    BY <1>5, <1>7, <2>1, <2>2 DEF FieldAt
  <2>. QED  BY <2>3, ExtractFirst
<1>9. ASSUME NEW i \in DOMAIN parts, NEW j \in DOMAIN text, j # i + 1
      PROVE  ~ReadsLike(text[j], parts[i][1])
  <2>1. CASE j = 1
    BY <1>4, <1>5, <2>1 DEF ReadsLike
  <2>2. CASE j # 1
    <3>0. j \in 1 .. count + 1 /\ i \in Nat
      BY <1>2, <1>3
    <3>1. j - 1 \in 1 .. count /\ (j - 1) + 1 = j /\ j - 1 # i
      BY <1>3, <1>9, <2>2, <3>0
    <3>2. /\ text[j].key = parts[j - 1][1] /\ j - 1 \in DOMAIN parts
          /\ text[j].kind = "string" => text[j].value \notin KeysOf(parts)
      BY <1>6, <3>1
    <3>3. parts[j - 1][1] # parts[i][1] /\ parts[i][1] \in KeysOf(parts)
      BY <1>4, <3>1, <3>2
    <3>. QED  BY <3>2, <3>3 DEF ReadsLike
  <2>. QED  BY <2>1, <2>2
<1>10. ASSUME NEW i \in DOMAIN parts, IsWritten(m, parts[i])
       PROVE  Extract(text, parts[i][1], parts[i][2]) = WrittenField(m, parts[i])
  <2>1. i \in 1 .. count
    BY <1>2, <1>3, <1>10
  <2>2. /\ i + 1 \in DOMAIN text /\ text[i + 1].key = parts[i][1]
        /\ (text[i + 1].kind = "number") <=> (parts[i][2] = "number")
        /\ text[i + 1] = WrittenField(m, parts[i])
    BY <1>6, <2>1
  <2>3. \A j \in DOMAIN text : j < i + 1 => ~ReadsLike(text[j], parts[i][1])
    BY <1>7, <1>9, <2>2
  <2>4. ReadsLike(text[i + 1], parts[i][1])
    BY <2>2 DEF ReadsLike
  <2>5. IsFirstMatch(text, parts[i][1], i + 1)
    BY <2>3, <2>4 DEF IsFirstMatch
  <2>6. Extract(text, parts[i][1], parts[i][2]) = text[i + 1]
    <3>1. FieldAt(text, parts[i][1], parts[i][2], i + 1)
      BY <1>7, <2>2, <2>5 DEF FieldAt
    <3>. QED  BY <3>1, ExtractFirst
  <2>. QED  BY <2>2, <2>6
<1>11. ASSUME NEW i \in DOMAIN parts, ~IsWritten(m, parts[i])
       PROVE  Extract(text, parts[i][1], parts[i][2]) = Absent
  <2>1. ~(i <= count)
    BY <1>2, <1>11
  <2>2. \A j \in DOMAIN text : j # i + 1
    BY <1>2, <1>3, <2>1
  <2>. QED  BY <1>9, <2>2, ExtractNone
<1>. QED  BY <1>1, <1>2, <1>8, <1>10, <1>11

\* A readable message reads back.
LEMMA ReadsBack ==
    ASSUME NEW m, NEW parts, Readable(m, parts)
    PROVE  Received(m) = m
<1>1. PICK text : text = Serialized(m)
  OBVIOUS
<1>2. /\ Extract(text, "type", "string") = Field("type", "string", m.type)
      /\ \A i \in DOMAIN parts :
           Extract(text, parts[i][1], parts[i][2])
             = IF IsWritten(m, parts[i]) THEN WrittenField(m, parts[i]) ELSE Absent
  BY <1>1, FieldsFound
<1>3. /\ Extract(text, "type", "string").value = m.type
      /\ Extract(text, "type", "string") # Absent
  BY <1>2 DEF Field, Absent
<1>4. m.type \in Types /\ LayoutOf(m.type) = parts /\ "type" \notin KeysOf(parts)
  BY DEF Readable
<1>5. ASSUME NEW i \in DOMAIN parts
      PROVE  /\ Found(text, parts[i]) <=> IsWritten(m, parts[i])
             /\ IsWritten(m, parts[i]) => ValueOf(text, parts[i]) = m[parts[i][1]]
             /\ ~IsWritten(m, parts[i]) => m[parts[i][1]] = Nothing
  <2>. DEFINE kind == parts[i][2]
              value == m[parts[i][1]]
              field == WrittenField(m, parts[i])
  <2>1. /\ field # Absent /\ field.value = Encode(kind, value)
    BY DEF WrittenField, Field, Absent
  <2>2. IF IsWritten(m, parts[i]) THEN Decode(kind, Encode(kind, value)) = value
        ELSE value = Nothing
    BY DEF Readable, Survives, IsWritten
  <2>. HIDE DEF field
  <2>3. Extract(text, parts[i][1], parts[i][2]) = IF IsWritten(m, parts[i]) THEN field ELSE Absent
    BY <1>2 DEF field
  <2>. QED  BY <2>1, <2>2, <2>3 DEF Found, ValueOf
<1>6. ASSUME NEW i \in DOMAIN parts PROVE ~IsLost(text, parts[i])
  <2>1. ~IsWritten(m, parts[i]) => parts[i][2] = "captured"
    BY DEF IsWritten
  <2>2. /\ parts[i][2] = "square" => m[parts[i][1]] # Nowhere
        /\ parts[i][2] = "piece" => m[parts[i][1]] # Nothing
    BY DEF Readable, Survives
  <2>. QED  BY <1>5, <2>1, <2>2 DEF IsLost
<1>. DEFINE keys == {parts[i][1] : i \in DOMAIN parts}
            PartOf(key) == parts[CHOOSE i \in DOMAIN parts : parts[i][1] = key]
            Read(key) == IF Found(text, PartOf(key)) THEN ValueOf(text, PartOf(key)) ELSE Nothing
            back == [key \in keys \cup {"type"} |-> IF key = "type" THEN m.type ELSE Read(key)]
<1>7. Parsed(text) = back
  <2>1. ~(Extract(text, "type", "string") = Absent \/ m.type \notin Types)
    BY <1>3, <1>4
  <2>2. ~ \E i \in DOMAIN parts : IsLost(text, parts[i])
    BY <1>6
  <2>. QED  BY <1>3, <1>4, <2>1, <2>2 DEF Parsed
<1>8. ASSUME NEW key \in keys PROVE Read(key) = m[key]
  <2>1. PICK i \in DOMAIN parts : parts[i][1] = key
    OBVIOUS
  <2>2. (CHOOSE j \in DOMAIN parts : parts[j][1] = key) = i
    <3>1. \A j \in DOMAIN parts : parts[j][1] = key <=> j = i
      BY <2>1 DEF Readable
    <3>. QED  BY <3>1
  <2>3. PartOf(key) = parts[i]
    BY <2>2
  <2>. HIDE DEF PartOf
  <2>. QED  BY <1>5, <2>1, <2>3
<1>9. keys = KeysOf(parts)
  BY DEF KeysOf
<1>. HIDE DEF keys, Read
<1>10. \A key \in keys \cup {"type"} : (IF key = "type" THEN m.type ELSE Read(key)) = m[key]
  BY <1>4, <1>8, <1>9
<1>11. back = [key \in keys \cup {"type"} |-> m[key]]
  BY <1>10
<1>12. m = [key \in KeysOf(parts) \cup {"type"} |-> m[key]]
  BY DEF Readable
<1>. QED  BY <1>1, <1>7, <1>9, <1>11, <1>12 DEF Received

\* Squares of a board of at most eight rows and columns, pieces and colors
\* survive their conversions; eight is the size that the notation knows.
LEMMA ValuesReadBack ==
    ASSUME Rows <= 8, Cols <= 8
    PROVE  /\ \A sq \in Squares : /\ Decode("square", Encode("square", sq)) = sq
                                  /\ sq # Nowhere
           /\ \A piece \in GamePieces : /\ Decode("piece", Encode("piece", piece)) = piece
                                        /\ Decode("captured", Encode("captured", piece)) = piece
                                        /\ ~IsEmpty(piece) /\ piece # Nothing
           /\ IsEmpty(Nothing)
           /\ \A color \in Colors : /\ Decode("color", Encode("color", color)) = color
                                    /\ Encode("color", color) \in {"white", "black"}
<1>1. ASSUME NEW sq \in Squares
      PROVE  Decode("square", Encode("square", sq)) = sq /\ sq # Nowhere
  <2>1. PICK r \in 0 .. Rows - 1, c \in 0 .. Cols - 1 : sq = <<r, c>>
    BY DEF Squares
  <2>2. r \in 0 .. 7 /\ c \in 0 .. 7
    BY SizeAssumption
  <2>3. PositionToAlgebraic(sq) = <<c, 8 - r>>
    BY <2>1, <2>2 DEF PositionToAlgebraic
  <2>4. AlgebraicToPosition(<<c, 8 - r>>) = <<8 - (8 - r), c>>
    BY <2>2 DEF AlgebraicToPosition
  <2>5. 8 - (8 - r) = r
    BY <2>2
  <2>6. sq # Nowhere
    BY <2>1, <2>2 DEF Nowhere
  <2>. QED  BY <2>1, <2>3, <2>4, <2>5, <2>6 DEF Decode, Encode
<1>2. ASSUME NEW piece \in GamePieces
      PROVE  /\ ParsePieceLabel(Label(piece)) = piece
             /\ ~IsEmpty(piece) /\ piece # Nothing
  <2>1. PICK type \in PieceTypes, color \in Colors : piece = NewPiece(type, color)
    BY DEF GamePieces
  <2>2. piece.type = type /\ piece.color = color
    BY <2>1 DEF NewPiece, EmptyCell
  <2>3. type # "Empty"
    BY DEF PieceTypes
  <2>4. ParsePieceLabel(Label(piece)) = piece
    BY <2>1, <2>2 DEF ParsePieceLabel, Label
  <2>. QED  BY <2>2, <2>3, <2>4 DEF IsEmpty, Nothing, EmptyCell
<1>3. ASSUME NEW color \in Colors
      PROVE  ColorFromLabel(ColorLabel(color)) = color /\ ColorLabel(color) \in {"white", "black"}
  BY DEF ColorFromLabel, ColorLabel, Colors
<1>4. IsEmpty(Nothing)
  BY DEF IsEmpty, Nothing, EmptyCell
<1>5. \A v : /\ Encode("piece", v) = Label(v) /\ Decode("piece", v) = ParsePieceLabel(v)
             /\ Encode("captured", v) = Label(v) /\ Decode("captured", v) = ParsePieceLabel(v)
             /\ Encode("color", v) = ColorLabel(v) /\ Decode("color", v) = ColorFromLabel(v)
  BY DEF Encode, Decode
<1>. QED  BY <1>1, <1>2, <1>3, <1>4, <1>5

\* The values of the host's messages survive.
LEMMA KindsSurvive ==
    ASSUME Rows <= 8, Cols <= 8
    PROVE  \A value, kind, keys :
             \/ kind = "square" /\ value \in Squares
             \/ kind = "piece" /\ value \in GamePieces
             \/ kind = "captured" /\ value \in GamePieces \cup {Nothing}
             \/ kind = "color" /\ value \in Colors /\ "white" \notin keys /\ "black" \notin keys
             => Survives(value, kind, keys)
BY ValuesReadBack DEF Survives

\* Every message of the host is readable.
LEMMA HostReadable ==
    ASSUME Rows <= 8, Cols <= 8, NEW m \in HostMessages
    PROVE  \E parts : Readable(m, parts)
<1>1. /\ {"move_started", "jump_started", "move_completed", "jump_capture", "game_ended"}
           \subseteq Types
      /\ LayoutOf("move_started")
           = <<<<"piece", "piece">>, <<"from", "square">>, <<"to", "square">>>>
      /\ LayoutOf("jump_started") = <<<<"piece", "piece">>, <<"square", "square">>>>
      /\ LayoutOf("move_completed")
           = <<<<"piece", "piece">>, <<"from", "square">>, <<"to", "square">>,
               <<"captured", "captured">>>>
      /\ LayoutOf("jump_capture")
           = <<<<"jumper", "piece">>, <<"victim", "piece">>, <<"jump_square", "square">>,
               <<"victim_from", "square">>, <<"victim_to", "square">>>>
      /\ LayoutOf("game_ended") = <<<<"winner", "color">>>>
  BY DEF Types, Layouts, LayoutOf, ClientLayout, LobbyLayout, GameLayout
<1>2. CASE m \in [type : {"move_started"}, piece : GamePieces, from : Squares, to : Squares]
  <2>. DEFINE parts == <<<<"piece", "piece">>, <<"from", "square">>, <<"to", "square">>>>
  <2>1. /\ m.type = "move_started" /\ DOMAIN m = {"type", "piece", "from", "to"}
        /\ m = [key \in DOMAIN m |-> m[key]]
        /\ m["piece"] \in GamePieces
        /\ m["from"] \in Squares
        /\ m["to"] \in Squares
    BY <1>2
  <2>2. Len(parts) = 3 /\ DOMAIN parts = 1 .. 3 /\ 1 .. 3 = {1, 2, 3}
    OBVIOUS
  <2>3. /\ parts[1][1] = "piece" /\ parts[1][2] = "piece"
        /\ parts[2][1] = "from" /\ parts[2][2] = "square"
        /\ parts[3][1] = "to" /\ parts[3][2] = "square"
    OBVIOUS
  <2>4. LayoutOf(m.type) = parts /\ m.type \in Types
    BY <1>1, <2>1
  <2>. HIDE DEF parts
  <2>5. KeysOf(parts) = {"piece", "from", "to"}
    BY <2>2, <2>3 DEF KeysOf
  <2>6. Survives(m[parts[1][1]], parts[1][2], KeysOf(parts))
    BY <2>1, <2>2, <2>3, <2>5, KindsSurvive
  <2>7. Survives(m[parts[2][1]], parts[2][2], KeysOf(parts))
    BY <2>1, <2>2, <2>3, <2>5, KindsSurvive
  <2>8. Survives(m[parts[3][1]], parts[3][2], KeysOf(parts))
    BY <2>1, <2>2, <2>3, <2>5, KindsSurvive
  <2>9. \A i \in DOMAIN parts : /\ Survives(m[parts[i][1]], parts[i][2], KeysOf(parts))
                                /\ parts[i][2] = "captured" => i = Len(parts)
    BY <2>2, <2>3, <2>6, <2>7, <2>8
  <2>10. \A i, j \in DOMAIN parts : parts[i][1] = parts[j][1] => i = j
    BY <2>2, <2>3
  <2>11. m = [key \in KeysOf(parts) \cup {"type"} |-> m[key]]
    BY <2>1, <2>5
  <2>12. "type" \notin KeysOf(parts) /\ m.type \notin KeysOf(parts)
    BY <2>1, <2>5
  <2>13. Len(parts) \in Nat /\ DOMAIN parts = 1 .. Len(parts)
    BY <2>2
  <2>14. Readable(m, parts)
    BY <2>4, <2>9, <2>10, <2>11, <2>12, <2>13 DEF Readable
  <2>. QED  BY <2>14
<1>3. CASE m \in [type : {"jump_started"}, piece : GamePieces, square : Squares]
  <2>. DEFINE parts == <<<<"piece", "piece">>, <<"square", "square">>>>
  <2>1. /\ m.type = "jump_started" /\ DOMAIN m = {"type", "piece", "square"}
        /\ m = [key \in DOMAIN m |-> m[key]]
        /\ m["piece"] \in GamePieces
        /\ m["square"] \in Squares
    BY <1>3
  <2>2. Len(parts) = 2 /\ DOMAIN parts = 1 .. 2 /\ 1 .. 2 = {1, 2}
    OBVIOUS
  <2>3. /\ parts[1][1] = "piece" /\ parts[1][2] = "piece"
        /\ parts[2][1] = "square" /\ parts[2][2] = "square"
    OBVIOUS
  <2>4. LayoutOf(m.type) = parts /\ m.type \in Types
    BY <1>1, <2>1
  <2>. HIDE DEF parts
  <2>5. KeysOf(parts) = {"piece", "square"}
    BY <2>2, <2>3 DEF KeysOf
  <2>6. Survives(m[parts[1][1]], parts[1][2], KeysOf(parts))
    BY <2>1, <2>2, <2>3, <2>5, KindsSurvive
  <2>7. Survives(m[parts[2][1]], parts[2][2], KeysOf(parts))
    BY <2>1, <2>2, <2>3, <2>5, KindsSurvive
  <2>8. \A i \in DOMAIN parts : /\ Survives(m[parts[i][1]], parts[i][2], KeysOf(parts))
                                /\ parts[i][2] = "captured" => i = Len(parts)
    BY <2>2, <2>3, <2>6, <2>7
  <2>9. \A i, j \in DOMAIN parts : parts[i][1] = parts[j][1] => i = j
    BY <2>2, <2>3
  <2>10. m = [key \in KeysOf(parts) \cup {"type"} |-> m[key]]
    BY <2>1, <2>5
  <2>11. "type" \notin KeysOf(parts) /\ m.type \notin KeysOf(parts)
    BY <2>1, <2>5
  <2>12. Len(parts) \in Nat /\ DOMAIN parts = 1 .. Len(parts)
    BY <2>2
  <2>13. Readable(m, parts)
    BY <2>4, <2>8, <2>9, <2>10, <2>11, <2>12 DEF Readable
  <2>. QED  BY <2>13
<1>4. CASE m \in [type : {"move_completed"}, piece : GamePieces, from : Squares, to : Squares,
                  captured : GamePieces \cup {Nothing}]
  <2>. DEFINE parts == <<<<"piece", "piece">>, <<"from", "square">>,
                         <<"to", "square">>, <<"captured", "captured">>>>
  <2>1. /\ m.type = "move_completed" /\ DOMAIN m = {"type", "piece", "from", "to", "captured"}
        /\ m = [key \in DOMAIN m |-> m[key]]
        /\ m["piece"] \in GamePieces
        /\ m["from"] \in Squares
        /\ m["to"] \in Squares
        /\ m["captured"] \in GamePieces \cup {Nothing}
    BY <1>4
  <2>2. Len(parts) = 4 /\ DOMAIN parts = 1 .. 4 /\ 1 .. 4 = {1, 2, 3, 4}
    OBVIOUS
  <2>3. /\ parts[1][1] = "piece" /\ parts[1][2] = "piece"
        /\ parts[2][1] = "from" /\ parts[2][2] = "square"
        /\ parts[3][1] = "to" /\ parts[3][2] = "square"
        /\ parts[4][1] = "captured" /\ parts[4][2] = "captured"
    OBVIOUS
  <2>4. LayoutOf(m.type) = parts /\ m.type \in Types
    BY <1>1, <2>1
  <2>. HIDE DEF parts
  <2>5. KeysOf(parts) = {"piece", "from", "to", "captured"}
    BY <2>2, <2>3 DEF KeysOf
  <2>6. Survives(m[parts[1][1]], parts[1][2], KeysOf(parts))
    BY <2>1, <2>2, <2>3, <2>5, KindsSurvive
  <2>7. Survives(m[parts[2][1]], parts[2][2], KeysOf(parts))
    BY <2>1, <2>2, <2>3, <2>5, KindsSurvive
  <2>8. Survives(m[parts[3][1]], parts[3][2], KeysOf(parts))
    BY <2>1, <2>2, <2>3, <2>5, KindsSurvive
  <2>9. Survives(m[parts[4][1]], parts[4][2], KeysOf(parts))
    BY <2>1, <2>2, <2>3, <2>5, KindsSurvive
  <2>10. \A i \in DOMAIN parts : /\ Survives(m[parts[i][1]], parts[i][2], KeysOf(parts))
                                 /\ parts[i][2] = "captured" => i = Len(parts)
    BY <2>2, <2>3, <2>6, <2>7, <2>8, <2>9
  <2>11. \A i, j \in DOMAIN parts : parts[i][1] = parts[j][1] => i = j
    BY <2>2, <2>3
  <2>12. m = [key \in KeysOf(parts) \cup {"type"} |-> m[key]]
    BY <2>1, <2>5
  <2>13. "type" \notin KeysOf(parts) /\ m.type \notin KeysOf(parts)
    BY <2>1, <2>5
  <2>14. Len(parts) \in Nat /\ DOMAIN parts = 1 .. Len(parts)
    BY <2>2
  <2>15. Readable(m, parts)
    BY <2>4, <2>10, <2>11, <2>12, <2>13, <2>14 DEF Readable
  <2>. QED  BY <2>15
<1>5. CASE m \in [type : {"jump_capture"}, jumper : GamePieces, victim : GamePieces,
                  jump_square : Squares, victim_from : Squares, victim_to : Squares]
  <2>. DEFINE parts == <<<<"jumper", "piece">>, <<"victim", "piece">>, <<"jump_square", "square">>,
                         <<"victim_from", "square">>, <<"victim_to", "square">>>>
  <2>1. /\ m.type = "jump_capture" /\ DOMAIN m = {"type", "jumper", "victim", "jump_square", "victim_from", "victim_to"}
        /\ m = [key \in DOMAIN m |-> m[key]]
        /\ m["jumper"] \in GamePieces
        /\ m["victim"] \in GamePieces
        /\ m["jump_square"] \in Squares
        /\ m["victim_from"] \in Squares
        /\ m["victim_to"] \in Squares
    BY <1>5
  <2>2. Len(parts) = 5 /\ DOMAIN parts = 1 .. 5 /\ 1 .. 5 = {1, 2, 3, 4, 5}
    OBVIOUS
  <2>3. /\ parts[1][1] = "jumper" /\ parts[1][2] = "piece"
        /\ parts[2][1] = "victim" /\ parts[2][2] = "piece"
        /\ parts[3][1] = "jump_square" /\ parts[3][2] = "square"
        /\ parts[4][1] = "victim_from" /\ parts[4][2] = "square"
        /\ parts[5][1] = "victim_to" /\ parts[5][2] = "square"
    OBVIOUS
  <2>4. LayoutOf(m.type) = parts /\ m.type \in Types
    BY <1>1, <2>1
  <2>. HIDE DEF parts
  <2>5. KeysOf(parts) = {"jumper", "victim", "jump_square", "victim_from", "victim_to"}
    BY <2>2, <2>3 DEF KeysOf
  <2>6. Survives(m[parts[1][1]], parts[1][2], KeysOf(parts))
    BY <2>1, <2>2, <2>3, <2>5, KindsSurvive
  <2>7. Survives(m[parts[2][1]], parts[2][2], KeysOf(parts))
    BY <2>1, <2>2, <2>3, <2>5, KindsSurvive
  <2>8. Survives(m[parts[3][1]], parts[3][2], KeysOf(parts))
    BY <2>1, <2>2, <2>3, <2>5, KindsSurvive
  <2>9. Survives(m[parts[4][1]], parts[4][2], KeysOf(parts))
    BY <2>1, <2>2, <2>3, <2>5, KindsSurvive
  <2>10. Survives(m[parts[5][1]], parts[5][2], KeysOf(parts))
    BY <2>1, <2>2, <2>3, <2>5, KindsSurvive
  <2>11. \A i \in DOMAIN parts : /\ Survives(m[parts[i][1]], parts[i][2], KeysOf(parts))
                                 /\ parts[i][2] = "captured" => i = Len(parts)
    BY <2>2, <2>3, <2>6, <2>7, <2>8, <2>9, <2>10
  <2>12. \A i, j \in DOMAIN parts : parts[i][1] = parts[j][1] => i = j
    BY <2>2, <2>3
  <2>13. m = [key \in KeysOf(parts) \cup {"type"} |-> m[key]]
    BY <2>1, <2>5
  <2>14. "type" \notin KeysOf(parts) /\ m.type \notin KeysOf(parts)
    BY <2>1, <2>5
  <2>15. Len(parts) \in Nat /\ DOMAIN parts = 1 .. Len(parts)
    BY <2>2
  <2>16. Readable(m, parts)
    BY <2>4, <2>11, <2>12, <2>13, <2>14, <2>15 DEF Readable
  <2>. QED  BY <2>16
<1>6. CASE m \in [type : {"game_ended"}, winner : Colors]
  <2>. DEFINE parts == <<<<"winner", "color">>>>
  <2>1. /\ m.type = "game_ended" /\ DOMAIN m = {"type", "winner"}
        /\ m = [key \in DOMAIN m |-> m[key]]
        /\ m["winner"] \in Colors
    BY <1>6
  <2>2. Len(parts) = 1 /\ DOMAIN parts = 1 .. 1 /\ 1 .. 1 = {1}
    OBVIOUS
  <2>3. /\ parts[1][1] = "winner" /\ parts[1][2] = "color"
    OBVIOUS
  <2>4. LayoutOf(m.type) = parts /\ m.type \in Types
    BY <1>1, <2>1
  <2>. HIDE DEF parts
  <2>5. KeysOf(parts) = {"winner"}
    BY <2>2, <2>3 DEF KeysOf
  <2>6. Survives(m[parts[1][1]], parts[1][2], KeysOf(parts))
    BY <2>1, <2>2, <2>3, <2>5, KindsSurvive
  <2>7. \A i \in DOMAIN parts : /\ Survives(m[parts[i][1]], parts[i][2], KeysOf(parts))
                                /\ parts[i][2] = "captured" => i = Len(parts)
    BY <2>2, <2>3, <2>6
  <2>8. \A i, j \in DOMAIN parts : parts[i][1] = parts[j][1] => i = j
    BY <2>2, <2>3
  <2>9. m = [key \in KeysOf(parts) \cup {"type"} |-> m[key]]
    BY <2>1, <2>5
  <2>10. "type" \notin KeysOf(parts) /\ m.type \notin KeysOf(parts)
    BY <2>1, <2>5
  <2>11. Len(parts) \in Nat /\ DOMAIN parts = 1 .. Len(parts)
    BY <2>2
  <2>12. Readable(m, parts)
    BY <2>4, <2>7, <2>8, <2>9, <2>10, <2>11 DEF Readable
  <2>. QED  BY <2>12
<1>. QED  BY <1>2, <1>3, <1>4, <1>5, <1>6 DEF HostMessages

\* On the boards the notation is made for, every message that is under way to
\* the other process reads back there as what the host has said.
THEOREM MessagesHold ==
    ASSUME Rows <= 8, Cols <= 8
    PROVE  Spec => []MessagesReadBack
<1>1. ShapeInv => MessagesReadBack
  <2>. SUFFICES ASSUME events \in Seq(HostMessages), NEW i \in DOMAIN events
                PROVE  Received(events[i]) = events[i]
    BY DEF ShapeInv, EventsTyped, MessagesReadBack
  <2>1. events[i] \in HostMessages
    OBVIOUS
  <2>2. PICK m \in HostMessages : m = events[i]
    BY <2>1
  <2>3. \E parts : Readable(m, parts)
    BY HostReadable
  <2>4. Received(m) = m
    BY <2>3, ReadsBack
  <2>. QED  BY <2>2, <2>4
<1>. QED  BY <1>1, ShapeInvAlways, PTL
=============================================================================

------------------------------ MODULE MCLobby ------------------------------
EXTENDS Lobby

\* The better player wins less.
Gains(ahead) == IF ahead > 0 THEN 8 ELSE 16

\* Two players who may play each other, one of them new; one who is too strong;
\* and one whose password nobody knows.
Players3 == [u \in Users |-> CASE u = "ann" -> Row(u, "secret", 1250)
                               [] u = "cid" -> Row(u, "secret", 1400)
                               [] u = "dan" -> Row(u, "other", 1200)
                               [] OTHER -> NoRow]

\* Blank lines before the name and after it, and an input that ends too early.
TypedLines == {<<"", u, "", "secret">> : u \in Users} \cup {<<"ann">>, <<"", "">>}

Order == <<"c1", "c2", "c3">>

\* Two pairs whose ratings keep them apart: the second pair may be matched while
\* the first one plays.
Order4 == <<"c1", "c2", "c3", "c4">>
Players4 == [u \in Users |-> Row(u, "secret", CASE u = "ann" -> 1250 [] u = "bob" -> 1200
                                               [] u = "cid" -> 1400 [] u = "dan" -> 1450)]
Named4 == [c1 |-> "ann", c2 |-> "bob", c3 |-> "cid", c4 |-> "dan"]
Typed4 == {<<u, "secret">> : u \in Users}

\* Each user starts one process, one after the other; the first one hosts; only the
\* second one ends; and nobody waits in the queue long enough to be given up.
SecondMatch ==
    /\ \A c \in Connections : client[c].user \in {NoUser, Named4[c]}
    /\ \A i, j \in DOMAIN Ids : i < j /\ ~At(Ids[j], "off") => ~At(Ids[i], "login")
    /\ \A c \in Connections \ {"c2"} : ~At(c, "gone")
    /\ host \in {"c1", NoConnection}
    /\ \A i \in DOMAIN queue : queue[i].age = 0
=============================================================================

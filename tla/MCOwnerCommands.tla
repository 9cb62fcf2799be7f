--------------------------- MODULE MCOwnerCommands ---------------------------
(* Two bots, chats and a client of the API, for TLC. *)
EXTENDS OwnerCommands

CONSTANTS b1, b2, query, dcc, boss, mate, nick1, nick2, letter1, letter2

MCCrew == <<b1, b2>>
MCPeer == [t \in Chats |-> b1]
MCOwners == <<boss, mate>>
MCNicks == <<nick1>>
MCLetters == <<letter1, letter2>>

Told(kind, what) == [kind |-> kind, arg |-> what]
Nicks == {Told("addnick", nick2), Told("delnick", nick2)}
Masters == {Told("addowner", mate), Told("delowner", mate)}
Others == {Told("listnicks", None), Told("join", None)}
ListsOf == {Told("listnicks", None), Told("listowners", None)}
Opposites == {Told("addnick", nick1), Told("delnick", nick1)}
Single == <<b1>>
Edits == Nicks \cup Opposites
MCCommands == Nicks \cup Masters \cup Others

Play(what, n, m) == [of |-> what, said |-> n, calls |-> m]
(* Any two commands; more about the nicks, the owners, and with a mass command. *)
MCPlays == {Play(MCCommands, 2, 0), Play(MCCommands, 1, 1), Play(MCCommands, 0, 2),
            Play(Nicks, 0, 3), Play(Masters, 0, 3), Play(Others \cup {Told("addnick", nick2)}, 1, 2)}
ListPlays == {Play(ListsOf, 2, 0)}
LagPlays == {Play(Opposites, 2, 0)}
LongPlays == {Play(Edits, 4, 1)}
=============================================================================

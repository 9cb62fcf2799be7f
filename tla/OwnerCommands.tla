---------------------------- MODULE OwnerCommands ----------------------------
(***************************************************************************)
(* What owners say, and how often and in which order it takes effect       *)
(* (internal/bot/commands.go, internal/dcc/dcc_cmd.go, the reactions of    *)
(* internal/bot/manager.go and the handlers of the API).  A command in a   *)
(* channel is heard by every bot, each in its own reading loop;            *)
(* CollectReactions sees to it that one of them obeys.  A command in a     *)
(* private message (a query) or a DCC chat is heard by one bot.  A client  *)
(* of the API calls the same operations without CollectReactions, whenever *)
(* it likes.                                                               *)
(*                                                                         *)
(* The operations themselves are those of NickList and OwnerList.          *)
(***************************************************************************)
EXTENDS Naturals, Sequences, FiniteSets

CONSTANTS
    Crew,           \* the bots, in the order of bm.bots
    Chats,          \* private conversations: queries and DCC chats
    Queries,        \* those that are held in private messages
    Peer,           \* Peer[t]: the bot that a chat is with
    Clients,        \* sessions of the API
    Names, Letters, StoredNicks, Rooms, MaxNicks,        \* see NickList
    Masks, StoredOwners, Room, MaxOwners, Torn,          \* see OwnerList
    Growth, MayFail, None,
    Boss,           \* the owner who speaks
    Commands,       \* what may be said
    Plays           \* bounds, each p with: p.of, the commands; p.said, how many are said in
                    \* the channel; p.calls, how many in chats and by clients, and restarts

VARIABLES
    nickHeap, slack, priority, all, nickFile, unsent, mirror,   \* see NickList
    ownerHeap, owners, start, ownerFile, view, job, failed,     \* see OwnerList
    play,           \* the bounds of this behaviour
    said,           \* the commands said in the channel
    heard,          \* heard[b]: how many of them b has taken up
    calls,          \* how many chats and clients have asked for, and restarts
    pc, doing,      \* where a thread is, and in which command
    holder,         \* who holds bm.reactionMutex
    recent,         \* bm.reactionRequests: for each key the command that left an entry
    stale,          \* the keys whose entry is older than five seconds
    timers,         \* timers[k]: goroutines of cleanupReactionRequest
    errorHandled,
    cooling,        \* the mass commands whose cooldown has not passed
    massed,         \* executions of mass commands after CanExecuteMassCommand, in this cooldown
    applied,        \* history: the positions in said of the commands that succeeded
    late,           \* history: the positions of those that some bot had not done with
                    \* when the next was said or their entry ran out
    crossed         \* history: of the nicks and the owners, those whose last edit crossed
                    \* another one, a client of the API being involved

Bots == {Crew[i] : i \in DOMAIN Crew}
Threads == Bots \cup Chats \cup Clients

NL == INSTANCE NickList
          WITH heap <- nickHeap, file <- nickFile, Stored <- StoredNicks, Editors <- Threads
OL == INSTANCE OwnerList
          WITH heap <- ownerHeap, file <- ownerFile, Stored <- StoredOwners, Editors <- Threads

Kinds == {"addnick", "delnick", "addowner", "delowner", "listnicks", "listowners", "join"}

ASSUME NickAssumption == NL!ListAssumption
ASSUME OwnerAssumption == OL!OwnerAssumption
ASSUME CommandAssumption ==
    \A c \in Commands : /\ c # None /\ c.kind \in Kinds
                        /\ c.kind \in {"addnick", "delnick"} => c.arg \in Names
                        /\ c.kind \in {"addowner", "delowner"} => c.arg \in Masks
ASSUME ThreadAssumption ==
    /\ Bots \cap Chats = {} /\ Bots \cap Clients = {} /\ Chats \cap Clients = {}
    /\ None \notin Threads /\ "channel" \notin Bots
    /\ Queries \subseteq Chats /\ Peer \in [Chats -> Bots]
ASSUME PlaysAssumption == Plays \subseteq [of : SUBSET Commands, said : Nat, calls : Nat]

nickVars == <<nickHeap, slack, priority, all, nickFile, unsent, mirror>>
ownerVars == <<ownerHeap, owners, start, ownerFile, view, job, failed>>
speech == <<play, said, heard, calls>>
reactions == <<recent, stale, timers, errorHandled>>
mass == <<cooling, massed>>
history == <<applied, late, crossed>>
vars == <<nickVars, ownerVars, speech, pc, doing, holder, reactions, mass, history>>

(* The key of a reaction: where the command was said, in the channel or to the
   nick of a bot, and the message that a success is answered with.  The two lists
   are their own answers. *)
Lists == {"listnicks", "listowners"}
KeyOf(place, c) == [where |-> place, text |-> IF c.kind \in Lists THEN None ELSE c]
Key(t) == KeyOf(IF t \in Bots THEN "channel" ELSE Peer[t], doing[t])
Keys == [where : {"channel"} \cup Bots, text : Commands \cup {None}]

TypeOK ==
    /\ NL!TypeOK /\ OL!TypeOK
    /\ play \in Plays
    /\ said \in Seq(Commands) /\ heard \in [Bots -> 0 .. Len(said)] /\ calls \in 0 .. play.calls
    /\ pc \in [Threads -> {"idle", "collect", "act", "announce", "persist", "ok", "error"}]
    /\ doing \in [Threads -> Commands \cup {None}]
    /\ holder \in Threads \cup {None}
    /\ recent \in [Keys -> Commands \cup {None}] /\ stale \subseteq Keys
    /\ timers \in [Keys -> Nat] /\ errorHandled \in BOOLEAN
    /\ cooling \subseteq {"join"} /\ massed \in Nat
    /\ applied \in Seq(Nat \ {0}) /\ late \subseteq DOMAIN said
    /\ crossed \subseteq {"nicks", "owners"}

Init ==
    /\ NL!Init /\ OL!Init
    /\ play \in Plays /\ said = <<>> /\ heard = [b \in Bots |-> 0] /\ calls = 0
    /\ pc = [t \in Threads |-> "idle"] /\ doing = [t \in Threads |-> None] /\ holder = None
    /\ recent = [k \in Keys |-> None] /\ stale = {} /\ timers = [k \in Keys |-> 0]
    /\ errorHandled = FALSE /\ cooling = {} /\ massed = 0 /\ applied = <<>> /\ late = {} /\ crossed = {}

(* An entry that is less than five seconds old. *)
Fresh(k) == recent[k] # None /\ k \notin stale

(* The commands that some bot has not done with. *)
Pending == {n \in DOMAIN said : \E b \in Bots : heard[b] < n \/ (heard[b] = n /\ pc[b] # "idle")}
(* The entry for k will not hold back who comes to its command from now on. *)
Forgets(k) == late' = late \cup {n \in Pending : Fresh(k) /\ KeyOf("channel", said[n]) = k}

Go(t, l) == pc' = [pc EXCEPT ![t] = l]

-----------------------------------------------------------------------------
(* What is said, and by whom it is taken up. *)

Say(c) ==
    /\ Len(said) < play.said /\ c \in play.of
    /\ said' = Append(said, c) /\ late' = late \cup Pending
    /\ UNCHANGED <<nickVars, ownerVars, play, heard, calls, pc, doing, holder, reactions, mass, applied,
                   crossed>>

(* Mutant: the time of a mass command is not noted. *)
CanExecuteMassCommandUnnoted(c) == "join" \notin cooling /\ UNCHANGED cooling

CanExecuteMassCommand(c) == "join" \notin cooling /\ cooling' = {"join"}

(* The owner is looked up in the list that the bot has. *)
Obeys(b) == \E i \in DOMAIN OL!Sees(b) : OL!Sees(b)[i] = Boss

(* HandleCommands, in the channel *)
Hear(b) ==
    /\ pc[b] = "idle" /\ heard[b] < Len(said)
    /\ heard' = [heard EXCEPT ![b] = @ + 1]
    /\ LET c == said[heard[b] + 1]
       IN  \/ /\ Obeys(b)
              /\ IF c.kind = "join" THEN CanExecuteMassCommand(c) ELSE UNCHANGED cooling
              /\ doing' = [doing EXCEPT ![b] = c] /\ Go(b, "collect")
           \/ /\ ~Obeys(b) \/ (c.kind = "join" /\ "join" \in cooling)
              /\ UNCHANGED <<cooling, doing, pc>>
    /\ UNCHANGED <<nickVars, ownerVars, play, said, calls, holder, reactions, massed, history>>

Begin(t, c, l) ==
    /\ pc[t] = "idle" /\ calls < play.calls /\ calls' = calls + 1 /\ c \in play.of
    /\ doing' = [doing EXCEPT ![t] = c] /\ Go(t, l)
    /\ UNCHANGED <<nickVars, ownerVars, play, said, heard, holder, reactions, massed, history>>

(* A bot heeds the queries of its owners; who has a DCC chat is one. *)
Chat(t, c) ==
    /\ t \in Chats /\ (t \in Queries => Obeys(Peer[t]))
    /\ Begin(t, c, "collect") /\ UNCHANGED cooling

ChatNicks(t, c) == c.kind \in {"addnick", "delnick"} /\ Chat(t, c)

(* In a goroutine of its own. *)
ChatOwners(t, c) == c.kind \in {"addowner", "delowner"} /\ Chat(t, c)

(* A DCC chat does not ask for the cooldown. *)
ChatMass(t, c) == c.kind = "join" /\ t \notin Queries /\ Chat(t, c)

(* A query does; its bot joins alone and answers without a reaction. *)
QueryMass(t, c) ==
    /\ t \in Queries /\ c.kind = "join" /\ pc[t] = "idle" /\ Obeys(Peer[t])
    /\ calls < play.calls /\ calls' = calls + 1 /\ c \in play.of
    /\ CanExecuteMassCommand(c) /\ massed' = massed + 1
    /\ UNCHANGED <<nickVars, ownerVars, play, said, heard, pc, doing, holder, reactions, history>>

(* A client's call acts at once. *)
CallNicks(t, c) ==
    /\ t \in Clients /\ c.kind \in {"addnick", "delnick"}
    /\ Begin(t, c, "act") /\ UNCHANGED cooling

CallOwners(t, c) ==
    /\ t \in Clients /\ c.kind \in {"addowner", "delowner"}
    /\ Begin(t, c, "act") /\ UNCHANGED cooling

CallMass(t, c) ==
    /\ t \in Clients /\ c.kind = "join" /\ CanExecuteMassCommand(c)
    /\ Begin(t, c, "act")

-----------------------------------------------------------------------------
(* CollectReactions *)

Ignore(t) ==
    /\ pc[t] = "collect" /\ holder = None
    /\ Fresh(Key(t))
    /\ Go(t, "idle")
    /\ UNCHANGED <<nickVars, ownerVars, speech, doing, holder, reactions, mass, history>>

(* Mutant: without bm.reactionMutex. *)
CollectUnlocked(t) ==
    /\ pc[t] = "collect" /\ ~Fresh(Key(t))
    /\ Go(t, "act")
    /\ UNCHANGED <<nickVars, ownerVars, speech, doing, holder, reactions, mass, history>>

Collect(t) ==
    /\ pc[t] = "collect" /\ holder = None /\ ~Fresh(Key(t))
    /\ holder' = t /\ Go(t, "act")
    /\ UNCHANGED <<nickVars, ownerVars, speech, doing, reactions, mass, history>>

(* Whether an edit crosses that of another thread, being or meeting a client's. *)
Crosses(t, list, others) ==
    crossed' = IF \E u \in others \ {t} : t \in Clients \/ u \in Clients
                 THEN crossed \cup {list} ELSE crossed \ {list}

(* The action fails at once, fails to write the file, or goes on to announce. *)
EditNicks(t) ==
    LET n == doing[t].arg
        done(edit) ==
          /\ edit
          /\ \/ unsent'[t] = None /\ Go(t, "error") /\ UNCHANGED crossed
             \/ /\ unsent'[t] # None /\ Go(t, "announce")
                /\ Crosses(t, "nicks", {u \in Threads : unsent[u] # None})
    IN  \/ doing[t].kind = "addnick" /\ done(NL!AddNick(t, n))
        \/ doing[t].kind = "delnick" /\ done(NL!RemoveNick(t, n))
        \/ /\ doing[t].kind = IF NL!Positions(priority, n) = {} THEN "delnick" ELSE "addnick"
           /\ Go(t, "error") /\ UNCHANGED <<nickVars, crossed>>

EditOwners(t) ==
    LET o == doing[t].arg
        done(edit) == /\ edit /\ Go(t, "persist")
                      /\ Crosses(t, "owners", {u \in Threads : job[u].pc # "idle"})
    IN  \/ doing[t].kind = "addowner" /\ done(OL!AddOwner(t, o))
        \/ doing[t].kind = "delowner" /\ done(OL!RemoveOwner(t, o))
        \/ /\ doing[t].kind = IF OL!Positions(o) = {} THEN "delowner" ELSE "addowner"
           /\ Go(t, "error") /\ UNCHANGED <<ownerVars, crossed>>

(* The list is said at once, by one bot. *)
TellList(t) == doing[t].kind \in Lists /\ Go(t, "ok")

(* Every bot joins; part and reconnect are alike. *)
MassCommand(t) ==
    /\ doing[t].kind = "join" /\ Go(t, "ok")
    /\ massed' = IF t \in Chats THEN massed ELSE massed + 1

Act(t) ==
    /\ pc[t] = "act"
    /\ \/ EditNicks(t) /\ UNCHANGED <<ownerVars, massed>>
       \/ EditOwners(t) /\ UNCHANGED <<nickVars, massed>>
       \/ TellList(t) /\ UNCHANGED <<nickVars, ownerVars, massed, crossed>>
       \/ MassCommand(t) /\ UNCHANGED <<nickVars, ownerVars, crossed>>
    /\ UNCHANGED <<speech, doing, holder, reactions, cooling, applied, late>>

NicksChanged(t) ==
    /\ pc[t] = "announce" /\ NL!NicksChanged(t) /\ Go(t, "ok")
    /\ UNCHANGED <<ownerVars, speech, doing, holder, reactions, mass, history>>

(* persistOwners *)
Persist(t) ==
    /\ pc[t] = "persist"
    /\ \/ OL!Truncate(t) /\ Go(t, IF job'[t].pc = "idle" THEN "error" ELSE "persist")
       \/ OL!Write(t) /\ UNCHANGED pc
       \/ OL!FanOut(t) /\ UNCHANGED pc
       \/ OL!OwnersChanged(t) /\ Go(t, "ok")
    /\ UNCHANGED <<nickVars, speech, doing, holder, reactions, mass, history>>

Release(t) == holder' = (IF t \in Clients THEN holder ELSE None) /\ Go(t, "idle")

(* Mutant: the entry is not saved. *)
SucceedUnsaved(t) ==
    /\ pc[t] = "ok" /\ Release(t)
    /\ applied' = IF t \in Bots THEN Append(applied, heard[t]) ELSE applied
    /\ UNCHANGED <<nickVars, ownerVars, speech, doing, reactions, mass, late, crossed>>

(* The answer, the entry and its timer. *)
Succeed(t) ==
    /\ pc[t] = "ok" /\ Release(t)
    /\ IF t \in Clients THEN UNCHANGED reactions
       ELSE /\ recent' = [recent EXCEPT ![Key(t)] = doing[t]]
            /\ stale' = stale \ {Key(t)}
            /\ timers' = [timers EXCEPT ![Key(t)] = @ + 1]
            /\ UNCHANGED errorHandled
    /\ applied' = IF t \in Bots THEN Append(applied, heard[t]) ELSE applied
    /\ UNCHANGED <<nickVars, ownerVars, speech, doing, mass, late, crossed>>

(* Mutant: nothing clears the flag after an error. *)
FailUncleared(t) ==
    /\ pc[t] = "error" /\ Release(t)
    /\ errorHandled' = (errorHandled \/ t \notin Clients)
    /\ UNCHANGED <<nickVars, ownerVars, speech, doing, mass, history, recent, stale, timers>>

(* One error is told, and no other until a timer has cleared the flag. *)
Fail(t) ==
    /\ pc[t] = "error" /\ Release(t)
    /\ IF t \in Clients \/ errorHandled THEN UNCHANGED <<timers, errorHandled>>
       ELSE /\ errorHandled' = TRUE
            /\ timers' = [timers EXCEPT ![Key(t)] = @ + 1]
    /\ UNCHANGED <<nickVars, ownerVars, speech, doing, mass, history, recent, stale>>

-----------------------------------------------------------------------------
(* Time. *)

Age(k) ==
    /\ Fresh(k) /\ stale' = stale \cup {k} /\ Forgets(k)
    /\ UNCHANGED <<nickVars, ownerVars, speech, pc, doing, holder, recent, timers, errorHandled,
                   mass, applied, crossed>>

(* cleanupReactionRequest: the timer of an older entry, or of an error, removes
   whatever entry there is. *)
Cleanup(k) ==
    /\ timers[k] > 0 /\ holder = None /\ (Fresh(k) => timers[k] > 1)
    /\ timers' = [timers EXCEPT ![k] = @ - 1]
    /\ recent' = [recent EXCEPT ![k] = None] /\ stale' = stale \ {k} /\ Forgets(k)
    /\ errorHandled' = FALSE
    /\ UNCHANGED <<nickVars, ownerVars, speech, pc, doing, holder, mass, applied, crossed>>

(* The cooldown is longer than the execution of a mass command. *)
CooldownOver ==
    /\ cooling # {} /\ \A t \in Threads : pc[t] # "idle" => doing[t].kind # "join"
    /\ cooling' = {} /\ massed' = 0
    /\ UNCHANGED <<nickVars, ownerVars, speech, pc, doing, holder, reactions, history>>

(* The process ends, in whatever it was doing, and starts again. *)
Restart ==
    /\ calls < play.calls /\ calls' = calls + 1
    /\ NL!Restart /\ OL!Restart
    /\ heard' = [b \in Bots |-> Len(said)]
    /\ pc' = [t \in Threads |-> "idle"] /\ doing' = [t \in Threads |-> None] /\ holder' = None
    /\ recent' = [k \in Keys |-> None] /\ stale' = {} /\ timers' = [k \in Keys |-> 0]
    /\ errorHandled' = FALSE /\ cooling' = {} /\ massed' = 0 /\ crossed' = {}
    /\ UNCHANGED <<play, said, applied, late>>

-----------------------------------------------------------------------------
Step(t) == Ignore(t) \/ Collect(t) \/ Act(t) \/ NicksChanged(t) \/ Persist(t)
           \/ Succeed(t) \/ Fail(t)

Next ==
    \/ \E c \in Commands :
          \/ Say(c)
          \/ \E t \in Threads : \/ ChatNicks(t, c) \/ ChatOwners(t, c) \/ ChatMass(t, c)
                               \/ QueryMass(t, c)
                               \/ CallNicks(t, c) \/ CallOwners(t, c) \/ CallMass(t, c)
    \/ \E b \in Bots : Hear(b)
    \/ \E t \in Threads : Step(t)
    \/ \E k \in Keys : Age(k) \/ Cleanup(k)
    \/ CooldownOver \/ Restart

Spec == Init /\ [][Next]_vars

(* The reading loops, the goroutines and the clock; owners owe nothing. *)
Fairness ==
    /\ \A b \in Bots : WF_vars(Hear(b))
    /\ \A t \in Threads : WF_vars(Step(t))
    /\ \A k \in Keys : WF_vars(Age(k)) /\ WF_vars(Cleanup(k))

FairSpec == Spec /\ Fairness

-----------------------------------------------------------------------------
(* What NickList and OwnerList promise to a single editor holds for all bots,
   chats and clients together: the lists agree, and the panel, the files and the
   bots follow.  Edits through CollectReactions exclude one another; those of the
   API do not, and what was announced, written or handed out last may then be an
   older list, until an edit that no other crosses. *)
CombinedLists == NL!CombinedLists
PanelInStep == "nicks" \in crossed \/ NL!PanelInStep
OwnersOnDisk == "owners" \in crossed \/ OL!OwnersOnDisk
BotsInStep == "owners" \in crossed \/ OL!BotsInStep

(* However many bots hear a command in the channel, none succeeds with it after
   one has succeeded with it or with a later one (CollectReactions), unless some
   bot had not done with it when the next was said, or when its entry ran out. *)
AppliedInOrder == \A i, j \in DOMAIN applied : i < j => applied[i] < applied[j] \/ applied[j] \in late

(* By hand: the same without the conditions. *)
AgreeAlways == NL!Agree
DiskAlways == OL!OwnersOnDisk
InOrderAlways == \A i, j \in DOMAIN applied : i < j => applied[i] < applied[j]

(* Bots and clients together execute a mass command once per cooldown
   (CanExecuteMassCommand). *)
MassOnce == massed <= 1

(* An error that was told silences all others, but not for good
   (cleanupReactionRequest). *)
ErrorsToldAgain == errorHandled ~> ~errorHandled

(* A bot passes over a command only because that very command has just been
   executed (CollectReactions, "Ignore duplicates within 5 seconds").  The two
   lists have the same key. *)
OnlyDuplicatesIgnored ==
    [][\A t \in Threads : pc[t] = "collect" /\ pc'[t] = "idle" => recent[Key(t)] = doing[t]]_vars
=============================================================================

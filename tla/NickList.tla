------------------------------- MODULE NickList -------------------------------
(***************************************************************************)
(* The nick lists of NickManager (internal/nickmanager/nickmanager.go) and *)
(* how they change: LoadNicks at the start, AddNick and RemoveNick from    *)
(* the API and from IRC commands, the file data/nicks.json, and the        *)
(* nicks.changed event, sent after nm.mutex is given up.                   *)
(***************************************************************************)
EXTENDS Slices, FiniteSets

CONSTANTS
  Names,     \* nicks that may be listed, letters among them
  Letters,   \* the single letters that LoadNicks adds
  Stored,    \* the list in the file at the start
  Rooms,     \* spare slots the JSON decoder may leave behind the list it read
  Growth,    \* spare slots of an array that append allocates
  Editors,   \* goroutines that call AddNick and RemoveNick
  MayFail,   \* whether writing the file may fail
  MaxNicks,  \* bound: length of the priority list
  None       \* no list, no nick

Spare(n) == [i \in 1 .. n |-> None]
Lists == UNION {[1 .. n -> Names] : n \in 0 .. MaxNicks}

ListAssumption ==
  /\ Letters \in Seq(Names) /\ Stored \in Lists /\ None \notin Lists
  /\ Rooms \subseteq Nat /\ Growth \in Nat /\ MaxNicks \in Nat
  /\ MayFail \in BOOLEAN

VARIABLES
  heap,       \* the backing arrays
  slack,      \* spare slots that the last decoding left
  priority,   \* nm.priorityNicks, a slice
  all,        \* nm.nicksToCatch, a slice
  file,       \* data/nicks.json
  unsent,     \* the snapshot an editor has yet to pass to NicksChanged
  mirror      \* the list of a panel that follows nicks.changed

vars == <<heap, slack, priority, all, file, unsent, mirror>>

TypeOK ==
  /\ \A s \in {priority, all} : s.at \in DOMAIN heap /\ s.len \in 0 .. Capacity(heap, s)
  /\ \A s \in {priority, all} : \A i \in 1 .. s.len : heap[s.at][i] \in Names
  /\ priority.len <= MaxNicks /\ slack \in Rooms
  /\ file \in Lists
  /\ unsent \in [Editors -> {None} \cup Lists]
  /\ mirror \in Lists

Priority == Contents(heap, priority)
All == Contents(heap, all)

\* LoadNicks: priorityNicks is what the decoder made, and
\* nicksToCatch = append(priorityNicks, secondaryNicks...).
Decoded(list) == [at |-> 1, len |-> Len(list)]
Combined(list, room) ==
  AppendTo(<<list \o Spare(room)>>, Decoded(list), Letters, Spare(Growth))

Init ==
  /\ slack \in Rooms
  /\ heap = Combined(Stored, slack).heap /\ all = Combined(Stored, slack).slice
  /\ priority = Decoded(Stored)
  /\ file = Stored
  /\ unsent = [e \in Editors |-> None]
  /\ mirror = Stored

Positions(s, n) == {i \in 1 .. s.len : heap[s.at][i] = n}
First(positions) == CHOOSE i \in positions : \A j \in positions : i <= j

\* Mutant: the event is sent although the file could not be written.
SaveTellsAnyway(e) ==
  /\ file' = Priority' \/ (MayFail /\ UNCHANGED file)
  /\ unsent' = [unsent EXCEPT ![e] = Priority']

\* saveNicksToFile, still under nm.mutex.  An error is returned to the caller,
\* who changes nothing back; NicksChanged is left to the editor when it is not.
Save(e) ==
  \/ /\ file' = Priority'
     /\ unsent' = [unsent EXCEPT ![e] = Priority']
  \/ /\ MayFail
     /\ UNCHANGED <<file, unsent>>

AddNick(e, n) ==
  /\ unsent[e] = None /\ priority.len < MaxNicks
  /\ Positions(priority, n) = {}
  /\ LET p == AppendTo(heap, priority, <<n>>, Spare(Growth))
         a == AppendTo(p.heap, all, <<n>>, Spare(Growth))
     IN  heap' = a.heap /\ priority' = p.slice /\ all' = a.slice
  /\ Save(e)
  /\ UNCHANGED <<slack, mirror>>

\* Mutant: the position in the priority list is used for both lists.
RemoveNickSamePosition(e, n) ==
  /\ unsent[e] = None /\ Positions(priority, n) # {}
  /\ LET i == First(Positions(priority, n))
         p == DeleteAt(heap, priority, i)
         a == DeleteAt(p.heap, all, i)
     IN  heap' = a.heap /\ priority' = p.slice /\ all' = a.slice
  /\ Save(e)
  /\ UNCHANGED <<slack, mirror>>

\* The search in nicksToCatch runs after the priority list was shifted.
RemoveNick(e, n) ==
  /\ unsent[e] = None /\ Positions(priority, n) # {}
  /\ LET p == DeleteAt(heap, priority, First(Positions(priority, n)))
         left == {i \in 1 .. all.len : p.heap[all.at][i] = n}
     IN  /\ priority' = p.slice
         /\ IF left = {} THEN heap' = p.heap /\ UNCHANGED all
            ELSE LET a == DeleteAt(p.heap, all, First(left))
                 IN  heap' = a.heap /\ all' = a.slice
  /\ Save(e)
  /\ UNCHANGED <<slack, mirror>>

NicksChanged(e) ==
  /\ unsent[e] # None
  /\ mirror' = unsent[e]
  /\ unsent' = [unsent EXCEPT ![e] = None]
  /\ UNCHANGED <<heap, slack, priority, all, file>>

\* The process ends and starts again; the panel asks for the list anew.
Restart ==
  /\ slack' \in Rooms
  /\ heap' = Combined(file, slack').heap /\ all' = Combined(file, slack').slice
  /\ priority' = Decoded(file)
  /\ unsent' = [e \in Editors |-> None]
  /\ mirror' = file
  /\ UNCHANGED file

Next ==
  \/ \E e \in Editors :
       \/ NicksChanged(e)
       \/ \E n \in Names : AddNick(e, n) \/ RemoveNick(e, n)
  \/ Restart

Spec == Init /\ [][Next]_vars

-----------------------------------------------------------------------------
Occurrences(list, n) == Cardinality({i \in DOMAIN list : list[i] = n})

\* The nicks to catch are, counted with repetition, those of the priority list
\* and the letters, whatever was added and removed: a removed nick is no target
\* any more, no letter is lost.  No edit of one list disturbs the other, provided
\* that the decoder left too little room for the letters: with more, append
\* builds nicksToCatch in the array of priorityNicks.
Agree ==
  \A n \in Names : Occurrences(All, n) = Occurrences(Priority, n) + Occurrences(Letters, n)
CombinedLists == slack < Len(Letters) => Agree

\* A panel that takes over the list of every nicks.changed event ends up with
\* the list that was saved, once no editor has an event left to send.
PanelInStep == (\A e \in Editors : unsent[e] = None) => mirror = file
=============================================================================

------------------------------ MODULE OwnerList ------------------------------
(***************************************************************************)
(* The list of owners in BotManager (internal/bot/manager.go): AddOwner    *)
(* and RemoveOwner change it under bm.mutex and take a snapshot, which     *)
(* persistOwners, no longer under the mutex, writes to configs/owners.json,*)
(* hands to the bots one by one and announces as owners.changed.           *)
(***************************************************************************)
EXTENDS Slices, FiniteSets, Functions

CONSTANTS
  Masks,      \* owner masks
  Stored,     \* the list in the file at the start
  Room,       \* spare slots behind the list the decoder made
  Growth,     \* spare slots of an array that append allocates
  Crew,       \* the bots in the order of bm.bots
  Editors,    \* goroutines that call AddOwner and RemoveOwner
  MayFail,    \* whether writing the file may fail
  MaxOwners,  \* bound: length of the list
  None,       \* no list
  Torn        \* a file that holds no list

Bots == Range(Crew)
Lists == UNION {[1 .. n -> Masks] : n \in 0 .. MaxOwners}

OwnerAssumption ==
  /\ Crew \in Seq(Bots)
  /\ Stored \in Lists /\ None \notin Lists
  /\ Room \in Nat /\ Growth \in Nat /\ MaxOwners \in Nat
  /\ MayFail \in BOOLEAN

VARIABLES
  heap,     \* the backing arrays
  owners,   \* bm.owners.Owners, a slice
  start,    \* the slice that every bot was given by NewBotManager
  file,     \* configs/owners.json: a list, None when truncated, or Torn
  view,     \* b.owners: a snapshot, or None for start
  job,      \* persistOwners of every editor: its step, snapshot and next bot
  failed    \* whether the last call returned a write error

vars == <<heap, owners, start, file, view, job, failed>>

Idle == [pc |-> "idle", list |-> <<>>, bot |-> 1]

TypeOK ==
  /\ \A s \in {owners, start} : s.at \in DOMAIN heap /\ s.len \in 0 .. Capacity(heap, s)
  /\ Contents(heap, owners) \in Lists
  /\ file \in Lists \cup {None, Torn}
  /\ view \in [Bots -> Lists \cup {None}]
  /\ job \in [Editors -> [pc : {"idle", "truncate", "write", "fan", "announce"},
                          list : Lists, bot : 1 .. Len(Crew) + 1]]
  /\ failed \in BOOLEAN

Owners == Contents(heap, owners)
Sees(b) == IF view[b] = None THEN Contents(heap, start) ELSE view[b]

\* What LoadOwners makes of a file.
Decoded(list) == list \o [i \in 1 .. Room |-> None]

Init ==
  /\ heap = <<Decoded(Stored)>>
  /\ owners = [at |-> 1, len |-> Len(Stored)] /\ start = owners
  /\ file = Stored
  /\ view = [b \in Bots |-> None]
  /\ job = [e \in Editors |-> Idle]
  /\ failed = FALSE

Positions(m) == {i \in 1 .. owners.len : heap[owners.at][i] = m}

\* prepareOwnersSnapshotLocked
Snapshot(e) == job' = [job EXCEPT ![e] = [pc |-> "truncate", list |-> Owners', bot |-> 1]]

AddOwner(e, m) ==
  /\ job[e].pc = "idle" /\ owners.len < MaxOwners
  /\ Positions(m) = {}
  /\ LET added == AppendTo(heap, owners, <<m>>, [i \in 1 .. Growth |-> None])
     IN  heap' = added.heap /\ owners' = added.slice
  /\ Snapshot(e)
  /\ UNCHANGED <<start, file, view, failed>>

RemoveOwner(e, m) ==
  /\ job[e].pc = "idle"
  /\ \E i \in Positions(m) :
       /\ \A j \in Positions(m) : i <= j
       /\ LET left == DeleteAt(heap, owners, i) IN heap' = left.heap /\ owners' = left.slice
  /\ Snapshot(e)
  /\ UNCHANGED <<start, file, view, failed>>

\* Mutant: an error of os.WriteFile goes unnoticed.
TruncateUnchecked(e) ==
  /\ job[e].pc = "truncate"
  /\ \/ file' = None /\ job' = [job EXCEPT ![e].pc = "write"]
     \/ MayFail /\ job' = [job EXCEPT ![e].pc = "fan"] /\ UNCHANGED file
  /\ UNCHANGED <<heap, owners, start, view, failed>>

\* persistOwners.  os.WriteFile truncates the file and then writes from its
\* start: after a longer list was written in between, its end stays behind.
Truncate(e) ==
  /\ job[e].pc = "truncate"
  /\ \/ /\ file' = None
        /\ job' = [job EXCEPT ![e].pc = "write"]
        /\ UNCHANGED failed
     \/ /\ MayFail
        /\ job' = [job EXCEPT ![e] = Idle]
        /\ failed' = TRUE
        /\ UNCHANGED file
  /\ UNCHANGED <<heap, owners, start, view>>

Write(e) ==
  /\ job[e].pc = "write"
  /\ file' = IF file = None THEN job[e].list
             ELSE IF file = Torn THEN Torn
             ELSE IF Len(file) <= Len(job[e].list) THEN job[e].list
             ELSE Torn
  /\ job' = [job EXCEPT ![e].pc = "fan"]
  /\ UNCHANGED <<heap, owners, start, view, failed>>

\* Mutant: the last bot is left out.
FanOutShort(e) ==
  /\ job[e].pc = "fan"
  /\ IF job[e].bot < Len(Crew)
     THEN /\ view' = [view EXCEPT ![Crew[job[e].bot]] = job[e].list]
          /\ job' = [job EXCEPT ![e].bot = @ + 1]
     ELSE /\ job' = [job EXCEPT ![e].pc = "announce"]
          /\ UNCHANGED view
  /\ UNCHANGED <<heap, owners, start, file, failed>>

\* SetOwnerList of the next bot of the snapshot of bm.bots.
FanOut(e) ==
  /\ job[e].pc = "fan"
  /\ IF job[e].bot <= Len(Crew)
     THEN /\ view' = [view EXCEPT ![Crew[job[e].bot]] = job[e].list]
          /\ job' = [job EXCEPT ![e].bot = @ + 1]
     ELSE /\ job' = [job EXCEPT ![e].pc = "announce"]
          /\ UNCHANGED view
  /\ UNCHANGED <<heap, owners, start, file, failed>>

\* The event tells the panel; then the call returns.
OwnersChanged(e) ==
  /\ job[e].pc = "announce"
  /\ failed' = FALSE
  /\ job' = [job EXCEPT ![e] = Idle]
  /\ UNCHANGED <<heap, owners, start, file, view>>

\* The process ends and starts again, provided that it can read the file.
Restart ==
  /\ file \in Lists
  /\ heap' = <<Decoded(file)>>
  /\ owners' = [at |-> 1, len |-> Len(file)] /\ start' = owners'
  /\ view' = [b \in Bots |-> None]
  /\ job' = [e \in Editors |-> Idle] /\ failed' = FALSE
  /\ UNCHANGED file

Next ==
  \/ Restart
  \/ \E e \in Editors :
       \/ Truncate(e) \/ Write(e) \/ FanOut(e) \/ OwnersChanged(e)
       \/ \E m \in Masks : AddOwner(e, m) \/ RemoveOwner(e, m)

Spec == Init /\ [][Next]_vars

-----------------------------------------------------------------------------
Quiet == \A e \in Editors : job[e].pc = "idle"

\* Once every call has returned, the last of them without an error, the file
\* holds the list that is in force.
OwnersOnDisk == Quiet /\ ~failed => file = Owners

\* ... and every bot checks commands against that list.
BotsInStep == Quiet /\ ~failed => \A b \in Bots : Range(Sees(b)) = Range(Owners)
=============================================================================

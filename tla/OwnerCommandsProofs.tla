------------------------- MODULE OwnerCommandsProofs -------------------------
(***************************************************************************)
(* What OwnerCommands promises, for any bots, chats, clients, lists and    *)
(* commands, whenever owners, clients and the clock act.                   *)
(*                                                                         *)
(* The state has its type; bm.reactionMutex excludes the bots and the      *)
(* chats from one another; a mass command is executed once per cooldown;   *)
(* panel, files and bots follow the lists, an edit that no client's        *)
(* crosses making good what crossed before; commands succeed in order, but *)
(* for those that some bot was late with; and the two lists of nicks agree *)
(* when they have arrays of their own.                                     *)
(***************************************************************************)
EXTENDS OwnerCommands, Slices, FiniteSetTheorems, WellFoundedInduction, TLAPS

-----------------------------------------------------------------------------
(* Slices. *)

HeapOf(heap, W) == heap \in Seq(Seq(W))
Good(heap, s, V) ==
    /\ s \in [at : Nat, len : Nat] /\ s.at \in DOMAIN heap /\ s.len <= Len(heap[s.at])
    /\ \A i \in 1 .. s.len : heap[s.at][i] \in V

Without(list, i) == [j \in 1 .. Len(list) - 1 |-> IF j < i THEN list[j] ELSE list[j + 1]]

-----------------------------------------------------------------------------
(* TypeOK by parts. *)

NickSlots == Names \cup {None}
MaskSlots == Masks \cup {None}
Where == {"idle", "collect", "act", "announce", "persist", "ok", "error"}
Jobs == [pc : {"idle", "truncate", "write", "fan", "announce"}, list : OL!Lists, bot : 1 .. Len(Crew) + 1]

NickTyped ==
    /\ HeapOf(nickHeap, NickSlots)
    /\ Good(nickHeap, priority, Names) /\ Good(nickHeap, all, Names)
    /\ priority.len <= MaxNicks /\ slack \in Rooms
    /\ nickFile \in NL!Lists /\ unsent \in [Threads -> {None} \cup NL!Lists] /\ mirror \in NL!Lists
OwnerTyped ==
    /\ HeapOf(ownerHeap, MaskSlots)
    /\ Good(ownerHeap, owners, Masks) /\ Good(ownerHeap, start, Masks)
    /\ owners.len <= MaxOwners
    /\ ownerFile \in OL!Lists \cup {None, Torn} /\ view \in [Bots -> OL!Lists \cup {None}]
    /\ job \in [Threads -> Jobs] /\ failed \in BOOLEAN
SpeechTyped ==
    /\ play \in Plays /\ said \in Seq(Commands)
    /\ heard \in [Bots -> 0 .. Len(said)] /\ calls \in 0 .. play.calls
ThreadTyped ==
    /\ pc \in [Threads -> Where] /\ doing \in [Threads -> Commands \cup {None}]
    /\ holder \in Threads \cup {None}
ReactTyped ==
    /\ recent \in [Keys -> Commands \cup {None}] /\ stale \subseteq Keys
    /\ timers \in [Keys -> Nat] /\ errorHandled \in BOOLEAN
MassTyped == cooling \subseteq {"join"} /\ massed \in Nat
HistoryTyped ==
    applied \in Seq(Nat \ {0}) /\ late \subseteq DOMAIN said /\ crossed \subseteq {"nicks", "owners"}

\* A thread at work is at work on a command, and a bot on one that it heard.
Occupied ==
    \A t \in Threads : pc[t] # "idle" => doing[t] \in Commands /\ (t \in Bots => heard[t] > 0)

Typed == /\ NickTyped /\ OwnerTyped /\ SpeechTyped /\ ThreadTyped /\ ReactTyped /\ MassTyped /\ HistoryTyped
         /\ Occupied

-----------------------------------------------------------------------------
(* The reaction mutex, and where a thread is in the list that it edits. *)

AtWork == {"act", "announce", "persist", "ok", "error"}
Working(t) == pc[t] \in AtWork
Locked ==
    /\ \A t \in Threads \ Clients : Working(t) <=> holder = t
    /\ \A t \in Clients : pc[t] # "collect" /\ holder # t
    /\ \A t \in Threads : /\ unsent[t] # None <=> pc[t] = "announce"
                          /\ job[t].pc # "idle" <=> pc[t] = "persist"

(* A mass command that may be executed: the cooldown has begun, nobody else
   may, nobody did. *)
Granted(t) == t \notin Chats /\ pc[t] \in {"collect", "act"} /\ doing[t].kind = "join"
Rationed ==
    /\ massed <= 1 /\ (cooling = {} => massed = 0)
    /\ \A t \in Threads : Granted(t) => massed = 0 /\ "join" \in cooling
    /\ \A t, u \in Threads : Granted(t) /\ Granted(u) => t = u

Followed ==
    /\ \A t \in Threads : unsent[t] # None => unsent[t] = nickFile
    /\ (\A t \in Threads : unsent[t] = None) => mirror = nickFile

JobFits(t) ==
    /\ job[t].pc # "idle" => job[t].list = OL!Owners
    /\ job[t].pc \in {"truncate", "write"} => job[t].bot = 1
    /\ job[t].pc = "write" => ownerFile = None
    /\ job[t].pc \in {"fan", "announce"} => /\ ownerFile = OL!Owners
                                           /\ \A i \in 1 .. job[t].bot - 1 : view[Crew[i]] = OL!Owners
    /\ job[t].pc = "announce" => job[t].bot = Len(Crew) + 1
Persisted ==
    /\ \A t \in Threads : JobFits(t)
    /\ OL!Quiet /\ ~failed =>
          /\ ownerFile = OL!Owners
          /\ \/ \A b \in Bots : view[b] = OL!Owners
             \/ start = owners /\ \A b \in Bots : view[b] = None

(* The two lists of nicks have arrays of their own. *)
Apart == priority.at # all.at


\* A concatenation by its elements.
LEMMA ConcatFacts ==
    ASSUME NEW V, NEW x \in Seq(V), NEW y \in Seq(V)
    PROVE  /\ x \o y \in Seq(V) /\ Len(x \o y) = Len(x) + Len(y) /\ DOMAIN (x \o y) = 1 .. Len(x) + Len(y)
           /\ \A i \in 1 .. Len(x) : (x \o y)[i] = x[i]
           /\ \A i \in Len(x) + 1 .. Len(x) + Len(y) : (x \o y)[i] = y[i - Len(x)]
  OBVIOUS

\* Sequences of the same length with the same elements.
LEMMA SameSequence ==
    ASSUME NEW V, NEW x \in Seq(V), NEW y \in Seq(V), Len(x) = Len(y), \A i \in 1 .. Len(x) : x[i] = y[i] PROVE x = y
<1>1. x = [i \in 1 .. Len(x) |-> x[i]] /\ y = [i \in 1 .. Len(y) |-> y[i]]
  OBVIOUS
<1> QED
  BY <1>1

\* What a slice shows of its array.
LEMMA ContentsFacts ==
    ASSUME NEW V, NEW W, NEW h, HeapOf(h, W), NEW s, Good(h, s, V)
    PROVE  /\ Contents(h, s) \in Seq(V) /\ Len(Contents(h, s)) = s.len /\ DOMAIN Contents(h, s) = 1 .. s.len
           /\ \A i \in 1 .. s.len : Contents(h, s)[i] = h[s.at][i]
<1> DEFINE a == h[s.at]
<1>1. a \in Seq(W) /\ s.len \in Nat /\ s.len <= Len(a) /\ \A i \in 1 .. s.len : a[i] \in V
  BY DEF Good, HeapOf
<1>2. Contents(h, s) = SubSeq(a, 1, s.len)
  BY DEF Contents
<1> HIDE DEF a
<1>3. SubSeq(a, 1, s.len) = [i \in 1 .. s.len |-> a[i]]
  BY <1>1
<1>4. [i \in 1 .. s.len |-> a[i]] \in Seq(V) /\ Len([i \in 1 .. s.len |-> a[i]]) = s.len
  BY <1>1
<1> QED
  BY <1>2, <1>3, <1>4 DEF a

\* append(s, vals...): the other slices keep their type, and those of other
\* arrays what they show.
LEMMA AppendFacts ==
    ASSUME NEW V, NEW W, V \subseteq W, NEW h, HeapOf(h, W), NEW s, Good(h, s, V),
           NEW vals \in Seq(V), NEW spare \in Seq(W), NEW r, r = AppendTo(h, s, vals, spare)
    PROVE  /\ HeapOf(r.heap, W) /\ Good(r.heap, r.slice, V) /\ r.slice.len = s.len + Len(vals)
           /\ Contents(r.heap, r.slice) = Contents(h, s) \o vals
           /\ \A u : Good(h, u, V) => /\ Good(r.heap, u, V)
                                      /\ u.at # s.at => Contents(r.heap, u) = Contents(h, u) /\ r.slice.at # u.at
<1> DEFINE a == h[s.at]
           k == s.len
           n == s.len + Len(vals)
           c == Contents(h, s)
<1>1. /\ s.at \in DOMAIN h /\ a \in Seq(W) /\ k \in Nat /\ k <= Len(a) /\ \A i \in 1 .. k : a[i] \in V
      /\ Len(vals) \in Nat /\ n \in Nat /\ s.at \in Nat /\ Len(a) \in Nat /\ DOMAIN a = 1 .. Len(a)
  BY DEF Good, HeapOf
<1>2. c \in Seq(V) /\ Len(c) = k /\ \A i \in 1 .. k : c[i] = a[i]
  BY ContentsFacts
<1> HIDE DEF c
<1>3. /\ c \o vals \in Seq(V) /\ Len(c \o vals) = n
      /\ \A i \in 1 .. k : (c \o vals)[i] = a[i]
      /\ \A i \in k + 1 .. n : (c \o vals)[i] = vals[i - k]
  <2>1. /\ c \o vals \in Seq(V) /\ Len(c \o vals) = Len(c) + Len(vals)
        /\ \A i \in 1 .. Len(c) : (c \o vals)[i] = c[i]
        /\ \A i \in Len(c) + 1 .. Len(c) + Len(vals) : (c \o vals)[i] = vals[i - Len(c)]
    BY <1>2, ConcatFacts
  <2> QED
    BY <1>2, <2>1
<1>4. n > Len(a) \/ n <= Len(a)
  BY <1>1
<1>5. CASE n <= Len(a)
  <2> DEFINE b == [i \in DOMAIN a |-> IF k < i /\ i <= n THEN vals[i - k] ELSE a[i]]
             g == [h EXCEPT ![s.at] = b]
  <2>1. r = [heap |-> g, slice |-> [at |-> s.at, len |-> n]]
    BY <1>5 DEF AppendTo, Capacity
  <2>2. \A i \in DOMAIN a : k < i /\ i <= n => i - k \in 1 .. Len(vals) /\ vals[i - k] \in V
    BY <1>1
  <2>3. b \in Seq(W) /\ Len(b) = Len(a) /\ \A i \in DOMAIN a : b[i] = IF k < i /\ i <= n THEN vals[i - k] ELSE a[i]
    <3>1. \A i \in DOMAIN a : b[i] \in W
      BY <1>1, <2>2
    <3>2. b \in [1 .. Len(a) -> W]
      BY <1>1, <3>1
    <3> QED
      BY <1>1, <3>2
  <2> HIDE DEF b
  <2>4. HeapOf(g, W) /\ DOMAIN g = DOMAIN h /\ g[s.at] = b /\ \A x \in DOMAIN h : x # s.at => g[x] = h[x]
    BY <1>1, <2>3 DEF HeapOf
  <2> HIDE DEF g
  <2>5. r.heap = g /\ r.slice = [at |-> s.at, len |-> n] /\ r.slice.at = s.at /\ r.slice.len = n
    BY <2>1
  <2>6. \A i \in 1 .. n : i \in DOMAIN a
    BY <1>1, <1>5
  <2>7. \A i \in 1 .. n : b[i] = (c \o vals)[i]
    <3> DEFINE d == c \o vals
    <3> SUFFICES ASSUME NEW i \in 1 .. n PROVE b[i] = d[i]
      OBVIOUS
    <3>1. /\ i \in DOMAIN a /\ b[i] = IF k < i /\ i <= n THEN vals[i - k] ELSE a[i]
          /\ i \in 1 .. k => d[i] = a[i]
          /\ i \in k + 1 .. n => d[i] = vals[i - k]
      BY <1>3, <2>3, <2>6
    <3>2. (i \in 1 .. k /\ ~(k < i)) \/ (i \in k + 1 .. n /\ k < i /\ i <= n)
      BY <1>1
    <3> HIDE DEF d, n, k, a
    <3> QED
      BY <3>1, <3>2
  <2>8. \A i \in 1 .. n : b[i] \in V
    <3> DEFINE d == c \o vals
    <3>1. d \in Seq(V) /\ Len(d) = n /\ \A i \in 1 .. n : b[i] = d[i]
      BY <1>3, <2>7
    <3> HIDE DEF d, n
    <3> QED
      BY <3>1
  <2>9. Good(g, r.slice, V)
    BY <1>1, <1>5, <2>3, <2>4, <2>5, <2>8 DEF Good
  <2>10. Contents(g, r.slice) = c \o vals
    <3>1. /\ Contents(g, r.slice) \in Seq(V) /\ Len(Contents(g, r.slice)) = n
          /\ \A i \in 1 .. n : Contents(g, r.slice)[i] = b[i]
      BY <2>4, <2>5, <2>9, ContentsFacts
    <3> DEFINE d == c \o vals
               e == Contents(g, r.slice)
    <3>2. d \in Seq(V) /\ Len(d) = n /\ e \in Seq(V) /\ Len(e) = n /\ \A i \in 1 .. n : e[i] = d[i]
      BY <1>3, <2>7, <3>1
    <3> HIDE DEF d, e, n
    <3>3. e = d
      BY <3>2, SameSequence
    <3> QED
      BY <3>3 DEF d, e
  <2>11. ASSUME NEW u, Good(h, u, V)
         PROVE  Good(g, u, V) /\ (u.at # s.at => Contents(g, u) = Contents(h, u) /\ r.slice.at # u.at)
    <3>1. CASE u.at = s.at
      <4>1. \A i \in 1 .. u.len : i \in DOMAIN a /\ a[i] \in V
        BY <1>1, <2>11, <3>1 DEF Good
      <4>2. \A i \in 1 .. u.len : b[i] \in V
        BY <2>2, <2>3, <4>1
      <4> QED
        BY <2>3, <2>4, <2>11, <3>1, <4>2 DEF Good
    <3>2. CASE u.at # s.at
      BY <2>4, <2>5, <2>11, <3>2 DEF Good, Contents
    <3> QED
      BY <3>1, <3>2
  <2> QED
    BY <2>4, <2>5, <2>9, <2>10, <2>11 DEF c
<1>6. CASE n > Len(a)
  <2> DEFINE b == c \o vals \o spare
             g == Append(h, b)
             m == Len(h) + 1
  <2>1. r = [heap |-> g, slice |-> [at |-> m, len |-> n]]
    BY <1>1, <1>6 DEF AppendTo, Capacity, c
  <2>2. b \in Seq(W) /\ Len(b) >= n /\ \A i \in 1 .. n : b[i] = (c \o vals)[i]
    <3> DEFINE d == c \o vals
    <3>1. d \in Seq(V) /\ d \in Seq(W) /\ Len(d) = n
      BY <1>3
    <3> HIDE DEF d, c
    <3>2. d \o spare \in Seq(W) /\ Len(d \o spare) >= n /\ \A i \in 1 .. Len(d) : (d \o spare)[i] = d[i]
      BY <3>1
    <3> QED
      BY <3>1, <3>2 DEF d
  <2> HIDE DEF b
  <2>3. HeapOf(g, W) /\ m \in DOMAIN g /\ g[m] = b /\ m \in Nat
        /\ \A x \in DOMAIN h : x \in DOMAIN g /\ g[x] = h[x] /\ x # m
    BY <2>2 DEF HeapOf
  <2> HIDE DEF g, m
  <2>4. r.heap = g /\ r.slice = [at |-> m, len |-> n] /\ r.slice.at = m /\ r.slice.len = n
    BY <2>1
  <2>5. \A i \in 1 .. n : b[i] \in V
    <3> DEFINE d == c \o vals
    <3>1. d \in Seq(V) /\ Len(d) = n /\ \A i \in 1 .. n : b[i] = d[i]
      BY <1>3, <2>2
    <3> HIDE DEF d, n, b
    <3> QED
      BY <3>1
  <2>6. Good(g, r.slice, V)
    BY <1>1, <2>2, <2>3, <2>4, <2>5 DEF Good
  <2>7. Contents(g, r.slice) = c \o vals
    <3>1. /\ Contents(g, r.slice) \in Seq(V) /\ Len(Contents(g, r.slice)) = n
          /\ \A i \in 1 .. n : Contents(g, r.slice)[i] = b[i]
      BY <2>3, <2>4, <2>6, ContentsFacts
    <3> DEFINE d == c \o vals
               e == Contents(g, r.slice)
    <3>2. d \in Seq(V) /\ Len(d) = n /\ e \in Seq(V) /\ Len(e) = n /\ \A i \in 1 .. n : e[i] = d[i]
      BY <1>3, <2>2, <3>1
    <3> HIDE DEF d, e, n
    <3>3. e = d
      BY <3>2, SameSequence
    <3> QED
      BY <3>3 DEF d, e
  <2>8. ASSUME NEW u, Good(h, u, V)
        PROVE  Good(g, u, V) /\ Contents(g, u) = Contents(h, u) /\ r.slice.at # u.at
    BY <2>3, <2>4, <2>8 DEF Good, Contents
  <2> QED
    BY <2>3, <2>4, <2>6, <2>7, <2>8 DEF c
<1> QED
  BY <1>4, <1>5, <1>6

\* What a slice shows of its array, of any heap.
LEMMA Shown ==
    ASSUME NEW V, NEW W
    PROVE  \A f, u : HeapOf(f, W) /\ Good(f, u, V) =>
             /\ Contents(f, u) \in Seq(V) /\ Len(Contents(f, u)) = u.len
             /\ \A j \in 1 .. u.len : Contents(f, u)[j] = f[u.at][j]
  BY ContentsFacts

\* append(s[:i], s[i+1:]...): likewise.
LEMMA DeleteFacts ==
    ASSUME NEW V, NEW W, V \subseteq W, NEW h, HeapOf(h, W), NEW s, Good(h, s, V),
           NEW i \in 1 .. s.len, NEW r, r = DeleteAt(h, s, i)
    PROVE  /\ HeapOf(r.heap, W) /\ Good(r.heap, r.slice, V) /\ r.slice.len = s.len - 1 /\ r.slice.at = s.at
           /\ Contents(r.heap, r.slice) = Without(Contents(h, s), i)
           /\ \A u : Good(h, u, V) => /\ Good(r.heap, u, V)
                                      /\ u.at # s.at => Contents(r.heap, u) = Contents(h, u)
<1> DEFINE a == h[s.at]
           k == s.len
           c == Contents(h, s)
<1>1. /\ s.at \in DOMAIN h /\ a \in Seq(W) /\ k \in Nat /\ k <= Len(a) /\ \A j \in 1 .. k : a[j] \in V
      /\ s.at \in Nat /\ Len(a) \in Nat /\ DOMAIN a = 1 .. Len(a) /\ i \in Nat /\ k >= 1
  BY DEF Good, HeapOf
<1>2. c \in Seq(V) /\ Len(c) = k /\ \A j \in 1 .. k : c[j] = a[j]
  BY ContentsFacts
<1> DEFINE b == [j \in DOMAIN a |-> IF i <= j /\ j < k THEN a[j + 1] ELSE a[j]]
           g == [h EXCEPT ![s.at] = b]
<1>3. r = [heap |-> g, slice |-> [at |-> s.at, len |-> k - 1]]
  BY DEF DeleteAt
<1>4. \A j \in DOMAIN a : i <= j /\ j < k => j + 1 \in 1 .. k /\ j + 1 \in DOMAIN a /\ a[j + 1] \in V
  BY <1>1
<1>5. b \in Seq(W) /\ Len(b) = Len(a) /\ \A j \in DOMAIN a : b[j] = IF i <= j /\ j < k THEN a[j + 1] ELSE a[j]
  <2>1. b \in [1 .. Len(a) -> W]
    BY <1>1, <1>4
  <2> QED
    BY <1>1, <2>1
<1> HIDE DEF b
<1>6. HeapOf(g, W) /\ DOMAIN g = DOMAIN h /\ g[s.at] = b /\ \A x \in DOMAIN h : x # s.at => g[x] = h[x]
  BY <1>1, <1>5 DEF HeapOf
<1> HIDE DEF g
<1>7. r.heap = g /\ r.slice = [at |-> s.at, len |-> k - 1] /\ r.slice.at = s.at /\ r.slice.len = k - 1
  BY <1>3
<1>8. ASSUME NEW u, Good(h, u, V) PROVE Good(g, u, V) /\ (u.at # s.at => Contents(g, u) = Contents(h, u))
  <2>1. CASE u.at = s.at
    <3>1. \A j \in 1 .. u.len : j \in DOMAIN a /\ a[j] \in V
      BY <1>1, <1>8, <2>1 DEF Good
    <3>2. \A j \in 1 .. u.len : b[j] \in V
      BY <1>4, <1>5, <3>1
    <3> QED
      BY <1>5, <1>6, <1>8, <2>1, <3>2 DEF Good
  <2>2. CASE u.at # s.at
    BY <1>6, <1>8, <2>2 DEF Good, Contents
  <2> QED
    BY <2>1, <2>2
<1>9. Good(g, r.slice, V)
  <2>1. Good(g, s, V)
    BY <1>8
  <2>2. k - 1 \in Nat /\ k - 1 <= k /\ \A j \in 1 .. k - 1 : j \in 1 .. k
    BY <1>1
  <2>3. g[s.at] = b /\ Len(b) \in Nat /\ k <= Len(b)
    BY <1>1, <1>5, <1>6
  <2>4. k - 1 <= Len(b)
    BY <1>1, <2>3
  <2> QED
    BY <1>1, <1>7, <2>1, <2>2, <2>3, <2>4 DEF Good
<1>10. Contents(g, r.slice) = Without(c, i)
  <2> DEFINE e == Contents(g, r.slice)
  <2> HIDE DEF a, k
  <2>1. /\ e \in Seq(V) /\ Len(e) = k - 1 /\ \A j \in 1 .. k - 1 : e[j] = b[j]
    <3>1. HeapOf(g, W) /\ Good(g, r.slice, V) /\ r.slice.len = k - 1 /\ g[r.slice.at] = b
      BY <1>6, <1>7, <1>9
    <3>2. /\ Contents(g, r.slice) \in Seq(V) /\ Len(Contents(g, r.slice)) = r.slice.len
          /\ \A j \in 1 .. r.slice.len : Contents(g, r.slice)[j] = g[r.slice.at][j]
      <4>1. HeapOf(g, W) /\ Good(g, r.slice, V)
        BY <3>1
      <4> QED
        BY <4>1, Shown
    <3> QED
      BY <3>1, <3>2 DEF e
  <2>2. \A j \in 1 .. k - 1 : b[j] = IF j < i THEN c[j] ELSE c[j + 1]
    <3> SUFFICES ASSUME NEW j \in 1 .. k - 1 PROVE b[j] = IF j < i THEN c[j] ELSE c[j + 1]
      OBVIOUS
    <3>1. j \in DOMAIN a /\ j \in 1 .. k /\ j + 1 \in 1 .. k /\ j < k /\ (j < i <=> ~(i <= j))
      BY <1>1
    <3> QED
      BY <1>2, <1>5, <3>1
  <2>3. Without(c, i) = [j \in 1 .. k - 1 |-> IF j < i THEN c[j] ELSE c[j + 1]]
    BY <1>2 DEF Without
  <2> HIDE DEF e, c
  <2>4. e = [j \in 1 .. k - 1 |-> e[j]]
    BY <1>1, <2>1
  <2> QED
    BY <2>1, <2>2, <2>3, <2>4 DEF e
<1> QED
  BY <1>6, <1>7, <1>8, <1>9, <1>10

-----------------------------------------------------------------------------
(* How often a nick is in a list. *)

At(list, n) == {i \in DOMAIN list : list[i] = n}

\* Occurrences counts positions.
LEMMA OccurrencesAt == \A list, n : NL!Occurrences(list, n) = Cardinality(At(list, n))
<1>1. \A S : NL!Cardinality(S) = Cardinality(S)
  BY Zenon DEF NL!Cardinality, Cardinality
<1> QED
  BY <1>1 DEF NL!Occurrences, At

\* The positions are finitely many.
LEMMA AtFinite == ASSUME NEW V, NEW x \in Seq(V), NEW n PROVE IsFiniteSet(At(x, n)) /\ Cardinality(At(x, n)) \in Nat
<1>1. IsFiniteSet(1 .. Len(x)) /\ At(x, n) \subseteq 1 .. Len(x)
  BY FS_Interval DEF At
<1> QED
  BY <1>1, FS_Subset, FS_CardinalityType

\* A renumbering changes no number.
LEMMA Renumbered ==
    ASSUME NEW S, NEW T, IsFiniteSet(S), NEW f \in [S -> T], \A i, j \in S : f[i] = f[j] => i = j,
           \A k \in T : \E i \in S : f[i] = k
    PROVE  IsFiniteSet(T) /\ Cardinality(T) = Cardinality(S)
<1>1. f \in Bijection(S, T)
  BY DEF Bijection, Injection, Surjection, IsInjective
<1>2. ExistsBijection(S, T)
  BY <1>1 DEF ExistsBijection
<1> QED
  BY <1>2, FS_Bijection

\* A concatenation has a nick as often as its two parts.
LEMMA ConcatCounts ==
    ASSUME NEW V, NEW x \in Seq(V), NEW y \in Seq(V), NEW n
    PROVE  NL!Occurrences(x \o y, n) = NL!Occurrences(x, n) + NL!Occurrences(y, n)
<1> DEFINE z == x \o y
           p == Len(x)
           q == Len(y)
           T == {k \in p + 1 .. p + q : z[k] = n}
<1>1. /\ DOMAIN z = 1 .. p + q /\ p \in Nat /\ q \in Nat /\ DOMAIN x = 1 .. p /\ DOMAIN y = 1 .. q
      /\ \A i \in 1 .. p : z[i] = x[i]
      /\ \A i \in p + 1 .. p + q : z[i] = y[i - p]
  BY ConcatFacts
<1> HIDE DEF z, p, q
<1>2. IsFiniteSet(At(x, n)) /\ IsFiniteSet(At(y, n)) /\ Cardinality(At(x, n)) \in Nat /\ Cardinality(At(y, n)) \in Nat
  BY AtFinite
<1>3. At(z, n) = At(x, n) \cup T /\ At(x, n) \cap T = {}
  BY <1>1 DEF At
<1>4. IsFiniteSet(T) /\ Cardinality(T) = Cardinality(At(y, n))
  <2> DEFINE f == [i \in At(y, n) |-> i + p]
  <2>1. f \in [At(y, n) -> T]
    <3> SUFFICES ASSUME NEW i \in At(y, n) PROVE i + p \in T
      OBVIOUS
    <3>1. i \in 1 .. q /\ y[i] = n
      BY <1>1 DEF At
    <3>2. i + p \in p + 1 .. p + q /\ (i + p) - p = i
      BY <1>1, <3>1
    <3> QED
      BY <1>1, <3>1, <3>2
  <2>2. \A i, j \in At(y, n) : f[i] = f[j] => i = j
    BY <1>1 DEF At
  <2>3. \A k \in T : \E i \in At(y, n) : f[i] = k
    <3> SUFFICES ASSUME NEW k \in T PROVE \E i \in At(y, n) : f[i] = k
      OBVIOUS
    <3>1. k \in p + 1 .. p + q /\ z[k] = n
      OBVIOUS
    <3>2. k - p \in 1 .. q /\ (k - p) + p = k /\ y[k - p] = n
      BY <1>1, <3>1
    <3>3. k - p \in At(y, n)
      BY <1>1, <3>2 DEF At
    <3> QED
      BY <3>2, <3>3
  <2> HIDE DEF f, T
  <2> QED
    BY <1>2, <2>1, <2>2, <2>3, Renumbered
<1>5. Cardinality(At(z, n)) = Cardinality(At(x, n)) + Cardinality(T)
  <2>1. Cardinality(At(x, n) \cap T) = 0
    BY <1>3, FS_EmptySet
  <2> HIDE DEF T
  <2>2. Cardinality(At(x, n) \cup T) = Cardinality(At(x, n)) + Cardinality(T) - Cardinality(At(x, n) \cap T)
    BY <1>2, <1>4, FS_Union
  <2> QED
    BY <1>2, <1>3, <1>4, <2>1, <2>2
<1> QED
  BY <1>4, <1>5, OccurrencesAt DEF z

\* A nick that is appended is in the list once more.
LEMMA AppendCounts ==
    ASSUME NEW V, NEW x \in Seq(V), NEW v \in V, NEW n
    PROVE  NL!Occurrences(x \o <<v>>, n) = NL!Occurrences(x, n) + (IF v = n THEN 1 ELSE 0)
<1>1. <<v>> \in Seq(V) /\ At(<<v>>, n) = IF v = n THEN {1} ELSE {}
  BY DEF At
<1>2. NL!Occurrences(<<v>>, n) = IF v = n THEN 1 ELSE 0
  BY <1>1, FS_EmptySet, FS_Singleton, OccurrencesAt
<1>3. NL!Occurrences(x \o <<v>>, n) = NL!Occurrences(x, n) + NL!Occurrences(<<v>>, n)
  <2> DEFINE y == <<v>>
  <2> HIDE DEF y
  <2>1. y \in Seq(V)
    BY <1>1 DEF y
  <2> QED
    BY <2>1, ConcatCounts DEF y
<1> QED
  BY <1>2, <1>3

\* A list without its entry i has that nick once less.
LEMMA WithoutCounts ==
    ASSUME NEW V, NEW x \in Seq(V), NEW i \in DOMAIN x, NEW n
    PROVE  NL!Occurrences(Without(x, i), n) = NL!Occurrences(x, n) - (IF x[i] = n THEN 1 ELSE 0)
<1> DEFINE w == Without(x, i)
           p == Len(x)
           S == At(x, n) \ {i}
<1>1. /\ p \in Nat /\ i \in 1 .. p /\ DOMAIN x = 1 .. p /\ DOMAIN w = 1 .. p - 1
      /\ \A j \in 1 .. p - 1 : w[j] = IF j < i THEN x[j] ELSE x[j + 1]
  BY DEF Without
<1> HIDE DEF w, p
<1>2. IsFiniteSet(At(x, n)) /\ Cardinality(At(x, n)) \in Nat
  BY AtFinite
<1>3. IsFiniteSet(S) /\ Cardinality(S) = Cardinality(At(x, n)) - (IF x[i] = n THEN 1 ELSE 0)
  <2>1. i \in At(x, n) <=> x[i] = n
    BY DEF At
  <2> QED
    BY <1>2, <2>1, FS_RemoveElement
<1>4. Cardinality(At(w, n)) = Cardinality(S)
  <2> DEFINE f == [j \in S |-> IF j < i THEN j ELSE j - 1]
  <2>1. f \in [S -> At(w, n)]
    <3> SUFFICES ASSUME NEW j \in S PROVE (IF j < i THEN j ELSE j - 1) \in At(w, n)
      OBVIOUS
    <3>1. j \in 1 .. p /\ x[j] = n /\ j # i
      BY <1>1 DEF At
    <3>2. CASE j < i
      <4>1. j \in 1 .. p - 1 /\ w[j] = x[j]
        BY <1>1, <3>1, <3>2
      <4> QED
        BY <1>1, <3>1, <3>2, <4>1 DEF At
    <3>3. CASE ~(j < i)
      <4>1. j - 1 \in 1 .. p - 1 /\ ~(j - 1 < i) /\ (j - 1) + 1 = j
        BY <1>1, <3>1, <3>3
      <4> QED
        BY <1>1, <3>1, <3>3, <4>1 DEF At
    <3> QED
      BY <3>2, <3>3
  <2>2. \A j, k \in S : f[j] = f[k] => j = k
    BY <1>1 DEF At
  <2>3. \A k \in At(w, n) : \E j \in S : f[j] = k
    <3> SUFFICES ASSUME NEW k \in At(w, n) PROVE \E j \in S : f[j] = k
      OBVIOUS
    <3>1. k \in 1 .. p - 1 /\ w[k] = n
      BY <1>1 DEF At
    <3>2. CASE k < i
      <4>1. k \in 1 .. p /\ x[k] = n /\ k # i
        BY <1>1, <3>1, <3>2
      <4>2. k \in S
        BY <1>1, <4>1 DEF At
      <4> QED
        BY <3>2, <4>2
    <3>3. CASE ~(k < i)
      <4>1. k + 1 \in 1 .. p /\ x[k + 1] = n /\ k + 1 # i /\ ~(k + 1 < i) /\ (k + 1) - 1 = k
        BY <1>1, <3>1, <3>3
      <4>2. k + 1 \in S
        BY <1>1, <4>1 DEF At
      <4> QED
        BY <4>1, <4>2
    <3> QED
      BY <3>2, <3>3
  <2> HIDE DEF f, S
  <2> QED
    BY <1>3, <2>1, <2>2, <2>3, Renumbered
<1> QED
  BY <1>3, <1>4, OccurrencesAt DEF w

\* A nonempty set of naturals has a least element: induction without a
\* predicate.
LEMMA Least == ASSUME NEW T, T \subseteq Nat, T # {} PROVE \E n \in T : \A m \in T : n <= m
<1>1. IsWellFoundedOn(OpToRel(<, Nat), Nat)
  BY NatLessThanWellFounded
<1>2. PICK x \in T : \A y \in T : <<y, x>> \notin OpToRel(<, Nat)
  BY <1>1, WFMin
<1>3. \A y \in T : ~(y < x)
  BY <1>2 DEF OpToRel
<1> QED
  BY <1>3

\* removeNick takes the least position.
LEMMA FirstFacts == ASSUME NEW T, T \subseteq Nat, T # {} PROVE NL!First(T) \in T
  BY Least DEF NL!First

-----------------------------------------------------------------------------
(* The lists of nicks. *)

\* The instance's slices are those of Slices.
LEMMA NickSlices ==
    /\ \A h, s : NL!Contents(h, s) = Contents(h, s)
    /\ \A h, s, v, e : NL!AppendTo(h, s, v, e) = AppendTo(h, s, v, e)
    /\ \A h, s, i : NL!DeleteAt(h, s, i) = DeleteAt(h, s, i)
  BY DEF NL!Contents, Contents, NL!AppendTo, AppendTo, NL!DeleteAt, DeleteAt, NL!Capacity, Capacity

\* Spare slots hold no nick.
LEMMA SpareTyped == \A n \in Nat : NL!Spare(n) \in Seq(NickSlots)
  BY DEF NL!Spare, NickSlots

\* The constants of the lists of nicks.
LEMMA GrowthTyped == Growth \in Nat /\ MaxNicks \in Nat /\ NL!Spare(Growth) \in Seq(NickSlots)
  BY NickAssumption, SpareTyped DEF NL!ListAssumption

Nicks(h, p, a) == HeapOf(h, NickSlots) /\ Good(h, p, Names) /\ Good(h, a, Names)

\* What a short slice of nicks shows is a list.
LEMMA ListShown ==
    ASSUME NEW h, NEW s, HeapOf(h, NickSlots), Good(h, s, Names), s.len <= MaxNicks
    PROVE  Contents(h, s) \in NL!Lists
<1>1. Contents(h, s) \in Seq(Names) /\ Len(Contents(h, s)) = s.len /\ s.len \in Nat
  BY Shown DEF Good
<1> DEFINE c == Contents(h, s)
<1> HIDE DEF c
<1>2. c \in [1 .. s.len -> Names] /\ s.len \in 0 .. MaxNicks
  BY <1>1, GrowthTyped DEF c
<1> QED
  BY <1>2 DEF NL!Lists, c

\* What a bounded list is.
LEMMA ListTyped == \A l \in NL!Lists : l \in Seq(Names) /\ Len(l) <= MaxNicks
  BY GrowthTyped DEF NL!Lists

Holds(h, s, V, W, v, e, r) ==
    /\ HeapOf(r.heap, W) /\ Good(r.heap, r.slice, V) /\ r.slice.len = s.len + Len(v)
    /\ Contents(r.heap, r.slice) = Contents(h, s) \o v
    /\ \A u : Good(h, u, V) => /\ Good(r.heap, u, V)
                               /\ u.at # s.at => Contents(r.heap, u) = Contents(h, u) /\ r.slice.at # u.at

\* AppendFacts, of any heap.
LEMMA Appended ==
    ASSUME NEW V, NEW W, V \subseteq W
    PROVE  \A h, s, v, e, r : /\ HeapOf(h, W) /\ Good(h, s, V) /\ v \in Seq(V) /\ e \in Seq(W)
                              /\ r = AppendTo(h, s, v, e)
                              => Holds(h, s, V, W, v, e, r)
<1> SUFFICES ASSUME NEW h, NEW s, NEW v, NEW e, NEW r, HeapOf(h, W), Good(h, s, V), v \in Seq(V), e \in Seq(W),
                    r = AppendTo(h, s, v, e)
             PROVE  Holds(h, s, V, W, v, e, r)
  OBVIOUS
<1> QED
  BY AppendFacts DEF Holds

\* A nick is appended to both.
AddBoth(h, p, a, n, q, r) ==
    q = AppendTo(h, p, <<n>>, NL!Spare(Growth)) /\ r = AppendTo(q.heap, a, <<n>>, NL!Spare(Growth))

Added(h, p, a, n, q, r) ==
    /\ Nicks(r.heap, q.slice, r.slice) /\ q.slice.len = p.len + 1
    /\ p.at # a.at => /\ q.slice.at # r.slice.at
                      /\ Contents(r.heap, q.slice) = Contents(h, p) \o <<n>>
                      /\ Contents(r.heap, r.slice) = Contents(h, a) \o <<n>>

\* A nick that is appended to both lists.
LEMMA AddToBoth ==
    ASSUME NEW h, NEW p, NEW a, Nicks(h, p, a), NEW n \in Names,
           NEW q, NEW r, AddBoth(h, p, a, n, q, r)
    PROVE  Added(h, p, a, n, q, r)
<1>1. <<n>> \in Seq(Names) /\ Len(<<n>>) = 1 /\ NL!Spare(Growth) \in Seq(NickSlots) /\ Names \subseteq NickSlots
  BY GrowthTyped DEF NickSlots
<1> DEFINE v == <<n>>
           e == NL!Spare(Growth)
<1> HIDE DEF v, e
<1>2. /\ v \in Seq(Names) /\ Len(v) = 1 /\ e \in Seq(NickSlots)
      /\ q = AppendTo(h, p, v, e) /\ r = AppendTo(q.heap, a, v, e)
  BY <1>1 DEF v, e, AddBoth
<1>3. HeapOf(h, NickSlots) /\ Good(h, p, Names) /\ Good(h, a, Names)
  BY DEF Nicks
<1>4. /\ HeapOf(q.heap, NickSlots) /\ Good(q.heap, q.slice, Names) /\ q.slice.len = p.len + Len(v)
      /\ Contents(q.heap, q.slice) = Contents(h, p) \o v
      /\ \A u : Good(h, u, Names) => /\ Good(q.heap, u, Names)
                                     /\ u.at # p.at => Contents(q.heap, u) = Contents(h, u) /\ q.slice.at # u.at
  <2>1. Holds(h, p, Names, NickSlots, v, e, q)
    BY <1>1, <1>2, <1>3, Appended
  <2> QED
    BY <2>1 DEF Holds
<1>5. Good(q.heap, a, Names) /\ (p.at # a.at => Contents(q.heap, a) = Contents(h, a) /\ q.slice.at # a.at)
  BY <1>3, <1>4
<1>6. /\ HeapOf(r.heap, NickSlots) /\ Good(r.heap, r.slice, Names)
      /\ Contents(r.heap, r.slice) = Contents(q.heap, a) \o v
      /\ \A u : Good(q.heap, u, Names) => /\ Good(r.heap, u, Names)
                                          /\ u.at # a.at => Contents(r.heap, u) = Contents(q.heap, u) /\ r.slice.at # u.at
  <2>1. Holds(q.heap, a, Names, NickSlots, v, e, r)
    BY <1>1, <1>2, <1>4, <1>5, Appended
  <2> QED
    BY <2>1 DEF Holds
<1> QED
  BY <1>2, <1>4, <1>5, <1>6 DEF Nicks, Added, v

\* A nick is removed from one that has it.
LEMMA RemoveFrom ==
    ASSUME NEW h, NEW p, NEW a, Nicks(h, p, a), NEW n \in Names,
           NEW i \in 1 .. p.len, h[p.at][i] = n, NEW q, q = DeleteAt(h, p, i)
    PROVE  /\ Nicks(q.heap, q.slice, a) /\ q.slice.len = p.len - 1 /\ q.slice.at = p.at
           /\ \A m : NL!Occurrences(Contents(q.heap, q.slice), m)
                       = NL!Occurrences(Contents(h, p), m) - (IF n = m THEN 1 ELSE 0)
           /\ p.at # a.at => Contents(q.heap, a) = Contents(h, a)
<1>1. HeapOf(h, NickSlots) /\ Good(h, p, Names) /\ Good(h, a, Names) /\ Names \subseteq NickSlots
  BY DEF Nicks, NickSlots
<1>2. /\ HeapOf(q.heap, NickSlots) /\ Good(q.heap, q.slice, Names) /\ q.slice.len = p.len - 1 /\ q.slice.at = p.at
      /\ Contents(q.heap, q.slice) = Without(Contents(h, p), i)
      /\ \A u : Good(h, u, Names) => /\ Good(q.heap, u, Names)
                                     /\ u.at # p.at => Contents(q.heap, u) = Contents(h, u)
  BY <1>1, DeleteFacts
<1>3. Contents(h, p) \in Seq(Names) /\ i \in DOMAIN Contents(h, p) /\ Contents(h, p)[i] = n
  BY <1>1, ContentsFacts
<1>4. \A m : NL!Occurrences(Without(Contents(h, p), i), m)
               = NL!Occurrences(Contents(h, p), m) - (IF Contents(h, p)[i] = m THEN 1 ELSE 0)
  BY <1>3, WithoutCounts
<1> QED
  BY <1>1, <1>2, <1>3, <1>4 DEF Nicks

Agree(h, p, a) ==
    \A n \in Names : NL!Occurrences(Contents(h, a), n) = NL!Occurrences(Contents(h, p), n) + NL!Occurrences(Letters, n)

\* The same of the two states of a step.
LEMMA AgreeFacts ==
    /\ NL!Agree <=> Agree(nickHeap, priority, all)
    /\ NL!Agree' <=> Agree(nickHeap', priority', all')
  BY NickSlices DEF NL!Agree, NL!Priority, NL!All, Agree

\* A count is a number.
LEMMA CountTyped == ASSUME NEW V, NEW x \in Seq(V), NEW n PROVE NL!Occurrences(x, n) \in Nat
  BY AtFinite, OccurrencesAt

\* What is in a list is counted.
LEMMA CountPositive == ASSUME NEW V, NEW x \in Seq(V), NEW i \in DOMAIN x PROVE NL!Occurrences(x, x[i]) > 0
<1>1. IsFiniteSet(At(x, x[i])) /\ Cardinality(At(x, x[i])) \in Nat /\ i \in At(x, x[i])
  BY AtFinite DEF At
<1>2. Cardinality(At(x, x[i])) # 0
  BY <1>1, FS_EmptySet
<1> QED
  BY <1>1, <1>2, OccurrencesAt

\* The lists still agree after a nick was added to both ...
LEMMA AddAgrees ==
    ASSUME NEW h, NEW p, NEW a, Nicks(h, p, a), NEW n \in Names, p.at # a.at, Agree(h, p, a),
           NEW q, NEW r, AddBoth(h, p, a, n, q, r)
    PROVE  Agree(r.heap, q.slice, r.slice)
<1> DEFINE x == Contents(h, p)
           y == Contents(h, a)
<1>1. x \in Seq(Names) /\ y \in Seq(Names)
  BY ContentsFacts DEF Nicks
<1>2. Contents(r.heap, q.slice) = x \o <<n>> /\ Contents(r.heap, r.slice) = y \o <<n>>
  <2>1. Added(h, p, a, n, q, r)
    BY AddToBoth
  <2> QED
    BY <2>1 DEF Added
<1>3. Letters \in Seq(Names)
  BY NickAssumption DEF NL!ListAssumption
<1>4. \A m \in Names : NL!Occurrences(y, m) = NL!Occurrences(x, m) + NL!Occurrences(Letters, m)
  BY DEF Agree
<1> HIDE DEF x, y
<1> SUFFICES ASSUME NEW m \in Names
             PROVE  NL!Occurrences(y \o <<n>>, m) = NL!Occurrences(x \o <<n>>, m) + NL!Occurrences(Letters, m)
  BY <1>2 DEF Agree
<1>5. /\ NL!Occurrences(y \o <<n>>, m) = NL!Occurrences(y, m) + (IF n = m THEN 1 ELSE 0)
      /\ NL!Occurrences(x \o <<n>>, m) = NL!Occurrences(x, m) + (IF n = m THEN 1 ELSE 0)
  BY <1>1, AppendCounts
<1>6. NL!Occurrences(y, m) \in Nat /\ NL!Occurrences(x, m) \in Nat /\ NL!Occurrences(Letters, m) \in Nat
  BY <1>1, <1>3, CountTyped
<1> DEFINE d == IF n = m THEN 1 ELSE 0
           c1 == NL!Occurrences(y, m)
           c2 == NL!Occurrences(x, m)
           c3 == NL!Occurrences(Letters, m)
<1>7. d \in Nat /\ c1 = c2 + c3 /\ c1 \in Nat /\ c2 \in Nat /\ c3 \in Nat
  BY <1>4, <1>6
<1> HIDE DEF d, c1, c2, c3
<1>8. c1 + d = (c2 + d) + c3
  BY <1>7
<1> QED
  BY <1>5, <1>8 DEF d, c1, c2, c3

\* The steps of an editor of the nicks: the lists with the file, and what is
\* left to announce.
Saved(t) ==
    \/ nickFile' = NL!Priority' /\ unsent' = [unsent EXCEPT ![t] = NL!Priority']
    \/ UNCHANGED <<nickFile, unsent>>

\* SaveNicks, when it succeeds and when it fails.
LEMMA SaveFacts == ASSUME NEW t, NL!Save(t) PROVE Saved(t)
  BY DEF NL!Save, Saved

\* An edit that leaves two lists leaves the state typed.
LEMMA EditTyped ==
    ASSUME NickTyped, NEW t \in Threads, Nicks(nickHeap', priority', all'), priority'.len <= MaxNicks,
           Saved(t), UNCHANGED <<slack, mirror>>
    PROVE  NickTyped'
<1>1. HeapOf(nickHeap', NickSlots) /\ Good(nickHeap', priority', Names) /\ Good(nickHeap', all', Names)
  BY DEF Nicks
<1>2. NL!Priority' \in NL!Lists
  BY <1>1, ListShown, NickSlices DEF NL!Priority
<1>3. nickFile' \in NL!Lists /\ unsent' \in [Threads -> {None} \cup NL!Lists]
  BY <1>2 DEF NickTyped, Saved
<1> QED
  BY <1>1, <1>3 DEF NickTyped

\* The two lists of nicks now.
LEMMA NicksNow == ASSUME NickTyped PROVE Nicks(nickHeap, priority, all) /\ priority.len \in Nat /\ priority.len <= MaxNicks
  BY DEF NickTyped, Nicks, Good

\* AddNick, whole: both lists, the file and the panel's list.
LEMMA AddNickFacts ==
    ASSUME NickTyped, NEW t \in Threads, NEW n \in Names, NL!AddNick(t, n)
    PROVE  /\ NickTyped' /\ Saved(t) /\ UNCHANGED <<slack, mirror>> /\ unsent[t] = None
           /\ Apart /\ NL!Agree => Apart' /\ NL!Agree'
<1> DEFINE q == AppendTo(nickHeap, priority, <<n>>, NL!Spare(Growth))
           r == AppendTo(q.heap, all, <<n>>, NL!Spare(Growth))
<1>1. nickHeap' = r.heap /\ priority' = q.slice /\ all' = r.slice
  BY NickSlices DEF NL!AddNick
<1>2. Saved(t) /\ UNCHANGED <<slack, mirror>> /\ unsent[t] = None /\ priority.len < MaxNicks
  BY SaveFacts DEF NL!AddNick
<1>3. Nicks(nickHeap, priority, all) /\ priority.len \in Nat
  BY NicksNow
<1>7. AddBoth(nickHeap, priority, all, n, q, r)
  BY DEF AddBoth
<1> HIDE DEF q, r
<1>4. /\ Nicks(r.heap, q.slice, r.slice) /\ q.slice.len = priority.len + 1
      /\ priority.at # all.at => q.slice.at # r.slice.at
  <2>1. Added(nickHeap, priority, all, n, q, r)
    BY <1>3, <1>7, AddToBoth
  <2> QED
    BY <2>1 DEF Added
<1>5. priority.at # all.at /\ Agree(nickHeap, priority, all) => Agree(r.heap, q.slice, r.slice)
  BY <1>3, <1>7, AddAgrees
<1>6. NickTyped'
  BY <1>1, <1>2, <1>3, <1>4, EditTyped, GrowthTyped
<1> QED
  BY <1>1, <1>2, <1>4, <1>5, <1>6, AgreeFacts DEF Apart

\* What RemoveNick makes of the two lists.
RemoveBoth(h, p, a, n, q, r) ==
    \E i \in 1 .. p.len :
       /\ h[p.at][i] = n /\ q = DeleteAt(h, p, i)
       /\ LET left == {j \in 1 .. a.len : q.heap[a.at][j] = n}
          IN  IF left = {} THEN r = [heap |-> q.heap, slice |-> a]
              ELSE \E j \in left : r = DeleteAt(q.heap, a, j)

\* A nick is removed from both lists; they still agree, for each lost one.
LEMMA RemoveBothFacts ==
    ASSUME NEW h, NEW p, NEW a, Nicks(h, p, a), NEW n \in Names, NEW q, NEW r, RemoveBoth(h, p, a, n, q, r)
    PROVE  /\ Nicks(r.heap, q.slice, r.slice) /\ q.slice.len = p.len - 1
           /\ p.at # a.at /\ Agree(h, p, a) => q.slice.at # r.slice.at /\ Agree(r.heap, q.slice, r.slice)
<1> DEFINE left == {j \in 1 .. a.len : q.heap[a.at][j] = n}
<1>1. PICK i \in 1 .. p.len : h[p.at][i] = n /\ q = DeleteAt(h, p, i)
  BY DEF RemoveBoth
<1>2. IF left = {} THEN r = [heap |-> q.heap, slice |-> a]
      ELSE \E j \in left : r = DeleteAt(q.heap, a, j)
  BY DEF RemoveBoth
<1>3. /\ Nicks(q.heap, q.slice, a) /\ q.slice.len = p.len - 1 /\ q.slice.at = p.at
      /\ \A m : NL!Occurrences(Contents(q.heap, q.slice), m)
                  = NL!Occurrences(Contents(h, p), m) - (IF n = m THEN 1 ELSE 0)
      /\ p.at # a.at => Contents(q.heap, a) = Contents(h, a)
  BY <1>1, RemoveFrom
<1> DEFINE x == Contents(h, p)
           y == Contents(h, a)
<1>4. /\ x \in Seq(Names) /\ y \in Seq(Names) /\ DOMAIN y = 1 .. a.len
      /\ Contents(q.heap, a) \in Seq(Names)
      /\ \A j \in 1 .. a.len : Contents(q.heap, a)[j] = q.heap[a.at][j]
  BY <1>3, ContentsFacts DEF Nicks
<1>5. CASE left = {}
  <2>1. r.heap = q.heap /\ r.slice = a
    BY <1>2, <1>5
  <2>2. ASSUME p.at # a.at, Agree(h, p, a) PROVE FALSE
    <3>1. NL!Occurrences(x, n) > 0
      <4>1. i \in DOMAIN x /\ x[i] = n
        <5>1. HeapOf(h, NickSlots) /\ Good(h, p, Names)
          BY DEF Nicks
        <5>2. DOMAIN x = 1 .. p.len /\ \A k \in 1 .. p.len : x[k] = h[p.at][k]
          BY <5>1, Shown
        <5> HIDE DEF x
        <5> QED
          BY <1>1, <5>2
      <4> HIDE DEF x
      <4> QED
        BY <1>4, <4>1, CountPositive
    <3>2. NL!Occurrences(y, n) = NL!Occurrences(x, n) + NL!Occurrences(Letters, n)
      BY <2>2 DEF Agree
    <3>3. NL!Occurrences(x, n) \in Nat /\ NL!Occurrences(Letters, n) \in Nat
      BY <1>4, NickAssumption, CountTyped DEF NL!ListAssumption
    <3>4. At(y, n) = {}
      BY <1>3, <1>4, <1>5, <2>2 DEF At
    <3>5. NL!Occurrences(y, n) = 0
      BY <3>4, FS_EmptySet, OccurrencesAt
    <3> QED
      BY <3>1, <3>2, <3>3, <3>5
  <2> QED
    BY <1>3, <2>1, <2>2
<1>6. CASE left # {}
  <2>1. PICK j \in left : r = DeleteAt(q.heap, a, j)
    BY <1>2, <1>6
  <2>2. j \in 1 .. a.len /\ q.heap[a.at][j] = n /\ Nicks(q.heap, a, q.slice)
    BY <1>3 DEF Nicks
  <2>3. /\ Nicks(r.heap, r.slice, q.slice) /\ r.slice.at = a.at
        /\ \A m : NL!Occurrences(Contents(r.heap, r.slice), m)
                    = NL!Occurrences(Contents(q.heap, a), m) - (IF n = m THEN 1 ELSE 0)
        /\ a.at # q.slice.at => Contents(r.heap, q.slice) = Contents(q.heap, q.slice)
    BY <2>1, <2>2, RemoveFrom
  <2>4. ASSUME p.at # a.at, Agree(h, p, a) PROVE Agree(r.heap, q.slice, r.slice)
    <3> SUFFICES ASSUME NEW m \in Names
                 PROVE  NL!Occurrences(Contents(r.heap, r.slice), m)
                          = NL!Occurrences(Contents(r.heap, q.slice), m) + NL!Occurrences(Letters, m)
      BY DEF Agree
    <3> DEFINE d == IF n = m THEN 1 ELSE 0
               c1 == NL!Occurrences(y, m)
               c2 == NL!Occurrences(x, m)
               c3 == NL!Occurrences(Letters, m)
    <3>1. d \in Nat /\ c1 = c2 + c3 /\ c1 \in Nat /\ c2 \in Nat /\ c3 \in Nat
      BY <1>4, <2>4, NickAssumption, CountTyped DEF NL!ListAssumption, Agree
    <3>2. NL!Occurrences(Contents(r.heap, r.slice), m) = c1 - d
      BY <1>3, <2>3, <2>4
    <3>3. NL!Occurrences(Contents(r.heap, q.slice), m) = c2 - d
      BY <1>3, <2>3, <2>4
    <3> HIDE DEF d, c1, c2, c3
    <3>4. c1 - d = (c2 - d) + c3
      BY <3>1
    <3> QED
      BY <3>2, <3>3, <3>4 DEF c3
  <2> QED
    BY <1>3, <2>3, <2>4 DEF Nicks
<1> QED
  BY <1>5, <1>6

\* RemoveNick, whole.
LEMMA RemoveNickFacts ==
    ASSUME NickTyped, NEW t \in Threads, NEW n \in Names, NL!RemoveNick(t, n)
    PROVE  /\ NickTyped' /\ Saved(t) /\ UNCHANGED <<slack, mirror>> /\ unsent[t] = None
           /\ Apart /\ NL!Agree => Apart' /\ NL!Agree'
<1> DEFINE P == NL!Positions(priority, n)
           q == DeleteAt(nickHeap, priority, NL!First(P))
           left == {j \in 1 .. all.len : q.heap[all.at][j] = n}
           r == IF left = {} THEN [heap |-> q.heap, slice |-> all] ELSE DeleteAt(q.heap, all, NL!First(left))
<1>1. nickHeap' = r.heap /\ priority' = q.slice /\ all' = r.slice
  BY NickSlices DEF NL!RemoveNick
<1>2. Saved(t) /\ UNCHANGED <<slack, mirror>> /\ unsent[t] = None /\ P # {}
  BY SaveFacts DEF NL!RemoveNick
<1>3. Nicks(nickHeap, priority, all) /\ priority.len \in Nat /\ priority.len <= MaxNicks /\ all.len \in Nat
  BY NicksNow DEF Nicks, Good
<1>4. NL!First(P) \in P /\ (left # {} => NL!First(left) \in left)
  <2>1. P \subseteq Nat /\ left \subseteq Nat
    BY <1>3 DEF NL!Positions
  <2> HIDE DEF P, left
  <2> QED
    BY <1>2, <2>1, FirstFacts
<1>5. RemoveBoth(nickHeap, priority, all, n, q, r)
  <2>1. NL!First(P) \in 1 .. priority.len /\ nickHeap[priority.at][NL!First(P)] = n
    BY <1>4 DEF NL!Positions
  <2> DEFINE i == NL!First(P)
             j == NL!First(left)
  <2>2. i \in 1 .. priority.len /\ nickHeap[priority.at][i] = n /\ q = DeleteAt(nickHeap, priority, i)
    BY <2>1
  <2> HIDE DEF i, j, q
  <2>3. r = IF left = {} THEN [heap |-> q.heap, slice |-> all] ELSE DeleteAt(q.heap, all, j)
    BY DEF j
  <2>4. left # {} => j \in left
    BY <1>4 DEF j
  <2> HIDE DEF r
  <2> QED
    BY <2>2, <2>3, <2>4 DEF RemoveBoth
<1> HIDE DEF q, r
<1>6. /\ Nicks(r.heap, q.slice, r.slice) /\ q.slice.len = priority.len - 1
      /\ priority.at # all.at /\ Agree(nickHeap, priority, all)
           => q.slice.at # r.slice.at /\ Agree(r.heap, q.slice, r.slice)
  BY <1>3, <1>5, RemoveBothFacts
<1>7. priority'.len <= MaxNicks
  BY <1>1, <1>3, <1>6, GrowthTyped
<1>8. NickTyped'
  BY <1>1, <1>2, <1>6, <1>7, EditTyped
<1> QED
  BY <1>1, <1>2, <1>6, <1>8, AgreeFacts DEF Apart

\* An append beyond the capacity leaves the array.
LEMMA AppendMoves ==
    ASSUME NEW V, NEW W, NEW h, HeapOf(h, W), NEW s, Good(h, s, V),
           NEW v \in Seq(V), NEW e \in Seq(W), s.len + Len(v) > Len(h[s.at]), NEW r, r = AppendTo(h, s, v, e)
    PROVE  r.slice.at # s.at /\ Contents(r.heap, s) = Contents(h, s)
<1> DEFINE b == Contents(h, s) \o v \o e
           g == Append(h, b)
<1> HIDE DEF b
<1>1. s.at \in 1 .. Len(h) /\ s.len \in Nat /\ Len(v) \in Nat /\ Len(h[s.at]) \in Nat /\ Len(h) \in Nat
  BY DEF Good, HeapOf
<1>2. ~(s.len + Len(v) <= Len(h[s.at]))
  BY <1>1
<1>3. r.heap = g /\ r.slice.at = Len(h) + 1
  BY <1>2 DEF AppendTo, Capacity, b
<1>4. g[s.at] = h[s.at] /\ s.at # Len(h) + 1
  BY <1>1 DEF HeapOf
<1> QED
  BY <1>3, <1>4 DEF Contents

\* The lists that LoadNicks makes.
LEMMA CombinedFacts ==
    ASSUME NEW l \in NL!Lists, NEW room \in Rooms, NEW r, r = NL!Combined(l, room), NEW p, p = NL!Decoded(l)
    PROVE  /\ Nicks(r.heap, p, r.slice) /\ p.len <= MaxNicks
           /\ room < Len(Letters) => p.at # r.slice.at /\ Agree(r.heap, p, r.slice)
<1>1. room \in Nat /\ Letters \in Seq(Names) /\ NL!Spare(Growth) \in Seq(NickSlots) /\ NL!Spare(room) \in Seq(NickSlots)
  BY NickAssumption, GrowthTyped, SpareTyped DEF NL!ListAssumption
<1>2. l \in Seq(Names) /\ Len(l) <= MaxNicks /\ Len(l) \in Nat /\ Len(NL!Spare(room)) = room
  BY <1>1, ListTyped DEF NL!Spare
<1> DEFINE a == l \o NL!Spare(room)
           h == <<a>>
           e == NL!Spare(Growth)
<1>3. /\ l \in Seq(NickSlots) /\ a \in Seq(NickSlots) /\ Len(a) = Len(l) + room
      /\ \A i \in 1 .. Len(l) : a[i] = l[i] /\ a[i] \in Names
  <2>1. l \in Seq(NickSlots) /\ NL!Spare(room) \in Seq(NickSlots)
    BY <1>1, <1>2 DEF NickSlots
  <2>2. a \in Seq(NickSlots) /\ Len(a) = Len(l) + Len(NL!Spare(room)) /\ \A i \in 1 .. Len(l) : a[i] = l[i]
    BY <2>1, ConcatFacts
  <2> HIDE DEF a
  <2> QED
    BY <1>2, <2>1, <2>2
<1> HIDE DEF a
<1>4. HeapOf(h, NickSlots) /\ Len(h) = 1 /\ h[1] = a /\ DOMAIN h = {1}
  BY <1>3 DEF HeapOf
<1> HIDE DEF h
<1>5. p.at = 1 /\ p.len = Len(l) /\ p \in [at : Nat, len : Nat]
  BY <1>2 DEF NL!Decoded
<1>6. Good(h, p, Names)
  BY <1>1, <1>2, <1>3, <1>4, <1>5 DEF Good
<1>7. Contents(h, p) = l
  <2> DEFINE c == Contents(h, p)
  <2>1. c \in Seq(Names) /\ Len(c) = p.len /\ \A i \in 1 .. p.len : c[i] = h[p.at][i]
    BY <1>4, <1>6, Shown
  <2> HIDE DEF c
  <2>2. Len(c) = Len(l) /\ \A i \in 1 .. Len(c) : c[i] = l[i]
    BY <1>3, <1>4, <1>5, <2>1
  <2>3. c = l
    BY <1>2, <2>1, <2>2, SameSequence
  <2> QED
    BY <2>3 DEF c
<1> HIDE DEF e
<1>8. r = AppendTo(h, p, Letters, e)
  BY NickSlices DEF NL!Combined, h, a, e
<1>9. Holds(h, p, Names, NickSlots, Letters, e, r)
  BY <1>1, <1>4, <1>6, <1>8, Appended DEF e, NickSlots
<1>10. Nicks(r.heap, p, r.slice)
  BY <1>6, <1>9 DEF Holds, Nicks
<1>11. ASSUME room < Len(Letters) PROVE p.at # r.slice.at /\ Agree(r.heap, p, r.slice)
  <2>1. p.len + Len(Letters) > Len(h[p.at])
    BY <1>1, <1>2, <1>3, <1>4, <1>5, <1>11
  <2>2. r.slice.at # p.at /\ Contents(r.heap, p) = l
    BY <1>1, <1>4, <1>6, <1>7, <1>8, <2>1, AppendMoves DEF e
  <2>3. Contents(r.heap, r.slice) = l \o Letters
    BY <1>7, <1>9 DEF Holds
  <2>4. \A m : NL!Occurrences(l \o Letters, m) = NL!Occurrences(l, m) + NL!Occurrences(Letters, m)
    BY <1>1, <1>2, ConcatCounts
  <2> QED
    BY <2>2, <2>3, <2>4 DEF Agree
<1> QED
  BY <1>2, <1>5, <1>10, <1>11

\* LoadNicks at the start ...
LEMMA NickInit ==
    ASSUME NL!Init
    PROVE  /\ NickTyped /\ unsent = [t \in Threads |-> None] /\ mirror = nickFile
           /\ slack < Len(Letters) => Apart /\ NL!Agree
<1> DEFINE l == StoredNicks
<1>1. slack \in Rooms /\ nickHeap = NL!Combined(l, slack).heap /\ all = NL!Combined(l, slack).slice
  BY DEF NL!Init
<1>2. /\ priority = NL!Decoded(l) /\ nickFile = l /\ mirror = l /\ unsent = [t \in Threads |-> None]
      /\ l \in NL!Lists
  BY NickAssumption DEF NL!Init, NL!ListAssumption
<1> DEFINE r == NL!Combined(l, slack)
<1> HIDE DEF r, l
<1>3. nickHeap = r.heap /\ all = r.slice
  BY <1>1 DEF r
<1>4. /\ Nicks(r.heap, priority, r.slice) /\ priority.len <= MaxNicks
      /\ slack < Len(Letters) => priority.at # r.slice.at /\ Agree(r.heap, priority, r.slice)
  BY <1>1, <1>2, CombinedFacts DEF r
<1>5. NickTyped
  BY <1>1, <1>2, <1>3, <1>4 DEF NickTyped, Nicks
<1> QED
  BY <1>2, <1>3, <1>4, <1>5, AgreeFacts DEF Apart

\* ... and after a restart.
LEMMA NickRestart ==
    ASSUME NickTyped, NL!Restart
    PROVE  /\ NickTyped' /\ unsent' = [t \in Threads |-> None] /\ mirror' = nickFile'
           /\ slack' < Len(Letters) => Apart' /\ NL!Agree'
<1> DEFINE l == nickFile
<1>1. slack' \in Rooms /\ nickHeap' = NL!Combined(l, slack').heap /\ all' = NL!Combined(l, slack').slice
  BY DEF NL!Restart
<1>2. /\ priority' = NL!Decoded(l) /\ nickFile' = l /\ mirror' = l /\ unsent' = [t \in Threads |-> None]
      /\ l \in NL!Lists
  BY DEF NL!Restart, NickTyped
<1> DEFINE r == NL!Combined(l, slack')
<1>3. nickHeap' = r.heap /\ all' = r.slice
  BY <1>1
<1>4. /\ Nicks(r.heap, priority', r.slice) /\ priority'.len <= MaxNicks
      /\ slack' < Len(Letters) => priority'.at # r.slice.at /\ Agree(r.heap, priority', r.slice)
  BY <1>1, <1>2, CombinedFacts
<1> HIDE DEF r, l
<1>5. NickTyped'
  BY <1>1, <1>2, <1>3, <1>4 DEF NickTyped, Nicks
<1> QED
  BY <1>2, <1>3, <1>4, <1>5, AgreeFacts DEF Apart

\* NicksChanged is announced.
LEMMA NicksChangedFacts ==
    ASSUME NickTyped, NEW t \in Threads, NL!NicksChanged(t)
    PROVE  /\ NickTyped' /\ unsent[t] # None /\ mirror' = unsent[t] /\ unsent' = [unsent EXCEPT ![t] = None]
           /\ UNCHANGED <<nickHeap, slack, priority, all, nickFile>>
           /\ Apart /\ NL!Agree => Apart' /\ NL!Agree'
<1>1. /\ unsent[t] # None /\ mirror' = unsent[t] /\ unsent' = [unsent EXCEPT ![t] = None]
      /\ UNCHANGED <<nickHeap, slack, priority, all, nickFile>>
  BY DEF NL!NicksChanged
<1>2. NickTyped'
  BY <1>1 DEF NickTyped
<1>3. Agree(nickHeap, priority, all) => Agree(nickHeap', priority', all')
  BY <1>1
<1> QED
  BY <1>1, <1>2, <1>3, AgreeFacts DEF Apart

\* What leaves the lists of nicks alone.
LEMMA NickSame ==
    ASSUME NickTyped, UNCHANGED nickVars
    PROVE  NickTyped' /\ (Apart /\ NL!Agree => Apart' /\ NL!Agree')
<1>1. NickTyped'
  BY DEF NickTyped, nickVars
<1>2. Agree(nickHeap, priority, all) => Agree(nickHeap', priority', all')
  BY DEF nickVars
<1> QED
  BY <1>1, <1>2, AgreeFacts DEF Apart, nickVars

-----------------------------------------------------------------------------
(* The list of owners. *)

\* The instance's slices are those of Slices.
LEMMA OwnerSlices ==
    /\ \A h, s : OL!Contents(h, s) = Contents(h, s)
    /\ \A h, s, v, e : OL!AppendTo(h, s, v, e) = AppendTo(h, s, v, e)
    /\ \A h, s, i : OL!DeleteAt(h, s, i) = DeleteAt(h, s, i)
  BY DEF OL!Contents, Contents, OL!AppendTo, AppendTo, OL!DeleteAt, DeleteAt, OL!Capacity, Capacity

\* The crew is the bots in a sequence.
LEMMA CrewFacts ==
    /\ OL!Bots = Bots /\ Crew \in Seq(Bots) /\ Len(Crew) \in Nat /\ DOMAIN Crew = 1 .. Len(Crew)
    /\ \A b \in Bots : \E i \in 1 .. Len(Crew) : b = Crew[i]
    /\ Bots \subseteq Threads
<1>1. OL!Bots = Bots
  BY DEF OL!Bots, OL!Range, Bots
<1>2. Crew \in Seq(Bots)
  BY <1>1, OwnerAssumption DEF OL!OwnerAssumption
<1>3. Len(Crew) \in Nat /\ DOMAIN Crew = 1 .. Len(Crew)
  BY <1>2
<1> QED
  BY <1>1, <1>2, <1>3 DEF Bots, Threads

\* The constants of the list of owners.
LEMMA OwnerBounds ==
    /\ MaxOwners \in Nat /\ Room \in Nat /\ Growth \in Nat
    /\ StoredOwners \in OL!Lists /\ None \notin OL!Lists /\ <<>> \in OL!Lists
<1>1. MaxOwners \in Nat /\ Room \in Nat /\ Growth \in Nat /\ StoredOwners \in OL!Lists /\ None \notin OL!Lists
  BY OwnerAssumption DEF OL!OwnerAssumption
<1>2. <<>> \in [1 .. 0 -> Masks] /\ 0 \in 0 .. MaxOwners
  BY <1>1
<1> QED
  BY <1>1, <1>2 DEF OL!Lists

Masters(h, o) == HeapOf(h, MaskSlots) /\ Good(h, o, Masks) /\ o.len <= MaxOwners

\* What a slice of owners shows is a list.
LEMMA MastersShown == ASSUME NEW h, NEW o, Masters(h, o) PROVE Contents(h, o) \in OL!Lists
<1>1. Contents(h, o) \in Seq(Masks) /\ Len(Contents(h, o)) = o.len /\ o.len \in Nat /\ o.len <= MaxOwners
  <2>1. HeapOf(h, MaskSlots) /\ Good(h, o, Masks) /\ o.len <= MaxOwners
    BY DEF Masters
  <2>2. Contents(h, o) \in Seq(Masks) /\ Len(Contents(h, o)) = o.len
    BY <2>1, Shown
  <2>3. o.len \in Nat
    BY <2>1 DEF Good
  <2> QED
    BY <2>1, <2>2, <2>3
<1> DEFINE c == Contents(h, o)
<1> HIDE DEF c
<1>2. c \in [1 .. o.len -> Masks] /\ o.len \in 0 .. MaxOwners
  BY <1>1, OwnerBounds DEF c
<1> QED
  BY <1>2 DEF OL!Lists, c

\* What a bounded list of owners is.
LEMMA MastersTyped == \A l \in OL!Lists : l \in Seq(Masks) /\ Len(l) <= MaxOwners /\ Len(l) \in Nat
  BY OwnerBounds DEF OL!Lists

\* persistOwners begins with a snapshot.
Begun(t) == job' = [job EXCEPT ![t] = [pc |-> "truncate", list |-> OL!Owners', bot |-> 1]]

\* An edit of the owners leaves the state typed.
LEMMA BegunTyped ==
    ASSUME OwnerTyped, NEW t \in Threads, Begun(t), Masters(ownerHeap', owners'), Good(ownerHeap', start', Masks),
           UNCHANGED <<ownerFile, view, failed>>
    PROVE  OwnerTyped'
<1>1. HeapOf(ownerHeap', MaskSlots) /\ Good(ownerHeap', owners', Masks) /\ owners'.len <= MaxOwners
  BY DEF Masters
<1>2. OL!Owners' \in OL!Lists
  BY MastersShown, OwnerSlices DEF OL!Owners
<1> DEFINE v == [pc |-> "truncate", list |-> OL!Owners', bot |-> 1]
<1>3. v \in Jobs
  BY <1>2, CrewFacts DEF Jobs
<1>4. job' = [job EXCEPT ![t] = v]
  BY DEF Begun
<1> HIDE DEF v
<1>5. job' \in [Threads -> Jobs]
  BY <1>3, <1>4 DEF OwnerTyped
<1> QED
  BY <1>1, <1>5 DEF OwnerTyped

\* The list of owners now.
LEMMA MastersNow == ASSUME OwnerTyped PROVE Masters(ownerHeap, owners) /\ owners.len \in Nat /\ Good(ownerHeap, start, Masks)
  BY DEF OwnerTyped, Masters, Good

\* AddOwner, whole.
LEMMA AddOwnerFacts ==
    ASSUME OwnerTyped, NEW t \in Threads, NEW m \in Masks, OL!AddOwner(t, m)
    PROVE  OwnerTyped' /\ Begun(t) /\ job[t].pc = "idle" /\ UNCHANGED <<start, ownerFile, view, failed>>
<1> DEFINE v == <<m>>
           e == [i \in 1 .. Growth |-> None]
           r == AppendTo(ownerHeap, owners, v, e)
<1>1. /\ ownerHeap' = r.heap /\ owners' = r.slice /\ job[t].pc = "idle" /\ owners.len < MaxOwners
      /\ UNCHANGED <<start, ownerFile, view, failed>>
  BY OwnerSlices DEF OL!AddOwner
<1>2. Begun(t)
  BY DEF OL!AddOwner, OL!Snapshot, Begun
<1>3. v \in Seq(Masks) /\ Len(v) = 1 /\ e \in Seq(MaskSlots) /\ Masks \subseteq MaskSlots
  BY OwnerBounds DEF MaskSlots
<1>4. HeapOf(ownerHeap, MaskSlots) /\ Good(ownerHeap, owners, Masks) /\ Good(ownerHeap, start, Masks) /\ owners.len \in Nat
  BY MastersNow DEF Masters
<1> HIDE DEF v, e
<1>5. Holds(ownerHeap, owners, Masks, MaskSlots, v, e, r)
  BY <1>3, <1>4, Appended
<1> HIDE DEF r
<1>6. /\ HeapOf(r.heap, MaskSlots) /\ Good(r.heap, r.slice, Masks) /\ r.slice.len = owners.len + 1
      /\ Good(r.heap, start, Masks)
  BY <1>3, <1>4, <1>5 DEF Holds
<1>7. Masters(ownerHeap', owners') /\ Good(ownerHeap', start', Masks)
  BY <1>1, <1>4, <1>6, OwnerBounds DEF Masters
<1> QED
  BY <1>1, <1>2, <1>7, BegunTyped

\* DeleteFacts, of any heap.
LEMMA Deleted ==
    ASSUME NEW V, NEW W, V \subseteq W
    PROVE  \A h, s : \A i \in 1 .. s.len : HeapOf(h, W) /\ Good(h, s, V) =>
             /\ HeapOf(DeleteAt(h, s, i).heap, W) /\ Good(DeleteAt(h, s, i).heap, DeleteAt(h, s, i).slice, V)
             /\ DeleteAt(h, s, i).slice.len = s.len - 1
             /\ \A u : Good(h, u, V) => Good(DeleteAt(h, s, i).heap, u, V)
<1> SUFFICES ASSUME NEW h, NEW s, NEW i \in 1 .. s.len, HeapOf(h, W), Good(h, s, V), NEW r, r = DeleteAt(h, s, i)
             PROVE  /\ HeapOf(r.heap, W) /\ Good(r.heap, r.slice, V) /\ r.slice.len = s.len - 1
                    /\ \A u : Good(h, u, V) => Good(r.heap, u, V)
  OBVIOUS
<1> QED
  BY DeleteFacts

\* RemoveOwner, whole.
LEMMA RemoveOwnerFacts ==
    ASSUME OwnerTyped, NEW t \in Threads, NEW m \in Masks, OL!RemoveOwner(t, m)
    PROVE  OwnerTyped' /\ Begun(t) /\ job[t].pc = "idle" /\ UNCHANGED <<start, ownerFile, view, failed>>
<1>1. PICK i \in OL!Positions(m) :
             ownerHeap' = DeleteAt(ownerHeap, owners, i).heap /\ owners' = DeleteAt(ownerHeap, owners, i).slice
  BY OwnerSlices DEF OL!RemoveOwner
<1>2. Begun(t) /\ job[t].pc = "idle" /\ UNCHANGED <<start, ownerFile, view, failed>>
  BY DEF OL!RemoveOwner, OL!Snapshot, Begun
<1>3. /\ HeapOf(ownerHeap, MaskSlots) /\ Good(ownerHeap, owners, Masks) /\ Good(ownerHeap, start, Masks)
      /\ owners.len \in Nat /\ owners.len <= MaxOwners /\ i \in 1 .. owners.len /\ Masks \subseteq MaskSlots
  BY MastersNow DEF Masters, OL!Positions, MaskSlots
<1> DEFINE r == DeleteAt(ownerHeap, owners, i)
<1>4. /\ HeapOf(r.heap, MaskSlots) /\ Good(r.heap, r.slice, Masks) /\ r.slice.len = owners.len - 1
      /\ Good(r.heap, start, Masks)
  BY <1>3, Deleted
<1>5. ownerHeap' = r.heap /\ owners' = r.slice
  BY <1>1
<1> HIDE DEF r
<1>6. Masters(ownerHeap', owners') /\ Good(ownerHeap', start', Masks)
  BY <1>2, <1>3, <1>4, <1>5, OwnerBounds DEF Masters
<1> QED
  BY <1>2, <1>6, BegunTyped

\* What persistOwners goes on to is a job again.
LEMMA JobFacts ==
    ASSUME OwnerTyped, NEW t \in Threads
    PROVE  /\ job[t] \in Jobs /\ job[t].list \in OL!Lists /\ job[t].bot \in 1 .. Len(Crew) + 1 /\ job[t].bot \in Nat
           /\ OL!Idle \in Jobs
           /\ \A l \in {"write", "fan", "announce"} : [job[t] EXCEPT !.pc = l] \in Jobs
<1>1. job[t] \in Jobs /\ Len(Crew) \in Nat
  BY CrewFacts DEF OwnerTyped
<1>2. job[t].list \in OL!Lists /\ job[t].bot \in 1 .. Len(Crew) + 1 /\ job[t].bot \in Nat
  BY <1>1 DEF Jobs
<1>3. 1 \in 1 .. Len(Crew) + 1
  BY <1>1
<1>4. OL!Idle \in Jobs
  BY <1>3, OwnerBounds DEF Jobs, OL!Idle
<1>5. \A l \in {"write", "fan", "announce"} : [job[t] EXCEPT !.pc = l] \in Jobs
  BY <1>1 DEF Jobs
<1> QED
  BY <1>1, <1>2, <1>4, <1>5

\* The steps of persistOwners.
LEMMA TruncateFacts ==
    ASSUME OwnerTyped, NEW t \in Threads, OL!Truncate(t)
    PROVE  /\ OwnerTyped' /\ job[t].pc = "truncate" /\ UNCHANGED <<ownerHeap, owners, start, view>>
           /\ \/ /\ ownerFile' = None /\ UNCHANGED failed
                 /\ job' = [job EXCEPT ![t] = [job[t] EXCEPT !.pc = "write"]]
              \/ failed' = TRUE /\ UNCHANGED ownerFile /\ job' = [job EXCEPT ![t] = OL!Idle]
<1>1. /\ job[t].pc = "truncate" /\ UNCHANGED <<ownerHeap, owners, start, view>>
      /\ \/ /\ ownerFile' = None /\ UNCHANGED failed
            /\ job' = [job EXCEPT ![t] = [job[t] EXCEPT !.pc = "write"]]
         \/ failed' = TRUE /\ UNCHANGED ownerFile /\ job' = [job EXCEPT ![t] = OL!Idle]
  BY DEF OL!Truncate, OwnerTyped
<1>2. \E v \in Jobs : job' = [job EXCEPT ![t] = v]
  BY <1>1, JobFacts
<1>3. job' \in [Threads -> Jobs]
  BY <1>2 DEF OwnerTyped
<1>4. ownerFile' \in OL!Lists \cup {None, Torn} /\ failed' \in BOOLEAN
  BY <1>1 DEF OwnerTyped
<1> QED
  BY <1>1, <1>3, <1>4 DEF OwnerTyped

\* The write ends, or fails.
LEMMA WriteFacts ==
    ASSUME OwnerTyped, NEW t \in Threads, OL!Write(t)
    PROVE  /\ OwnerTyped' /\ job[t].pc = "write" /\ UNCHANGED <<ownerHeap, owners, start, view, failed>>
           /\ ownerFile = None => ownerFile' = job[t].list
           /\ job' = [job EXCEPT ![t] = [job[t] EXCEPT !.pc = "fan"]]
<1>1. /\ job[t].pc = "write" /\ UNCHANGED <<ownerHeap, owners, start, view, failed>>
      /\ ownerFile = None => ownerFile' = job[t].list
      /\ ownerFile' \in {job[t].list, Torn}
  BY DEF OL!Write
<1>2. job' = [job EXCEPT ![t] = [job[t] EXCEPT !.pc = "fan"]]
  BY DEF OL!Write
<1>3. \E v \in Jobs : job' = [job EXCEPT ![t] = v]
  BY <1>2, JobFacts
<1>4. job' \in [Threads -> Jobs]
  BY <1>3 DEF OwnerTyped
<1>5. ownerFile' \in OL!Lists \cup {None, Torn}
  BY <1>1, JobFacts
<1> QED
  BY <1>1, <1>2, <1>4, <1>5 DEF OwnerTyped

\* One bot is given the snapshot, or all were.
LEMMA FanOutFacts ==
    ASSUME OwnerTyped, NEW t \in Threads, OL!FanOut(t)
    PROVE  /\ OwnerTyped' /\ job[t].pc = "fan" /\ UNCHANGED <<ownerHeap, owners, start, ownerFile, failed>>
           /\ \/ /\ job[t].bot <= Len(Crew) /\ view' = [view EXCEPT ![Crew[job[t].bot]] = job[t].list]
                 /\ job' = [job EXCEPT ![t] = [job[t] EXCEPT !.bot = job[t].bot + 1]]
              \/ /\ job[t].bot = Len(Crew) + 1 /\ UNCHANGED view
                 /\ job' = [job EXCEPT ![t] = [job[t] EXCEPT !.pc = "announce"]]
<1>1. job[t].pc = "fan" /\ UNCHANGED <<ownerHeap, owners, start, ownerFile, failed>>
  BY DEF OL!FanOut
<1>2. job[t] \in Jobs /\ job[t].list \in OL!Lists /\ job[t].bot \in 1 .. Len(Crew) + 1 /\ job[t].bot \in Nat /\ Len(Crew) \in Nat
  BY JobFacts, CrewFacts
<1>3. CASE job[t].bot <= Len(Crew)
  <2>1. view' = [view EXCEPT ![Crew[job[t].bot]] = job[t].list]
    BY <1>3 DEF OL!FanOut
  <2>2. job' = [job EXCEPT ![t] = [job[t] EXCEPT !.bot = job[t].bot + 1]]
    BY <1>3 DEF OL!FanOut
  <2>3. view' \in [Bots -> OL!Lists \cup {None}]
    BY <1>2, <2>1 DEF OwnerTyped
  <2> DEFINE v == [job[t] EXCEPT !.bot = job[t].bot + 1]
  <2>4. job[t].bot + 1 \in 1 .. Len(Crew) + 1
    BY <1>2, <1>3
  <2>5. v \in Jobs
    BY <1>2, <2>4 DEF Jobs
  <2> HIDE DEF v
  <2>6. job' \in [Threads -> Jobs]
    BY <2>2, <2>5 DEF OwnerTyped, v
  <2> QED
    BY <1>1, <1>3, <2>1, <2>2, <2>3, <2>6 DEF OwnerTyped
<1>4. CASE ~(job[t].bot <= Len(Crew))
  <2>1. job[t].bot = Len(Crew) + 1
    BY <1>2, <1>4
  <2>2. UNCHANGED view
    BY <1>4 DEF OL!FanOut
  <2>3. job' = [job EXCEPT ![t] = [job[t] EXCEPT !.pc = "announce"]]
    BY <1>4 DEF OL!FanOut
  <2>4. \E v \in Jobs : job' = [job EXCEPT ![t] = v]
    BY <2>3, JobFacts
  <2>5. job' \in [Threads -> Jobs]
    BY <2>4 DEF OwnerTyped
  <2> QED
    BY <1>1, <2>1, <2>2, <2>3, <2>5 DEF OwnerTyped
<1> QED
  BY <1>3, <1>4

\* OwnersChanged is announced.
LEMMA OwnersChangedFacts ==
    ASSUME OwnerTyped, NEW t \in Threads, OL!OwnersChanged(t)
    PROVE  /\ OwnerTyped' /\ job[t].pc = "announce" /\ UNCHANGED <<ownerHeap, owners, start, ownerFile, view>>
           /\ failed' = FALSE /\ job' = [job EXCEPT ![t] = OL!Idle]
<1>1. /\ job[t].pc = "announce" /\ UNCHANGED <<ownerHeap, owners, start, ownerFile, view>>
      /\ failed' = FALSE /\ job' = [job EXCEPT ![t] = OL!Idle]
  BY DEF OL!OwnersChanged
<1>2. job' \in [Threads -> Jobs]
  BY <1>1, JobFacts DEF OwnerTyped
<1> QED
  BY <1>1, <1>2 DEF OwnerTyped

\* What a bot manager starts with.
LEMMA LoadedFacts ==
    ASSUME NEW l \in OL!Lists, NEW h, h = <<OL!Decoded(l)>>, NEW o, o = [at |-> 1, len |-> Len(l)]
    PROVE  Masters(h, o) /\ Contents(h, o) = l
<1>1. l \in Seq(Masks) /\ Len(l) <= MaxOwners /\ Len(l) \in Nat /\ Room \in Nat
  BY MastersTyped, OwnerBounds
<1> DEFINE e == [i \in 1 .. Room |-> None]
           a == l \o e
<1>2. l \in Seq(MaskSlots) /\ e \in Seq(MaskSlots) /\ Len(e) = Room
  BY <1>1 DEF MaskSlots
<1> HIDE DEF e
<1>3. a \in Seq(MaskSlots) /\ Len(a) = Len(l) + Room /\ \A i \in 1 .. Len(l) : a[i] = l[i]
  BY <1>2, ConcatFacts
<1>4. h = <<a>>
  BY DEF OL!Decoded, e
<1> HIDE DEF a
<1>5. HeapOf(h, MaskSlots) /\ DOMAIN h = {1} /\ h[1] = a
  BY <1>3, <1>4 DEF HeapOf
<1>6. o.at = 1 /\ o.len = Len(l) /\ o \in [at : Nat, len : Nat]
  BY <1>1
<1>7. \A i \in 1 .. Len(l) : a[i] \in Masks
  BY <1>1, <1>3
<1>8. Good(h, o, Masks)
  BY <1>1, <1>3, <1>5, <1>6, <1>7 DEF Good
<1> DEFINE c == Contents(h, o)
<1>9. c \in Seq(Masks) /\ Len(c) = o.len /\ \A i \in 1 .. o.len : c[i] = h[o.at][i]
  BY <1>5, <1>8, Shown
<1> HIDE DEF c
<1>10. Len(c) = Len(l) /\ \A i \in 1 .. Len(c) : c[i] = l[i]
  BY <1>1, <1>3, <1>5, <1>6, <1>9
<1>11. c = l
  BY <1>1, <1>9, <1>10, SameSequence
<1> QED
  BY <1>1, <1>5, <1>6, <1>8, <1>11 DEF Masters, c

\* LoadOwners at the start ...
LEMMA OwnerInit ==
    ASSUME OL!Init
    PROVE  /\ OwnerTyped /\ ownerFile = OL!Owners /\ start = owners /\ \A b \in Bots : view[b] = None
           /\ job = [t \in Threads |-> OL!Idle]
<1>1. /\ ownerHeap = <<OL!Decoded(StoredOwners)>> /\ owners = [at |-> 1, len |-> Len(StoredOwners)]
      /\ ownerFile = StoredOwners /\ start = owners /\ view = [b \in Bots |-> None]
      /\ job = [t \in Threads |-> OL!Idle] /\ failed = FALSE /\ StoredOwners \in OL!Lists
  BY CrewFacts, OwnerBounds DEF OL!Init
<1>2. Masters(ownerHeap, owners) /\ Contents(ownerHeap, owners) = StoredOwners
  BY <1>1, LoadedFacts
<1>3. OL!Idle \in Jobs
  BY CrewFacts, OwnerBounds DEF Jobs, OL!Idle
<1>4. OwnerTyped
  BY <1>1, <1>2, <1>3 DEF OwnerTyped, Masters
<1> QED
  BY <1>1, <1>2, <1>4, OwnerSlices DEF OL!Owners

\* ... and after a restart.
LEMMA OwnerRestart ==
    ASSUME OwnerTyped, OL!Restart
    PROVE  /\ OwnerTyped' /\ ownerFile' = OL!Owners' /\ start' = owners' /\ (\A b \in Bots : view[b] = None)'
           /\ job' = [t \in Threads |-> OL!Idle]
<1>1. /\ ownerHeap' = <<OL!Decoded(ownerFile)>> /\ owners' = [at |-> 1, len |-> Len(ownerFile)]
      /\ ownerFile' = ownerFile /\ start' = owners' /\ view' = [b \in Bots |-> None]
      /\ job' = [t \in Threads |-> OL!Idle] /\ failed' = FALSE /\ ownerFile \in OL!Lists
  BY CrewFacts DEF OL!Restart
<1>2. Masters(ownerHeap', owners') /\ Contents(ownerHeap', owners') = ownerFile
  BY <1>1, LoadedFacts
<1>3. OL!Idle \in Jobs
  BY CrewFacts, OwnerBounds DEF Jobs, OL!Idle
<1>4. OwnerTyped'
  BY <1>1, <1>2, <1>3 DEF OwnerTyped, Masters
<1> QED
  BY <1>1, <1>2, <1>4, OwnerSlices DEF OL!Owners

\* What leaves the list of owners alone.
LEMMA OwnerSame == ASSUME OwnerTyped, UNCHANGED ownerVars PROVE OwnerTyped' /\ OL!Owners' = OL!Owners
  BY DEF OwnerTyped, ownerVars, OL!Owners

-----------------------------------------------------------------------------
(* Threads. *)

\* Where a thread is, and the others.
LEMMA GoFacts ==
    ASSUME ThreadTyped, NEW t \in Threads, NEW l \in Where, Go(t, l)
    PROVE  pc' \in [Threads -> Where] /\ pc'[t] = l /\ \A u \in Threads : u # t => pc'[u] = pc[u]
  BY DEF ThreadTyped, Go

\* The key under which a command is collected.
LEMMA KeyFacts ==
    ASSUME NEW t \in Threads \ Clients, doing[t] \in Commands
    PROVE  /\ Key(t) \in Keys
           /\ t \in Bots => Key(t) = KeyOf("channel", doing[t])
           /\ t \notin Bots => Key(t).where # "channel"
<1>1. CASE t \in Bots
  BY <1>1 DEF Key, Keys, KeyOf
<1>2. CASE t \notin Bots
  <2>1. Peer[t] \in Bots /\ "channel" \notin Bots
    BY <1>2, ThreadAssumption DEF Threads
  <2>2. Key(t) = KeyOf(Peer[t], doing[t])
    BY <1>2 DEF Key
  <2>3. Key(t) \in Keys /\ Key(t).where = Peer[t]
    BY <2>1, <2>2 DEF Keys, KeyOf
  <2> QED
    BY <1>2, <2>1, <2>3
<1> QED
  BY <1>1, <1>2

\* A thread that goes on with the same command.
LEMMA StepTyped ==
    ASSUME Typed, NEW t \in Threads, NEW l \in Where, Go(t, l), pc[t] # "idle",
           UNCHANGED <<speech, doing>>, holder' \in Threads \cup {None}
    PROVE  SpeechTyped' /\ ThreadTyped' /\ Occupied'
<1>1. ThreadTyped /\ SpeechTyped /\ Occupied
  BY DEF Typed
<1>2. pc' \in [Threads -> Where] /\ pc'[t] = l /\ \A u \in Threads : u # t => pc'[u] = pc[u]
  BY <1>1, GoFacts
<1>3. play' = play /\ said' = said /\ heard' = heard /\ calls' = calls /\ doing' = doing
  BY DEF speech
<1>4. SpeechTyped' /\ ThreadTyped'
  BY <1>1, <1>2, <1>3 DEF SpeechTyped, ThreadTyped
<1>5. Occupied'
  BY <1>1, <1>2, <1>3 DEF Occupied
<1> QED
  BY <1>4, <1>5

\* A thread that takes up a command.
LEMMA TakeTyped ==
    ASSUME Typed, NEW t \in Threads, NEW l \in Where, NEW c \in Commands, Go(t, l), doing' = [doing EXCEPT ![t] = c],
           SpeechTyped', \A b \in Bots : heard'[b] >= heard[b], t \in Bots => heard'[t] > 0, UNCHANGED holder
    PROVE  ThreadTyped' /\ Occupied'
<1>1. ThreadTyped /\ SpeechTyped /\ Occupied
  BY DEF Typed
<1>2. pc' \in [Threads -> Where] /\ pc'[t] = l /\ \A u \in Threads : u # t => pc'[u] = pc[u]
  BY <1>1, GoFacts
<1>3. doing' \in [Threads -> Commands \cup {None}] /\ doing'[t] = c /\ \A u \in Threads : u # t => doing'[u] = doing[u]
  BY <1>1 DEF ThreadTyped
<1>4. ThreadTyped'
  BY <1>1, <1>2, <1>3 DEF ThreadTyped
<1>5. \A b \in Bots : heard[b] \in Nat /\ heard'[b] \in Nat
  <2>1. heard \in [Bots -> 0 .. Len(said)] /\ heard' \in [Bots -> 0 .. Len(said')]
    BY <1>1 DEF SpeechTyped
  <2> QED
    BY <2>1
<1>6. Occupied'
  <2> SUFFICES ASSUME NEW u \in Threads, pc'[u] # "idle" PROVE doing'[u] \in Commands /\ (u \in Bots => heard'[u] > 0)
    BY DEF Occupied
  <2>1. CASE u = t
    BY <1>3, <2>1
  <2>2. CASE u # t
    <3>1. doing[u] \in Commands /\ (u \in Bots => heard[u] > 0)
      BY <1>1, <1>2, <2>2 DEF Occupied
    <3> QED
      BY <1>3, <1>5, <2>2, <3>1
  <2> QED
    BY <2>1, <2>2
<1> QED
  BY <1>4, <1>6

\* What a step does not touch stays typed.
LEMMA Same ==
    ASSUME Typed
    PROVE  /\ UNCHANGED nickVars => NickTyped'
           /\ UNCHANGED ownerVars => OwnerTyped'
           /\ UNCHANGED speech => SpeechTyped'
           /\ UNCHANGED <<pc, doing, holder>> => ThreadTyped'
           /\ UNCHANGED reactions => ReactTyped'
           /\ UNCHANGED mass => MassTyped'
           /\ UNCHANGED <<speech, history>> => HistoryTyped'
           /\ UNCHANGED <<speech, pc, doing>> => Occupied'
<1>1. UNCHANGED nickVars => NickTyped'
  BY NickSame DEF Typed
<1>2. UNCHANGED ownerVars => OwnerTyped'
  BY OwnerSame DEF Typed
<1>3. UNCHANGED speech => SpeechTyped'
  BY DEF Typed, SpeechTyped, speech
<1>4. UNCHANGED <<pc, doing, holder>> => ThreadTyped'
  BY DEF Typed, ThreadTyped
<1>5. UNCHANGED reactions => ReactTyped'
  BY DEF Typed, ReactTyped, reactions
<1>6. (UNCHANGED mass => MassTyped') /\ (UNCHANGED <<speech, history>> => HistoryTyped')
  BY DEF Typed, MassTyped, HistoryTyped, mass, speech, history
<1>7. UNCHANGED <<speech, pc, doing>> => Occupied'
  BY DEF Typed, Occupied, speech
<1> QED
  BY <1>1, <1>2, <1>3, <1>4, <1>5, <1>6, <1>7

-----------------------------------------------------------------------------
(* The type invariant, action by action. *)

\* Say keeps the state typed.
LEMMA SayTyped == ASSUME Typed, NEW c \in Commands, Say(c) PROVE Typed'
<1>1. /\ said' = Append(said, c) /\ heard' = heard /\ calls' = calls /\ play' = play /\ late' = late \cup Pending
      /\ UNCHANGED <<nickVars, ownerVars, pc, doing, holder, reactions, mass, applied, crossed>>
  BY DEF Say
<1>2. SpeechTyped /\ HistoryTyped /\ Occupied
  BY DEF Typed
<1>3. said' \in Seq(Commands) /\ Len(said') = Len(said) + 1 /\ Len(said) \in Nat /\ DOMAIN said \subseteq DOMAIN said'
  BY <1>1, <1>2 DEF SpeechTyped
<1>4. SpeechTyped'
  <2>1. heard' \in [Bots -> 0 .. Len(said')]
    BY <1>1, <1>2, <1>3 DEF SpeechTyped
  <2> QED
    BY <1>1, <1>2, <1>3, <2>1 DEF SpeechTyped
<1>5. HistoryTyped'
  BY <1>1, <1>2, <1>3 DEF HistoryTyped, Pending
<1>6. Occupied'
  BY <1>1, <1>2 DEF Occupied
<1> QED
  BY <1>1, <1>4, <1>5, <1>6, Same DEF Typed

\* What Hear does.
LEMMA HearFacts ==
    ASSUME Typed, NEW b \in Bots, Hear(b)
    PROVE  /\ pc[b] = "idle" /\ heard[b] < Len(said) /\ heard' = [heard EXCEPT ![b] = heard[b] + 1]
           /\ heard[b] \in Nat /\ Len(said) \in Nat /\ b \in Threads /\ said[heard[b] + 1] \in Commands
           /\ \/ /\ IF said[heard[b] + 1].kind = "join" THEN "join" \notin cooling /\ cooling' = {"join"}
                                                       ELSE UNCHANGED cooling
                 /\ doing' = [doing EXCEPT ![b] = said[heard[b] + 1]] /\ Go(b, "collect")
              \/ UNCHANGED <<cooling, doing, pc>>
           /\ UNCHANGED <<nickVars, ownerVars, play, said, calls, holder, reactions, massed, history>>
<1>1. /\ pc[b] = "idle" /\ heard[b] < Len(said) /\ heard' = [heard EXCEPT ![b] = heard[b] + 1]
      /\ UNCHANGED <<nickVars, ownerVars, play, said, calls, holder, reactions, massed, history>>
  BY DEF Hear
<1>2. heard[b] \in 0 .. Len(said) /\ said \in Seq(Commands) /\ Len(said) \in Nat
  BY DEF Typed, SpeechTyped
<1>3. heard[b] + 1 \in 1 .. Len(said)
  BY <1>1, <1>2
<1>4. said[heard[b] + 1] \in Commands
  BY <1>2, <1>3
<1>5. \/ /\ IF said[heard[b] + 1].kind = "join" THEN "join" \notin cooling /\ cooling' = {"join"}
                                              ELSE UNCHANGED cooling
         /\ doing' = [doing EXCEPT ![b] = said[heard[b] + 1]] /\ Go(b, "collect")
      \/ UNCHANGED <<cooling, doing, pc>>
  BY DEF Hear, CanExecuteMassCommand
<1> QED
  BY <1>1, <1>2, <1>4, <1>5, CrewFacts

\* Hear keeps the state typed.
LEMMA HearTyped == ASSUME Typed, NEW b \in Bots, Hear(b) PROVE Typed'
<1> DEFINE c == said[heard[b] + 1]
<1>1. /\ pc[b] = "idle" /\ heard[b] < Len(said) /\ heard' = [heard EXCEPT ![b] = heard[b] + 1]
      /\ heard[b] \in Nat /\ Len(said) \in Nat /\ b \in Threads /\ c \in Commands
      /\ \/ /\ IF c.kind = "join" THEN "join" \notin cooling /\ cooling' = {"join"} ELSE UNCHANGED cooling
            /\ doing' = [doing EXCEPT ![b] = c] /\ Go(b, "collect")
         \/ UNCHANGED <<cooling, doing, pc>>
      /\ UNCHANGED <<nickVars, ownerVars, play, said, calls, holder, reactions, massed, history>>
  BY HearFacts
<1> HIDE DEF c
<1>2. heard \in [Bots -> 0 .. Len(said)] /\ said \in Seq(Commands) /\ play \in Plays /\ calls \in 0 .. play.calls
  BY DEF Typed, SpeechTyped
<1>3. heard[b] + 1 \in 0 .. Len(said) /\ heard[b] + 1 > 0 /\ heard[b] + 1 >= heard[b]
  BY <1>1
<1>4. heard' \in [Bots -> 0 .. Len(said)] /\ heard'[b] = heard[b] + 1 /\ \A x \in Bots : x # b => heard'[x] = heard[x]
  BY <1>1, <1>2, <1>3
<1>5. SpeechTyped'
  BY <1>1, <1>2, <1>4 DEF SpeechTyped
<1>6. \A x \in Bots : heard[x] \in Nat /\ heard'[x] >= heard[x]
  BY <1>2, <1>3, <1>4
<1>7. heard'[b] > 0
  BY <1>3, <1>4
<1>8. ThreadTyped' /\ Occupied'
  <2>1. CASE doing' = [doing EXCEPT ![b] = c] /\ Go(b, "collect")
    <3>1. "collect" \in Where
      BY DEF Where
    <3> QED
      BY <1>1, <1>5, <1>6, <1>7, <2>1, <3>1, TakeTyped
  <2>2. CASE UNCHANGED <<doing, pc>>
    <3>1. ThreadTyped'
      BY <1>1, <2>2 DEF Typed, ThreadTyped
    <3>2. ASSUME NEW u \in Threads, pc[u] # "idle" PROVE doing[u] \in Commands /\ (u \in Bots => heard'[u] > 0)
      <4>1. doing[u] \in Commands /\ (u \in Bots => heard[u] > 0)
        BY <3>2 DEF Typed, Occupied
      <4> QED
        BY <1>1, <1>4, <3>2, <4>1
    <3> QED
      BY <2>2, <3>1, <3>2 DEF Occupied
  <2> QED
    BY <1>1, <2>1, <2>2
<1>9. MassTyped' /\ HistoryTyped'
  BY <1>1 DEF Typed, MassTyped, HistoryTyped, history
<1> QED
  BY <1>1, <1>5, <1>8, <1>9, Same DEF Typed

\* What chats and clients begin.
Begins(t, c) ==
    /\ t \in Chats \cup Clients /\ \E l \in {"collect", "act"} : Begin(t, c, l) /\ (l = "act" <=> t \in Clients)
    /\ \/ UNCHANGED cooling /\ (c.kind = "join" => t \in Chats)
       \/ t \in Clients /\ c.kind = "join" /\ "join" \notin cooling /\ cooling' = {"join"}

\* The chats and the clients take up a command in one of two ways.
LEMMA BeginsFacts ==
    ASSUME NEW t \in Threads, NEW c \in Commands,
           \/ ChatNicks(t, c) \/ ChatOwners(t, c) \/ ChatMass(t, c)
           \/ CallNicks(t, c) \/ CallOwners(t, c) \/ CallMass(t, c)
    PROVE  Begins(t, c)
<1>1. Chats \cap Clients = {}
  BY ThreadAssumption
<1>2. ASSUME Chat(t, c) PROVE Begins(t, c)
  BY <1>1, <1>2 DEF Chat, Begins
<1>3. CASE ChatNicks(t, c) \/ ChatOwners(t, c) \/ ChatMass(t, c)
  BY <1>2, <1>3 DEF ChatNicks, ChatOwners, ChatMass
<1>4. CASE CallNicks(t, c)
  BY <1>1, <1>4 DEF CallNicks, Begins
<1>5. CASE CallOwners(t, c)
  BY <1>1, <1>5 DEF CallOwners, Begins
<1>6. CASE CallMass(t, c)
  BY <1>1, <1>6 DEF CallMass, CanExecuteMassCommand, Begins
<1> QED
  BY <1>3, <1>4, <1>5, <1>6

\* What taking one up does.
LEMMA BeginFacts ==
    ASSUME Typed, NEW t \in Threads, NEW c \in Commands, Begins(t, c)
    PROVE  /\ t \notin Bots /\ pc[t] = "idle" /\ doing' = [doing EXCEPT ![t] = c]
           /\ \E l \in {"collect", "act"} : Go(t, l) /\ (l = "act" <=> t \in Clients)
           /\ calls' = calls + 1 /\ calls < play.calls
           /\ UNCHANGED <<nickVars, ownerVars, play, said, heard, holder, reactions, massed, history>>
<1>1. PICK l \in {"collect", "act"} : Begin(t, c, l) /\ (l = "act" <=> t \in Clients)
  BY DEF Begins
<1>2. t \notin Bots
  BY ThreadAssumption DEF Begins
<1> QED
  BY <1>1, <1>2 DEF Begin

\* One more call is within the bounds.
LEMMA CallsTyped == ASSUME Typed, calls < play.calls, calls' = calls + 1, play' = play PROVE calls' \in 0 .. play'.calls
<1>1. calls \in 0 .. play.calls /\ play.calls \in Nat
  BY PlaysAssumption DEF Typed, SpeechTyped
<1> QED
  BY <1>1

\* It keeps the state typed.
LEMMA BeginTyped == ASSUME Typed, NEW t \in Threads, NEW c \in Commands, Begins(t, c) PROVE Typed'
<1>1. PICK l \in {"collect", "act"} : Go(t, l)
  BY BeginFacts
<1>2. /\ t \notin Bots /\ doing' = [doing EXCEPT ![t] = c] /\ calls' = calls + 1 /\ calls < play.calls
      /\ UNCHANGED <<nickVars, ownerVars, play, said, heard, holder, reactions, massed, history>>
  BY BeginFacts
<1>3. SpeechTyped'
  <2>1. calls' \in 0 .. play'.calls
    BY <1>2, CallsTyped
  <2> QED
    BY <1>2, <2>1 DEF Typed, SpeechTyped
<1>4. \A b \in Bots : heard'[b] >= heard[b]
  <2>1. heard \in [Bots -> 0 .. Len(said)]
    BY DEF Typed, SpeechTyped
  <2> QED
    BY <1>2, <2>1
<1>5. ThreadTyped' /\ Occupied'
  BY <1>1, <1>2, <1>3, <1>4, TakeTyped DEF Where
<1>6. MassTyped' /\ HistoryTyped'
  BY <1>2 DEF Typed, MassTyped, HistoryTyped, Begins, history
<1> QED
  BY <1>2, <1>3, <1>5, <1>6, Same DEF Typed

\* A join that is asked for in a query is executed at once.
LEMMA QueryFacts ==
    ASSUME NEW t \in Threads, NEW c \in Commands, QueryMass(t, c)
    PROVE  /\ calls < play.calls /\ calls' = calls + 1 /\ "join" \notin cooling /\ cooling' = {"join"}
           /\ massed' = massed + 1
           /\ UNCHANGED <<nickVars, ownerVars, play, said, heard, pc, doing, holder, reactions, history>>
  BY DEF QueryMass, CanExecuteMassCommand

\* It keeps the state typed.
LEMMA QueryTyped == ASSUME Typed, NEW t \in Threads, NEW c \in Commands, QueryMass(t, c) PROVE Typed'
<1>1. /\ calls < play.calls /\ calls' = calls + 1 /\ cooling' = {"join"} /\ massed' = massed + 1
      /\ UNCHANGED <<nickVars, ownerVars, play, said, heard, pc, doing, holder, reactions, history>>
  BY QueryFacts
<1>2. calls' \in 0 .. play'.calls
  BY <1>1, CallsTyped
<1>3. SpeechTyped' /\ MassTyped' /\ HistoryTyped' /\ Occupied'
  BY <1>1, <1>2 DEF Typed, SpeechTyped, MassTyped, HistoryTyped, Occupied, history
<1> QED
  BY <1>1, <1>3, Same DEF Typed

\* Ignore keeps the state typed.
LEMMA IgnoreTyped == ASSUME Typed, NEW t \in Threads, Ignore(t) PROVE Typed'
<1>1. /\ pc[t] = "collect" /\ Go(t, "idle")
      /\ UNCHANGED <<nickVars, ownerVars, speech, doing, holder, reactions, mass, history>>
  BY DEF Ignore
<1>2. holder \in Threads \cup {None} /\ "idle" \in Where
  BY DEF Typed, ThreadTyped, Where
<1>3. SpeechTyped' /\ ThreadTyped' /\ Occupied'
  BY <1>1, <1>2, StepTyped
<1> QED
  BY <1>1, <1>3, Same DEF Typed

\* Collect keeps the state typed.
LEMMA CollectTyped == ASSUME Typed, NEW t \in Threads, Collect(t) PROVE Typed'
<1>1. /\ pc[t] = "collect" /\ Go(t, "act") /\ holder' = t
      /\ UNCHANGED <<nickVars, ownerVars, speech, doing, reactions, mass, history>>
  BY DEF Collect
<1>2. holder' \in Threads \cup {None} /\ "act" \in Where
  BY <1>1 DEF Where
<1>3. SpeechTyped' /\ ThreadTyped' /\ Occupied'
  BY <1>1, <1>2, StepTyped
<1> QED
  BY <1>1, <1>3, Same DEF Typed

\* What an action does, by kinds.
ActsOnNicks(t) ==
    /\ \/ doing[t].kind = "addnick" /\ NL!AddNick(t, doing[t].arg)
       \/ doing[t].kind = "delnick" /\ NL!RemoveNick(t, doing[t].arg)
    /\ Go(t, IF unsent'[t] = None THEN "error" ELSE "announce")
    /\ IF unsent'[t] = None THEN UNCHANGED crossed ELSE Crosses(t, "nicks", {u \in Threads : unsent[u] # None})
    /\ UNCHANGED <<ownerVars, massed>>
ActsOnOwners(t) ==
    /\ \/ doing[t].kind = "addowner" /\ OL!AddOwner(t, doing[t].arg)
       \/ doing[t].kind = "delowner" /\ OL!RemoveOwner(t, doing[t].arg)
    /\ Go(t, "persist") /\ Crosses(t, "owners", {u \in Threads : job[u].pc # "idle"})
    /\ UNCHANGED <<nickVars, massed>>
ActsNot(t) == (Go(t, "error") \/ Go(t, "ok")) /\ UNCHANGED <<nickVars, ownerVars, massed, crossed>>
ActsOnAll(t) == MassCommand(t) /\ UNCHANGED <<nickVars, ownerVars, crossed>>

\* What Act does, by the kind of command.
LEMMA ActFacts ==
    ASSUME NEW t \in Threads, Act(t)
    PROVE  /\ pc[t] = "act" /\ UNCHANGED <<speech, doing, holder, reactions, cooling, applied, late>>
           /\ ActsOnNicks(t) \/ ActsOnOwners(t) \/ ActsNot(t) \/ ActsOnAll(t)
<1>1. pc[t] = "act" /\ UNCHANGED <<speech, doing, holder, reactions, cooling, applied, late>>
  BY DEF Act
<1>2. CASE EditNicks(t) /\ UNCHANGED <<ownerVars, massed>>
  <2> DEFINE told == {u \in Threads : unsent[u] # None}
             goes == \/ unsent'[t] = None /\ Go(t, "error") /\ UNCHANGED crossed
                     \/ unsent'[t] # None /\ Go(t, "announce") /\ Crosses(t, "nicks", told)
  <2>1. \/ doing[t].kind = "addnick" /\ NL!AddNick(t, doing[t].arg) /\ goes
        \/ doing[t].kind = "delnick" /\ NL!RemoveNick(t, doing[t].arg) /\ goes
        \/ Go(t, "error") /\ UNCHANGED <<nickVars, crossed>>
    BY <1>2 DEF EditNicks
  <2>2. goes => /\ Go(t, IF unsent'[t] = None THEN "error" ELSE "announce")
                /\ IF unsent'[t] = None THEN UNCHANGED crossed ELSE Crosses(t, "nicks", told)
    OBVIOUS
  <2> HIDE DEF goes
  <2> QED
    BY <1>1, <1>2, <2>1, <2>2 DEF ActsOnNicks, ActsNot
<1>3. CASE EditOwners(t) /\ UNCHANGED <<nickVars, massed>>
  BY <1>1, <1>3 DEF EditOwners, ActsOnOwners, ActsNot
<1>4. CASE TellList(t) /\ UNCHANGED <<nickVars, ownerVars, massed, crossed>>
  BY <1>1, <1>4 DEF TellList, ActsNot
<1>5. CASE MassCommand(t) /\ UNCHANGED <<nickVars, ownerVars, crossed>>
  BY <1>1, <1>5 DEF ActsOnAll
<1> QED
  BY <1>1, <1>2, <1>3, <1>4, <1>5 DEF Act

\* The argument of an edit fits its kind.
LEMMA ArgumentFacts ==
    ASSUME Typed, NEW t \in Threads, pc[t] # "idle"
    PROVE  /\ doing[t] \in Commands
           /\ doing[t].kind \in {"addnick", "delnick"} => doing[t].arg \in Names
           /\ doing[t].kind \in {"addowner", "delowner"} => doing[t].arg \in Masks
  BY CommandAssumption DEF Typed, Occupied

\* Act on the lists of nicks.
LEMMA NickActFacts ==
    ASSUME Typed, NEW t \in Threads, pc[t] # "idle", ActsOnNicks(t)
    PROVE  /\ NickTyped' /\ Saved(t) /\ UNCHANGED <<slack, mirror>> /\ unsent[t] = None
           /\ Apart /\ NL!Agree => Apart' /\ NL!Agree'
           /\ Go(t, IF unsent'[t] = None THEN "error" ELSE "announce")
<1>1. NickTyped
  BY DEF Typed
<1>2. \/ doing[t].kind = "addnick" /\ NL!AddNick(t, doing[t].arg)
      \/ doing[t].kind = "delnick" /\ NL!RemoveNick(t, doing[t].arg)
  BY DEF ActsOnNicks
<1>3. doing[t].arg \in Names
  BY <1>2, ArgumentFacts
<1> QED
  BY <1>1, <1>2, <1>3, AddNickFacts, RemoveNickFacts DEF ActsOnNicks

\* Act on the list of owners.
LEMMA OwnerActFacts ==
    ASSUME Typed, NEW t \in Threads, pc[t] # "idle", ActsOnOwners(t)
    PROVE  OwnerTyped' /\ Begun(t) /\ job[t].pc = "idle" /\ UNCHANGED <<start, ownerFile, view, failed>>
<1>1. OwnerTyped
  BY DEF Typed
<1>2. \/ doing[t].kind = "addowner" /\ OL!AddOwner(t, doing[t].arg)
      \/ doing[t].kind = "delowner" /\ OL!RemoveOwner(t, doing[t].arg)
  BY DEF ActsOnOwners
<1>3. doing[t].arg \in Masks
  BY <1>2, ArgumentFacts
<1> QED
  BY <1>1, <1>2, <1>3, AddOwnerFacts, RemoveOwnerFacts

\* Act keeps the state typed.
LEMMA ActTyped == ASSUME Typed, NEW t \in Threads, Act(t) PROVE Typed'
<1>1. /\ pc[t] = "act" /\ UNCHANGED <<speech, doing, holder, reactions, cooling, applied, late>>
      /\ ActsOnNicks(t) \/ ActsOnOwners(t) \/ ActsNot(t) \/ ActsOnAll(t)
  BY ActFacts
<1>2. holder' \in Threads \cup {None} /\ MassTyped
  BY <1>1 DEF Typed, ThreadTyped
<1>3. \E l \in Where : Go(t, l)
  <2>1. {"error", "announce", "persist", "ok"} \subseteq Where
    BY DEF Where
  <2> QED
    BY <1>1, <2>1 DEF ActsOnNicks, ActsOnOwners, ActsNot, ActsOnAll, MassCommand
<1>4. SpeechTyped' /\ ThreadTyped' /\ Occupied'
  BY <1>1, <1>2, <1>3, StepTyped
<1>5. MassTyped'
  <2>1. massed' = massed \/ massed' = massed + 1
    BY <1>1 DEF ActsOnNicks, ActsOnOwners, ActsNot, ActsOnAll, MassCommand
  <2> QED
    BY <1>1, <1>2, <2>1 DEF MassTyped
<1>6. NickTyped' /\ OwnerTyped'
  <2>1. CASE ActsOnNicks(t)
    <3>1. UNCHANGED ownerVars
      BY <2>1 DEF ActsOnNicks
    <3> QED
      BY <1>1, <2>1, <3>1, NickActFacts, Same
  <2>2. CASE ActsOnOwners(t)
    <3>1. UNCHANGED nickVars
      BY <2>2 DEF ActsOnOwners
    <3> QED
      BY <1>1, <2>2, <3>1, OwnerActFacts, Same
  <2>3. CASE ActsNot(t) \/ ActsOnAll(t)
    BY <2>3, Same DEF ActsNot, ActsOnAll
  <2> QED
    BY <1>1, <2>1, <2>2, <2>3
<1>7. HistoryTyped'
  <2>1. crossed' = crossed \/ crossed' \in {crossed \cup {"nicks"}, crossed \cup {"owners"}, crossed \ {"nicks"}, crossed \ {"owners"}}
    BY <1>1 DEF ActsOnNicks, ActsOnOwners, ActsNot, ActsOnAll, Crosses
  <2>2. crossed \subseteq {"nicks", "owners"}
    BY DEF Typed, HistoryTyped
  <2>3. crossed' \subseteq {"nicks", "owners"}
    BY <2>1, <2>2
  <2> QED
    BY <1>1, <2>3 DEF Typed, HistoryTyped, speech
<1> QED
  BY <1>1, <1>4, <1>5, <1>6, <1>7, Same DEF Typed

\* NicksChanged keeps the state typed.
LEMMA NicksChangedTyped == ASSUME Typed, NEW t \in Threads, NicksChanged(t) PROVE Typed'
<1>1. /\ pc[t] = "announce" /\ NL!NicksChanged(t) /\ Go(t, "ok")
      /\ UNCHANGED <<ownerVars, speech, doing, holder, reactions, mass, history>>
  BY DEF NicksChanged
<1>2. holder' \in Threads \cup {None} /\ "ok" \in Where /\ NickTyped
  BY <1>1 DEF Typed, ThreadTyped, Where
<1>3. SpeechTyped' /\ ThreadTyped' /\ Occupied' /\ NickTyped'
  BY <1>1, <1>2, StepTyped, NicksChangedFacts
<1> QED
  BY <1>1, <1>3, Same DEF Typed

\* A step of persistOwners, with where the thread goes.
LEMMA PersistFacts ==
    ASSUME Typed, NEW t \in Threads, Persist(t)
    PROVE  /\ pc[t] = "persist" /\ UNCHANGED <<nickVars, speech, doing, holder, reactions, mass, history>>
           /\ OL!Truncate(t) \/ OL!Write(t) \/ OL!FanOut(t) \/ OL!OwnersChanged(t)
           /\ OwnerTyped'
           /\ \/ Go(t, "persist") /\ job'[t].pc # "idle"
              \/ (Go(t, "error") \/ Go(t, "ok")) /\ job'[t].pc = "idle"
           /\ \A u \in Threads : u # t => job'[u] = job[u]
<1>1. /\ pc[t] = "persist" /\ UNCHANGED <<nickVars, speech, doing, holder, reactions, mass, history>>
      /\ OL!Truncate(t) \/ OL!Write(t) \/ OL!FanOut(t) \/ OL!OwnersChanged(t)
  BY DEF Persist
<1>2. OwnerTyped /\ pc \in [Threads -> Where] /\ job \in [Threads -> Jobs]
  BY DEF Typed, ThreadTyped, OwnerTyped
<1>3. UNCHANGED pc => Go(t, "persist")
  BY <1>1, <1>2 DEF Go
<1>4. OL!Idle.pc = "idle" /\ job[t] \in Jobs
  BY <1>2 DEF OL!Idle
<1>5. CASE OL!Truncate(t) /\ Go(t, IF job'[t].pc = "idle" THEN "error" ELSE "persist")
  <2>1. OwnerTyped' /\ \E v \in Jobs : job' = [job EXCEPT ![t] = v]
    BY <1>2, <1>5, TruncateFacts, JobFacts
  <2> QED
    BY <1>1, <1>2, <1>5, <2>1
<1>6. CASE OL!Write(t) /\ UNCHANGED pc
  <2>1. OwnerTyped' /\ job' = [job EXCEPT ![t] = [job[t] EXCEPT !.pc = "fan"]]
    BY <1>2, <1>6, WriteFacts
  <2> QED
    BY <1>1, <1>2, <1>3, <1>4, <1>6, <2>1 DEF Jobs
<1>7. CASE OL!FanOut(t) /\ UNCHANGED pc
  <2>1. /\ OwnerTyped' /\ job[t].pc = "fan"
        /\ \/ job' = [job EXCEPT ![t] = [job[t] EXCEPT !.bot = job[t].bot + 1]]
           \/ job' = [job EXCEPT ![t] = [job[t] EXCEPT !.pc = "announce"]]
    BY <1>2, <1>7, FanOutFacts
  <2> QED
    BY <1>1, <1>2, <1>3, <1>4, <1>7, <2>1 DEF Jobs
<1>8. CASE OL!OwnersChanged(t) /\ Go(t, "ok")
  <2>1. OwnerTyped' /\ job' = [job EXCEPT ![t] = OL!Idle]
    BY <1>2, <1>8, OwnersChangedFacts
  <2> QED
    BY <1>1, <1>2, <1>4, <1>8, <2>1
<1> QED
  BY <1>5, <1>6, <1>7, <1>8 DEF Persist

\* Persist keeps the state typed.
LEMMA PersistTyped == ASSUME Typed, NEW t \in Threads, Persist(t) PROVE Typed'
<1>1. /\ pc[t] = "persist" /\ UNCHANGED <<nickVars, speech, doing, holder, reactions, mass, history>>
      /\ OwnerTyped' /\ (Go(t, "persist") \/ Go(t, "error") \/ Go(t, "ok"))
  BY PersistFacts
<1>2. holder' \in Threads \cup {None} /\ {"persist", "error", "ok"} \subseteq Where
  BY <1>1 DEF Typed, ThreadTyped, Where
<1>3. SpeechTyped' /\ ThreadTyped' /\ Occupied'
  BY <1>1, <1>2, StepTyped
<1> QED
  BY <1>1, <1>3, Same DEF Typed

\* Release keeps the threads typed.
LEMMA ReleaseTyped ==
    ASSUME Typed, NEW t \in Threads, pc[t] # "idle", Release(t), UNCHANGED <<speech, doing>>
    PROVE  SpeechTyped' /\ ThreadTyped' /\ Occupied'
<1>1. Go(t, "idle") /\ holder' = (IF t \in Clients THEN holder ELSE None)
  BY DEF Release
<1>2. holder' \in Threads \cup {None} /\ "idle" \in Where
  BY <1>1 DEF Typed, ThreadTyped, Where
<1> QED
  BY <1>1, <1>2, StepTyped

\* What Succeed does, for clients and for the others.
LEMMA SucceedFacts ==
    ASSUME Typed, NEW t \in Threads, Succeed(t)
    PROVE  /\ pc[t] = "ok" /\ Release(t) /\ doing[t] \in Commands
           /\ \/ t \in Clients /\ UNCHANGED reactions
              \/ /\ t \notin Clients /\ Key(t) \in Keys
                 /\ recent' = [recent EXCEPT ![Key(t)] = doing[t]] /\ stale' = stale \ {Key(t)}
                 /\ timers' = [timers EXCEPT ![Key(t)] = timers[Key(t)] + 1] /\ UNCHANGED errorHandled
           /\ t \in Bots => applied' = Append(applied, heard[t])
           /\ t \notin Bots => UNCHANGED applied
           /\ UNCHANGED <<nickVars, ownerVars, speech, doing, mass, late, crossed>>
<1>1. pc[t] = "ok" /\ Release(t) /\ UNCHANGED <<nickVars, ownerVars, speech, doing, mass, late, crossed>>
  BY DEF Succeed
<1>2. doing[t] \in Commands
  BY <1>1, ArgumentFacts
<1>3. t \notin Clients => Key(t) \in Keys
  BY <1>2, KeyFacts
<1>4. \/ t \in Clients /\ UNCHANGED reactions
      \/ /\ t \notin Clients
         /\ recent' = [recent EXCEPT ![Key(t)] = doing[t]] /\ stale' = stale \ {Key(t)}
         /\ timers' = [timers EXCEPT ![Key(t)] = timers[Key(t)] + 1] /\ UNCHANGED errorHandled
  BY DEF Succeed
<1>5. (t \in Bots => applied' = Append(applied, heard[t])) /\ (t \notin Bots => UNCHANGED applied)
  BY DEF Succeed
<1> QED
  BY <1>1, <1>2, <1>3, <1>4, <1>5

\* Succeed keeps the state typed.
LEMMA SucceedTyped == ASSUME Typed, NEW t \in Threads, Succeed(t) PROVE Typed'
<1>1. /\ pc[t] = "ok" /\ Release(t) /\ doing[t] \in Commands
      /\ UNCHANGED <<nickVars, ownerVars, speech, doing, mass, late, crossed>>
  BY SucceedFacts
<1>2. ReactTyped'
  <2>1. CASE UNCHANGED reactions
    BY <2>1, Same
  <2>2. CASE /\ Key(t) \in Keys /\ recent' = [recent EXCEPT ![Key(t)] = doing[t]] /\ stale' = stale \ {Key(t)}
             /\ timers' = [timers EXCEPT ![Key(t)] = timers[Key(t)] + 1] /\ UNCHANGED errorHandled
    <3> DEFINE k == Key(t)
    <3>1. ReactTyped /\ k \in Keys
      BY <2>2 DEF Typed
    <3> HIDE DEF k
    <3>2. timers[k] + 1 \in Nat
      BY <3>1 DEF ReactTyped
    <3>3. recent' = [recent EXCEPT ![k] = doing[t]] /\ timers' = [timers EXCEPT ![k] = timers[k] + 1] /\ stale' = stale \ {k}
      BY <2>2 DEF k
    <3> QED
      BY <1>1, <2>2, <3>1, <3>2, <3>3 DEF ReactTyped
  <2> QED
    BY <2>1, <2>2, SucceedFacts
<1>3. HistoryTyped'
  <2>1. CASE t \in Bots
    <3>1. applied' = Append(applied, heard[t]) /\ HistoryTyped
      BY <2>1, SucceedFacts DEF Typed
    <3>2. heard[t] \in 0 .. Len(said) /\ heard[t] > 0
      BY <1>1, <2>1 DEF Typed, SpeechTyped, Occupied
    <3>3. heard[t] \in Nat \ {0}
      BY <3>2
    <3>4. applied' \in Seq(Nat \ {0})
      BY <3>1, <3>3 DEF HistoryTyped
    <3> QED
      BY <1>1, <3>1, <3>4 DEF HistoryTyped, speech
  <2>2. CASE t \notin Bots
    <3>1. applied' = applied
      BY <2>2, SucceedFacts
    <3> QED
      BY <1>1, <3>1 DEF Typed, HistoryTyped, speech
  <2> QED
    BY <2>1, <2>2
<1>4. SpeechTyped' /\ ThreadTyped' /\ Occupied'
  BY <1>1, ReleaseTyped
<1> QED
  BY <1>1, <1>2, <1>3, <1>4, Same DEF Typed

\* Fail keeps the state typed.
LEMMA FailTyped == ASSUME Typed, NEW t \in Threads, Fail(t) PROVE Typed'
<1>1. /\ pc[t] = "error" /\ Release(t)
      /\ UNCHANGED <<nickVars, ownerVars, speech, doing, mass, history, recent, stale>>
  BY DEF Fail
<1>2. doing[t] \in Commands
  BY <1>1, ArgumentFacts
<1>3. (t \notin Clients => Key(t) \in Keys) /\ ReactTyped
  BY <1>2, KeyFacts DEF Typed
<1>4. ReactTyped'
  <2>1. CASE UNCHANGED <<timers, errorHandled>>
    BY <1>1, <1>3, <2>1 DEF ReactTyped
  <2>2. CASE t \notin Clients /\ errorHandled' = TRUE /\ timers' = [timers EXCEPT ![Key(t)] = timers[Key(t)] + 1]
    <3> DEFINE k == Key(t)
    <3>1. k \in Keys /\ timers' = [timers EXCEPT ![k] = timers[k] + 1]
      BY <1>3, <2>2
    <3> HIDE DEF k
    <3>2. timers[k] + 1 \in Nat
      BY <1>3, <3>1 DEF ReactTyped
    <3>3. timers' \in [Keys -> Nat]
      BY <1>3, <3>1, <3>2 DEF ReactTyped
    <3> QED
      BY <1>1, <1>3, <2>2, <3>3 DEF ReactTyped
  <2> QED
    BY <2>1, <2>2 DEF Fail
<1>5. SpeechTyped' /\ ThreadTyped' /\ Occupied'
  BY <1>1, ReleaseTyped
<1> QED
  BY <1>1, <1>4, <1>5, Same DEF Typed

\* What is forgotten was said.
LEMMA ForgetsTyped == ASSUME Typed, NEW k, Forgets(k), UNCHANGED <<speech, applied, crossed>> PROVE HistoryTyped'
  BY DEF Typed, HistoryTyped, Forgets, Pending, speech

\* Age keeps the state typed.
LEMMA AgeTyped == ASSUME Typed, NEW k \in Keys, Age(k) PROVE Typed'
<1>1. /\ stale' = stale \cup {k} /\ Forgets(k)
      /\ UNCHANGED <<nickVars, ownerVars, speech, pc, doing, holder, recent, timers, errorHandled, mass, applied, crossed>>
  BY DEF Age
<1>2. ReactTyped' /\ HistoryTyped'
  BY <1>1, ForgetsTyped DEF Typed, ReactTyped
<1> QED
  BY <1>1, <1>2, Same DEF Typed

\* Cleanup keeps the state typed.
LEMMA CleanupTyped == ASSUME Typed, NEW k \in Keys, Cleanup(k) PROVE Typed'
<1>1. /\ timers[k] > 0 /\ timers' = [timers EXCEPT ![k] = timers[k] - 1]
      /\ recent' = [recent EXCEPT ![k] = None] /\ stale' = stale \ {k} /\ errorHandled' = FALSE /\ Forgets(k)
      /\ UNCHANGED <<nickVars, ownerVars, speech, pc, doing, holder, mass, applied, crossed>>
  BY DEF Cleanup
<1>2. ReactTyped
  BY DEF Typed
<1>3. timers[k] - 1 \in Nat
  BY <1>1, <1>2 DEF ReactTyped
<1>4. timers' \in [Keys -> Nat] /\ recent' \in [Keys -> Commands \cup {None}]
  BY <1>1, <1>2, <1>3 DEF ReactTyped
<1>5. ReactTyped' /\ HistoryTyped'
  BY <1>1, <1>2, <1>4, ForgetsTyped DEF ReactTyped
<1> QED
  BY <1>1, <1>5, Same DEF Typed

\* CooldownOver keeps the state typed.
LEMMA CooldownTyped == ASSUME Typed, CooldownOver PROVE Typed'
<1>1. /\ cooling' = {} /\ massed' = 0
      /\ UNCHANGED <<nickVars, ownerVars, speech, pc, doing, holder, reactions, history>>
  BY DEF CooldownOver
<1>2. MassTyped'
  BY <1>1 DEF MassTyped
<1> QED
  BY <1>1, <1>2, Same DEF Typed

\* Restart makes a typed state.
LEMMA RestartTyped == ASSUME Typed, Restart PROVE Typed'
<1>1. /\ calls < play.calls /\ calls' = calls + 1 /\ NL!Restart /\ OL!Restart
      /\ heard' = [b \in Bots |-> Len(said)]
      /\ pc' = [t \in Threads |-> "idle"] /\ doing' = [t \in Threads |-> None] /\ holder' = None
      /\ recent' = [k \in Keys |-> None] /\ stale' = {} /\ timers' = [k \in Keys |-> 0]
      /\ errorHandled' = FALSE /\ cooling' = {} /\ massed' = 0 /\ crossed' = {}
      /\ UNCHANGED <<play, said, applied, late>>
  BY DEF Restart
<1>2. NickTyped' /\ OwnerTyped'
  BY <1>1, NickRestart, OwnerRestart DEF Typed
<1>3. SpeechTyped'
  <2>1. calls' \in 0 .. play'.calls
    BY <1>1, CallsTyped
  <2>2. Len(said) \in 0 .. Len(said)
    BY DEF Typed, SpeechTyped
  <2> QED
    BY <1>1, <2>1, <2>2 DEF Typed, SpeechTyped
<1>4. ThreadTyped' /\ ReactTyped' /\ MassTyped' /\ Occupied'
  BY <1>1 DEF ThreadTyped, ReactTyped, MassTyped, Occupied, Where
<1>5. HistoryTyped'
  BY <1>1 DEF Typed, HistoryTyped
<1> QED
  BY <1>2, <1>3, <1>4, <1>5 DEF Typed

\* The first state is typed.
LEMMA InitTyped == Init => Typed
<1> SUFFICES ASSUME Init PROVE Typed
  OBVIOUS
<1>1. NickTyped /\ OwnerTyped
  BY NickInit, OwnerInit DEF Init
<1>2. SpeechTyped
  <2>1. play \in Plays /\ play.calls \in Nat /\ said = <<>> /\ heard = [b \in Bots |-> 0] /\ calls = 0
    BY PlaysAssumption DEF Init
  <2> QED
    BY <2>1 DEF SpeechTyped
<1>3. ThreadTyped /\ ReactTyped /\ MassTyped /\ Occupied
  BY DEF Init, ThreadTyped, ReactTyped, MassTyped, Occupied, Where
<1>4. HistoryTyped
  BY DEF Init, HistoryTyped
<1> QED
  BY <1>1, <1>2, <1>3, <1>4 DEF Typed

\* Next by actions.
LEMMA NextActions ==
    ASSUME [Next]_vars
    PROVE  \/ \E c \in Commands : Say(c)
           \/ \E c \in Commands, t \in Threads : Begins(t, c)
           \/ \E c \in Commands, t \in Threads : QueryMass(t, c)
           \/ \E b \in Bots : Hear(b)
           \/ \E t \in Threads : Step(t)
           \/ \E k \in Keys : Age(k) \/ Cleanup(k)
           \/ CooldownOver \/ Restart \/ UNCHANGED vars
<1>1. (\E c \in Commands, t \in Threads :
         \/ ChatNicks(t, c) \/ ChatOwners(t, c) \/ ChatMass(t, c)
         \/ CallNicks(t, c) \/ CallOwners(t, c) \/ CallMass(t, c))
      => \E c \in Commands, t \in Threads : Begins(t, c)
  BY BeginsFacts
<1> QED
  BY <1>1 DEF Next

\* Every step keeps the state typed.
LEMMA NextTyped == Typed /\ [Next]_vars => Typed'
<1> SUFFICES ASSUME Typed, [Next]_vars PROVE Typed'
  OBVIOUS
<1>1. ASSUME NEW c \in Commands, Say(c) PROVE Typed'
  BY <1>1, SayTyped
<1>2. ASSUME NEW c \in Commands, NEW t \in Threads, Begins(t, c) PROVE Typed'
  BY <1>2, BeginTyped
<1>3. ASSUME NEW b \in Bots, Hear(b) PROVE Typed'
  BY <1>3, HearTyped
<1>4. ASSUME NEW t \in Threads, Step(t) PROVE Typed'
  BY <1>4, IgnoreTyped, CollectTyped, ActTyped, NicksChangedTyped, PersistTyped, SucceedTyped, FailTyped DEF Step
<1>5. ASSUME NEW k \in Keys, Age(k) \/ Cleanup(k) PROVE Typed'
  BY <1>5, AgeTyped, CleanupTyped
<1>6. CASE CooldownOver
  BY <1>6, CooldownTyped
<1>7. CASE Restart
  BY <1>7, RestartTyped
<1>8. CASE UNCHANGED vars
  BY <1>8, Same DEF vars, Typed
<1>9. ASSUME NEW c \in Commands, NEW t \in Threads, QueryMass(t, c) PROVE Typed'
  BY <1>9, QueryTyped
<1> QED
  BY <1>1, <1>2, <1>3, <1>4, <1>5, <1>6, <1>7, <1>8, <1>9, NextActions

\* So it is always typed.
LEMMA TypedHolds == Spec => []Typed
  BY InitTyped, NextTyped, PTL DEF Spec

\* The parts make TypeOK.
LEMMA TypedOK == Typed => TypeOK
<1> SUFFICES ASSUME Typed PROVE TypeOK
  OBVIOUS
<1>1. NL!TypeOK
  <2>1. \A s : Good(nickHeap, s, Names) => s.at \in DOMAIN nickHeap /\ s.len \in 0 .. NL!Capacity(nickHeap, s)
    BY DEF Typed, NickTyped, HeapOf, Good, NL!Capacity
  <2>2. \A s : Good(nickHeap, s, Names) => \A i \in 1 .. s.len : nickHeap[s.at][i] \in Names
    BY DEF Good
  <2> QED
    BY <2>1, <2>2 DEF Typed, NickTyped, NL!TypeOK
<1>2. OL!TypeOK
  <2>1. \A s : Good(ownerHeap, s, Masks) => s.at \in DOMAIN ownerHeap /\ s.len \in 0 .. OL!Capacity(ownerHeap, s)
    BY DEF Typed, OwnerTyped, HeapOf, Good, OL!Capacity
  <2>2. OL!Contents(ownerHeap, owners) \in OL!Lists
    BY MastersNow, MastersShown, OwnerSlices DEF Typed
  <2> QED
    BY <2>1, <2>2, CrewFacts DEF Typed, OwnerTyped, OL!TypeOK, Jobs
<1> QED
  BY <1>1, <1>2 DEF Typed, TypeOK, SpeechTyped, ThreadTyped, ReactTyped, MassTyped, HistoryTyped, Where

\* The types of the lists, of the commands under way and of the reactions.
THEOREM TypeCorrect == Spec => []TypeOK
  BY TypedHolds, TypedOK, PTL

-----------------------------------------------------------------------------
(* bm.reactionMutex excludes the bots and the chats from one another. *)

\* The three sorts of threads.
LEMMA ThreadFacts ==
    /\ None \notin Threads /\ Clients \subseteq Threads /\ Bots \cap Clients = {} /\ Chats \cap Clients = {}
    /\ Bots \cap Chats = {} /\ Bots \subseteq Threads /\ Chats \subseteq Threads
  BY ThreadAssumption DEF Threads

\* One thread moves and nobody takes or frees the mutex.
LEMMA LockedMoves ==
    ASSUME Typed, Locked, NEW t \in Threads, NEW l \in Where, Go(t, l),
           \A u \in Threads : u # t => unsent'[u] = unsent[u] /\ job'[u] = job[u],
           unsent'[t] # None <=> l = "announce",
           job'[t].pc # "idle" <=> l = "persist",
           t \in Clients => l # "collect" /\ holder' # t,
           t \notin Clients => (l \in AtWork <=> holder' = t),
           \A u \in Threads : u # t => (holder' = u <=> holder = u)
    PROVE  Locked'
<1>1. pc'[t] = l /\ \A u \in Threads : u # t => pc'[u] = pc[u]
  BY GoFacts DEF Typed
<1>2. \A u \in Threads \ Clients : Working(u)' <=> holder' = u
  BY <1>1 DEF Locked, Working
<1>3. \A u \in Clients : pc'[u] # "collect" /\ holder' # u
  BY <1>1, ThreadFacts DEF Locked
<1>4. \A u \in Threads : /\ unsent'[u] # None <=> pc'[u] = "announce"
                         /\ job'[u].pc # "idle" <=> pc'[u] = "persist"
  BY <1>1 DEF Locked
<1> QED
  BY <1>2, <1>3, <1>4 DEF Locked

\* No thread moves.
LEMMA LockedSame ==
    ASSUME Locked, UNCHANGED <<nickVars, ownerVars, pc, holder>>
    PROVE  Locked'
  BY DEF Locked, Working, nickVars, ownerVars

\* What Locked says of one thread.
LEMMA LockedNow ==
    ASSUME Locked, NEW t \in Threads
    PROVE  /\ unsent[t] # None <=> pc[t] = "announce"
           /\ job[t].pc # "idle" <=> pc[t] = "persist"
           /\ t \in Clients => pc[t] # "collect" /\ holder # t
           /\ t \notin Clients => (pc[t] \in AtWork <=> holder = t)
  BY DEF Locked, Working

\* What SaveNicks leaves to announce.
LEMMA SavedFacts ==
    ASSUME Typed, NEW t \in Threads, Saved(t), NickTyped', unsent[t] = None
    PROVE  /\ \A u \in Threads : u # t => unsent'[u] = unsent[u]
           /\ unsent'[t] # None => /\ unsent'[t] = nickFile'
           /\ unsent'[t] = None => UNCHANGED <<nickFile, unsent>>
<1>1. unsent \in [Threads -> {None} \cup NL!Lists]
  BY DEF Typed, NickTyped
<1>2. None \notin NL!Lists
  BY NickAssumption DEF NL!ListAssumption
<1>3. CASE UNCHANGED <<nickFile, unsent>>
  BY <1>3
<1>4. CASE nickFile' = NL!Priority' /\ unsent' = [unsent EXCEPT ![t] = NL!Priority']
  <2>1. unsent'[t] = nickFile' /\ nickFile' \in NL!Lists
    BY <1>1, <1>4 DEF NickTyped
  <2> QED
    BY <1>1, <1>2, <1>4, <2>1
<1> QED
  BY <1>3, <1>4 DEF Saved

\* Only the editor's own job begins.
LEMMA BegunFacts ==
    ASSUME Typed, NEW t \in Threads, Begun(t)
    PROVE  /\ \A u \in Threads : u # t => job'[u] = job[u]
           /\ job'[t] = [pc |-> "truncate", list |-> OL!Owners', bot |-> 1]
  BY DEF Typed, OwnerTyped, Begun

\* Act keeps the holder.
LEMMA ActLocked == ASSUME Typed, Locked, NEW t \in Threads, Act(t) PROVE Locked'
<1>1. /\ pc[t] = "act" /\ UNCHANGED <<speech, doing, holder, reactions, cooling, applied, late>>
      /\ ActsOnNicks(t) \/ ActsOnOwners(t) \/ ActsNot(t) \/ ActsOnAll(t)
  BY ActFacts
<1>2. /\ unsent[t] = None /\ job[t].pc = "idle"
      /\ t \in Clients => holder # t
      /\ t \notin Clients => holder = t
  BY <1>1, LockedNow DEF AtWork
<1>3. {"announce", "persist", "error", "ok"} \subseteq Where
  BY DEF Where
<1>4. CASE ActsOnNicks(t)
  <2>1. /\ NickTyped' /\ Saved(t) /\ unsent[t] = None
        /\ Go(t, IF unsent'[t] = None THEN "error" ELSE "announce")
    BY <1>1, <1>4, NickActFacts
  <2>2. \A u \in Threads : u # t => unsent'[u] = unsent[u]
    BY <2>1, SavedFacts
  <2>3. job' = job
    BY <1>4 DEF ActsOnNicks, ownerVars
  <2> DEFINE l == IF unsent'[t] = None THEN "error" ELSE "announce"
  <2>4. l \in Where /\ l \in AtWork /\ l # "collect" /\ l # "persist" /\ (l = "announce" <=> unsent'[t] # None) /\ Go(t, l)
    BY <1>3, <2>1 DEF AtWork
  <2> HIDE DEF l
  <2> QED
    BY <1>1, <1>2, <2>2, <2>3, <2>4, LockedMoves
<1>5. CASE ActsOnOwners(t)
  <2>1. Begun(t) /\ Go(t, "persist") /\ unsent' = unsent
    BY <1>1, <1>5, OwnerActFacts DEF ActsOnOwners, nickVars
  <2>2. (\A u \in Threads : u # t => job'[u] = job[u]) /\ job'[t].pc # "idle"
    BY <2>1, BegunFacts
  <2>3. "persist" \in AtWork
    BY DEF AtWork
  <2> QED
    BY <1>1, <1>2, <1>3, <2>1, <2>2, <2>3, LockedMoves
<1>6. CASE ActsNot(t) \/ ActsOnAll(t)
  <2>1. unsent' = unsent /\ job' = job /\ \E l \in {"error", "ok"} : Go(t, l)
    BY <1>6 DEF ActsNot, ActsOnAll, MassCommand, nickVars, ownerVars
  <2>2. PICK l \in {"error", "ok"} : Go(t, l)
    BY <2>1
  <2>3. l \in Where /\ l \in AtWork /\ l # "announce" /\ l # "persist" /\ l # "collect"
    BY <1>3 DEF AtWork
  <2> QED
    BY <1>1, <1>2, <2>1, <2>2, <2>3, LockedMoves
<1> QED
  BY <1>1, <1>4, <1>5, <1>6

\* Persist keeps the holder.
LEMMA PersistLocked == ASSUME Typed, Locked, NEW t \in Threads, Persist(t) PROVE Locked'
<1>1. /\ pc[t] = "persist" /\ unsent' = unsent /\ holder' = holder
      /\ \/ Go(t, "persist") /\ job'[t].pc # "idle"
         \/ (Go(t, "error") \/ Go(t, "ok")) /\ job'[t].pc = "idle"
      /\ \A u \in Threads : u # t => job'[u] = job[u]
  BY PersistFacts DEF nickVars
<1>2. PICK l \in {"persist", "error", "ok"} : Go(t, l) /\ (job'[t].pc # "idle" <=> l = "persist")
  BY <1>1
<1>3. /\ unsent[t] = None /\ (t \in Clients => holder # t) /\ (t \notin Clients => holder = t)
  BY <1>1, LockedNow DEF AtWork
<1>4. l \in Where /\ l \in AtWork /\ l # "announce" /\ l # "collect"
  BY DEF Where, AtWork
<1> QED
  BY <1>1, <1>2, <1>3, <1>4, LockedMoves

\* Release frees the mutex, when it was taken.
LEMMA ReleaseLocked ==
    ASSUME Typed, Locked, NEW t \in Threads, pc[t] \in {"ok", "error"}, Release(t), UNCHANGED <<nickVars, ownerVars>>
    PROVE  Locked'
<1>1. Go(t, "idle") /\ holder' = (IF t \in Clients THEN holder ELSE None) /\ unsent' = unsent /\ job' = job
  BY DEF Release, nickVars, ownerVars
<1>2. /\ unsent[t] = None /\ job[t].pc = "idle" /\ (t \in Clients => holder # t) /\ (t \notin Clients => holder = t)
  BY LockedNow DEF AtWork
<1>3. "idle" \in Where /\ "idle" \notin AtWork
  BY DEF Where, AtWork
<1>4. \A u \in Threads : u # t => (holder' = u <=> holder = u)
  BY <1>1, <1>2, ThreadFacts
<1>5. holder' # t
  BY <1>1, <1>2, ThreadFacts
<1> QED
  BY <1>1, <1>2, <1>3, <1>4, <1>5, LockedMoves

\* The steps of a command.
LEMMA StepLocked == ASSUME Typed, Locked, NEW t \in Threads, Step(t) PROVE Locked'
<1>1. ASSUME Ignore(t) PROVE Locked'
  <2>1. pc[t] = "collect" /\ Go(t, "idle") /\ unsent' = unsent /\ job' = job /\ holder' = holder
    BY <1>1 DEF Ignore, nickVars, ownerVars
  <2>2. unsent[t] = None /\ job[t].pc = "idle" /\ t \notin Clients /\ holder # t
    BY <2>1, LockedNow DEF AtWork
  <2>3. "idle" \in Where /\ "idle" \notin AtWork
    BY DEF Where, AtWork
  <2> QED
    BY <2>1, <2>2, <2>3, LockedMoves
<1>2. ASSUME Collect(t) PROVE Locked'
  <2>1. pc[t] = "collect" /\ Go(t, "act") /\ unsent' = unsent /\ job' = job /\ holder = None /\ holder' = t
    BY <1>2 DEF Collect, nickVars, ownerVars
  <2>2. unsent[t] = None /\ job[t].pc = "idle" /\ t \notin Clients
    BY <2>1, LockedNow
  <2>3. "act" \in Where /\ "act" \in AtWork
    BY DEF Where, AtWork
  <2>4. \A u \in Threads : u # t => (holder' = u <=> holder = u)
    BY <2>1, ThreadFacts
  <2> QED
    BY <2>1, <2>2, <2>3, <2>4, LockedMoves
<1>3. ASSUME NicksChanged(t) PROVE Locked'
  <2>1. pc[t] = "announce" /\ NL!NicksChanged(t) /\ Go(t, "ok") /\ job' = job /\ holder' = holder
    BY <1>3 DEF NicksChanged, ownerVars
  <2>2. job[t].pc = "idle" /\ (t \in Clients => holder # t) /\ (t \notin Clients => holder = t)
    BY <2>1, LockedNow DEF AtWork
  <2>3. unsent' = [unsent EXCEPT ![t] = None] /\ unsent \in [Threads -> {None} \cup NL!Lists]
    BY <2>1, NicksChangedFacts DEF Typed, NickTyped
  <2>4. unsent'[t] = None /\ \A u \in Threads : u # t => unsent'[u] = unsent[u]
    BY <2>3
  <2>5. "ok" \in Where /\ "ok" \in AtWork
    BY DEF Where, AtWork
  <2> QED
    BY <2>1, <2>2, <2>4, <2>5, LockedMoves
<1>4. ASSUME Succeed(t) PROVE Locked'
  BY <1>4, ReleaseLocked, SucceedFacts
<1>5. ASSUME Fail(t) PROVE Locked'
  BY <1>5, ReleaseLocked DEF Fail
<1> QED
  BY <1>1, <1>2, <1>3, <1>4, <1>5, ActLocked, PersistLocked DEF Step

\* A thread takes up a command.
LEMMA TakeLocked ==
    ASSUME Typed, Locked, NEW t \in Threads, NEW l \in {"collect", "act"}, Go(t, l), pc[t] = "idle",
           l = "act" <=> t \in Clients, UNCHANGED <<nickVars, ownerVars, holder>>
    PROVE  Locked'
<1>1. unsent[t] = None /\ job[t].pc = "idle" /\ holder # t
  BY LockedNow DEF AtWork
<1>2. unsent' = unsent /\ job' = job /\ holder' = holder
  BY DEF nickVars, ownerVars
<1>3. l \in Where /\ l # "announce" /\ l # "persist" /\ (t \notin Clients => l \notin AtWork) /\ (t \in Clients => l # "collect")
  BY DEF Where, AtWork
<1> QED
  BY <1>1, <1>2, <1>3, LockedMoves

\* Hear takes no mutex ...
LEMMA HearLocked == ASSUME Typed, Locked, NEW b \in Bots, Hear(b) PROVE Locked'
<1>1. /\ pc[b] = "idle" /\ b \in Threads /\ b \notin Clients
      /\ Go(b, "collect") \/ UNCHANGED pc
      /\ UNCHANGED <<nickVars, ownerVars, holder>>
  BY HearFacts, ThreadFacts
<1> QED
  BY <1>1, TakeLocked, LockedSame

\* ... nor does taking up a command.
LEMMA BeginLocked == ASSUME Typed, Locked, NEW t \in Threads, NEW c \in Commands, Begins(t, c) PROVE Locked'
  BY BeginFacts, TakeLocked

\* At first nobody is at work.
LEMMA InitLocked == Init => Locked
<1> SUFFICES ASSUME Init PROVE Locked
  OBVIOUS
<1>1. unsent = [t \in Threads |-> None] /\ job = [t \in Threads |-> OL!Idle]
  BY NickInit, OwnerInit DEF Init
<1>2. pc = [t \in Threads |-> "idle"] /\ holder = None /\ OL!Idle.pc = "idle"
  BY DEF Init, OL!Idle
<1> QED
  BY <1>1, <1>2, ThreadFacts DEF Locked, Working, AtWork

\* After a restart nobody is.
LEMMA RestartLocked == ASSUME Typed, Restart PROVE Locked'
<1>1. unsent' = [t \in Threads |-> None] /\ job' = [t \in Threads |-> OL!Idle]
  BY NickRestart, OwnerRestart DEF Restart, Typed
<1>2. pc' = [t \in Threads |-> "idle"] /\ holder' = None /\ OL!Idle.pc = "idle"
  BY DEF Restart, OL!Idle
<1> QED
  BY <1>1, <1>2, ThreadFacts DEF Locked, Working, AtWork

\* Every step keeps who is at work.
LEMMA NextLocked == Typed /\ Locked /\ [Next]_vars => Locked'
<1> SUFFICES ASSUME Typed, Locked, [Next]_vars PROVE Locked'
  OBVIOUS
<1>1. ASSUME NEW c \in Commands, Say(c) PROVE Locked'
  BY <1>1, LockedSame DEF Say
<1>2. ASSUME NEW c \in Commands, NEW t \in Threads, Begins(t, c) PROVE Locked'
  BY <1>2, BeginLocked
<1>3. ASSUME NEW b \in Bots, Hear(b) PROVE Locked'
  BY <1>3, HearLocked
<1>4. ASSUME NEW t \in Threads, Step(t) PROVE Locked'
  BY <1>4, StepLocked
<1>5. ASSUME NEW k \in Keys, Age(k) \/ Cleanup(k) PROVE Locked'
  BY <1>5, LockedSame DEF Age, Cleanup
<1>6. CASE CooldownOver
  BY <1>6, LockedSame DEF CooldownOver
<1>7. CASE Restart
  BY <1>7, RestartLocked
<1>8. CASE UNCHANGED vars
  BY <1>8, LockedSame DEF vars
<1>9. ASSUME NEW c \in Commands, NEW t \in Threads, QueryMass(t, c) PROVE Locked'
  BY <1>9, QueryFacts, LockedSame
<1> QED
  BY <1>1, <1>2, <1>3, <1>4, <1>5, <1>6, <1>7, <1>8, <1>9, NextActions

\* At most one bot or chat is at work between the lock and the unlock of
\* CollectReactions, whatever it is at work on (manager.go:576-623).
LEMMA LockedHolds == Spec => [](Typed /\ Locked)
  BY InitTyped, NextTyped, InitLocked, NextLocked, PTL DEF Spec

\* One bot or chat is at work at a time, inside bm.reactionMutex, whatever it
\* is at work on (manager.go:576-666).
THEOREM OneReaction == Spec => [](\A t, u \in Threads \ Clients : Working(t) /\ Working(u) => t = u)
<1>1. Locked => \A t, u \in Threads \ Clients : Working(t) /\ Working(u) => t = u
  BY DEF Locked
<1> QED
  BY <1>1, LockedHolds, PTL

-----------------------------------------------------------------------------
(* A mass command is executed once per cooldown. *)

\* A step of t that grants nothing new.
LEMMA RationedMoves ==
    ASSUME Typed, Rationed, NEW t \in Threads, NEW l \in Where, Go(t, l),
           \A u \in Threads : u # t => doing'[u] = doing[u],
           Granted(t)' => Granted(t), UNCHANGED <<cooling, massed>>
    PROVE  Rationed'
<1>1. \A u \in Threads : u # t => pc'[u] = pc[u]
  BY GoFacts DEF Typed
<1>2. \A u \in Threads : Granted(u)' => Granted(u)
  BY <1>1 DEF Granted
<1>3. \A u \in Threads : Granted(u)' => massed = 0 /\ "join" \in cooling
  BY <1>2 DEF Rationed
<1>4. \A u, v \in Threads : Granted(u)' /\ Granted(v)' => u = v
  BY <1>2 DEF Rationed
<1> QED
  BY <1>3, <1>4 DEF Rationed

\* What a mass command's accounts do not depend on.
LEMMA RationedSame ==
    ASSUME Rationed, UNCHANGED <<pc, doing, cooling, massed>>
    PROVE  Rationed'
  BY DEF Rationed, Granted

\* A thread takes up a command, after it noted the time of a mass command.
LEMMA RationedTakes ==
    ASSUME Typed, Rationed, NEW t \in Threads, NEW c \in Commands, NEW l \in {"collect", "act"}, Go(t, l), pc[t] = "idle",
           doing' = [doing EXCEPT ![t] = c], UNCHANGED massed,
           \/ UNCHANGED cooling /\ (c.kind = "join" => t \in Chats)
           \/ "join" \notin cooling /\ cooling' = {"join"}
    PROVE  Rationed'
<1>1. /\ pc'[t] = l /\ l \in Where /\ \A u \in Threads : u # t => pc'[u] = pc[u]
  BY GoFacts DEF Typed, Where
<1>2. doing'[t] = c /\ \A u \in Threads : u # t => doing'[u] = doing[u]
  BY DEF Typed, ThreadTyped
<1>3. CASE UNCHANGED cooling /\ (c.kind = "join" => t \in Chats)
  <2>1. ~Granted(t)'
    BY <1>2, <1>3 DEF Granted
  <2> QED
    BY <1>1, <1>2, <1>3, <2>1, RationedMoves
<1>4. CASE "join" \notin cooling /\ cooling' = {"join"}
  <2>1. cooling = {} /\ massed = 0 /\ massed' = 0 /\ \A u \in Threads : ~Granted(u)
    BY <1>4 DEF Rationed, Typed, MassTyped
  <2>2. \A u \in Threads : Granted(u)' => u = t
    BY <1>1, <1>2, <2>1 DEF Granted
  <2> QED
    BY <1>4, <2>1, <2>2 DEF Rationed
<1> QED
  BY <1>3, <1>4

\* A bot hears a command, and may be granted it.
LEMMA HearRationed == ASSUME Typed, Rationed, NEW b \in Bots, Hear(b) PROVE Rationed'
<1> DEFINE c == said[heard[b] + 1]
<1>1. /\ pc[b] = "idle" /\ b \in Threads /\ c \in Commands /\ massed' = massed
      /\ \/ /\ IF c.kind = "join" THEN "join" \notin cooling /\ cooling' = {"join"} ELSE UNCHANGED cooling
            /\ doing' = [doing EXCEPT ![b] = c] /\ Go(b, "collect")
         \/ UNCHANGED <<cooling, doing, pc>>
  BY HearFacts
<1> HIDE DEF c
<1>2. CASE UNCHANGED <<cooling, doing, pc>>
  BY <1>1, <1>2, RationedSame
<1>3. CASE /\ IF c.kind = "join" THEN "join" \notin cooling /\ cooling' = {"join"} ELSE UNCHANGED cooling
           /\ doing' = [doing EXCEPT ![b] = c] /\ Go(b, "collect")
  BY <1>1, <1>3, RationedTakes
<1> QED
  BY <1>1, <1>2, <1>3

\* A chat or a client takes one up.
LEMMA BeginRationed == ASSUME Typed, Rationed, NEW t \in Threads, NEW c \in Commands, Begins(t, c) PROVE Rationed'
<1>1. PICK l \in {"collect", "act"} : Go(t, l)
  BY BeginFacts
<1>2. pc[t] = "idle" /\ doing' = [doing EXCEPT ![t] = c] /\ massed' = massed
  BY BeginFacts
<1>3. \/ UNCHANGED cooling /\ (c.kind = "join" => t \in Chats)
      \/ "join" \notin cooling /\ cooling' = {"join"}
  BY DEF Begins
<1> QED
  BY <1>1, <1>2, <1>3, RationedTakes

\* The steps of a command: only Act counts an execution.
LEMMA StepRationed == ASSUME Typed, Rationed, NEW t \in Threads, Step(t) PROVE Rationed'
<1>1. ASSUME NEW l \in Where, Go(t, l), l \notin {"collect", "act"}, UNCHANGED <<doing, cooling, massed>>
      PROVE  Rationed'
  <2>1. pc'[t] = l
    BY <1>1, GoFacts DEF Typed
  <2>2. ~Granted(t)'
    BY <1>1, <2>1 DEF Granted
  <2> QED
    BY <1>1, <2>2, RationedMoves
<1>2. {"idle", "act", "announce", "persist", "error", "ok"} \subseteq Where
  BY DEF Where
<1>3. ASSUME Ignore(t) PROVE Rationed'
  BY <1>1, <1>2, <1>3 DEF Ignore, mass
<1>4. ASSUME Collect(t) PROVE Rationed'
  <2>1. pc[t] = "collect" /\ Go(t, "act") /\ UNCHANGED <<doing, cooling, massed>>
    BY <1>4 DEF Collect, mass
  <2>2. Granted(t)' => Granted(t)
    BY <2>1 DEF Granted
  <2> QED
    BY <1>2, <2>1, <2>2, RationedMoves
<1>5. ASSUME Act(t) PROVE Rationed'
  <2>1. /\ pc[t] = "act" /\ UNCHANGED <<doing, cooling>>
        /\ ActsOnNicks(t) \/ ActsOnOwners(t) \/ ActsNot(t) \/ ActsOnAll(t)
    BY <1>5, ActFacts
  <2>2. CASE ActsOnNicks(t) \/ ActsOnOwners(t) \/ ActsNot(t)
    <3>1. massed' = massed /\ \E l \in {"error", "announce", "persist", "ok"} : Go(t, l)
      BY <2>2 DEF ActsOnNicks, ActsOnOwners, ActsNot
    <3> QED
      BY <1>1, <1>2, <2>1, <3>1
  <2>3. CASE ActsOnAll(t)
    <3>1. doing[t].kind = "join" /\ Go(t, "ok") /\ massed' = IF t \in Chats THEN massed ELSE massed + 1
      BY <2>3 DEF ActsOnAll, MassCommand
    <3>2. CASE t \in Chats
      BY <1>1, <1>2, <2>1, <3>1, <3>2
    <3>3. CASE t \notin Chats
      <4>1. Granted(t)
        BY <2>1, <3>1, <3>3 DEF Granted
      <4>2. massed = 0 /\ "join" \in cooling /\ \A u \in Threads : Granted(u) => u = t
        BY <4>1 DEF Rationed
      <4>3. pc'[t] = "ok" /\ \A u \in Threads : u # t => pc'[u] = pc[u]
        BY <1>2, <3>1, GoFacts DEF Typed
      <4>4. \A u \in Threads : ~Granted(u)'
        BY <2>1, <4>2, <4>3 DEF Granted
      <4>5. massed' = 1 /\ cooling' = cooling /\ cooling # {}
        BY <2>1, <3>1, <3>3, <4>2
      <4> QED
        BY <4>4, <4>5 DEF Rationed
    <3> QED
      BY <3>2, <3>3
  <2> QED
    BY <2>1, <2>2, <2>3
<1>6. ASSUME NicksChanged(t) PROVE Rationed'
  BY <1>1, <1>2, <1>6 DEF NicksChanged, mass
<1>7. ASSUME Persist(t) PROVE Rationed'
  <2>1. /\ UNCHANGED <<doing, cooling, massed>> /\ (Go(t, "persist") \/ Go(t, "error") \/ Go(t, "ok"))
    BY <1>7, PersistFacts DEF mass
  <2> QED
    BY <1>1, <1>2, <2>1
<1>8. ASSUME Succeed(t) PROVE Rationed'
  BY <1>1, <1>2, <1>8 DEF Succeed, Release, mass
<1>9. ASSUME Fail(t) PROVE Rationed'
  BY <1>1, <1>2, <1>9 DEF Fail, Release, mass
<1> QED
  BY <1>3, <1>4, <1>5, <1>6, <1>7, <1>8, <1>9 DEF Step

\* Every step keeps the accounts.
LEMMA NextRationed == Typed /\ Rationed /\ [Next]_vars => Rationed'
<1> SUFFICES ASSUME Typed, Rationed, [Next]_vars PROVE Rationed'
  OBVIOUS
<1>1. ASSUME NEW c \in Commands, Say(c) PROVE Rationed'
  BY <1>1, RationedSame DEF Say, mass
<1>2. ASSUME NEW c \in Commands, NEW t \in Threads, Begins(t, c) PROVE Rationed'
  BY <1>2, BeginRationed
<1>3. ASSUME NEW b \in Bots, Hear(b) PROVE Rationed'
  BY <1>3, HearRationed
<1>4. ASSUME NEW t \in Threads, Step(t) PROVE Rationed'
  BY <1>4, StepRationed
<1>5. ASSUME NEW k \in Keys, Age(k) \/ Cleanup(k) PROVE Rationed'
  BY <1>5, RationedSame DEF Age, Cleanup, mass
<1>6. CASE CooldownOver
  <2>1. \A t \in Threads : ~Granted(t)'
    BY <1>6 DEF CooldownOver, Granted
  <2> QED
    BY <1>6, <2>1 DEF CooldownOver, Rationed
<1>7. CASE Restart
  <2>1. \A t \in Threads : ~Granted(t)'
    BY <1>7 DEF Restart, Granted
  <2> QED
    BY <1>7, <2>1 DEF Restart, Rationed
<1>8. CASE UNCHANGED vars
  BY <1>8, RationedSame DEF vars, mass
<1>9. ASSUME NEW c \in Commands, NEW t \in Threads, QueryMass(t, c) PROVE Rationed'
  <2>1. "join" \notin cooling /\ cooling' = {"join"} /\ massed' = massed + 1 /\ UNCHANGED <<pc, doing>>
    BY <1>9, QueryFacts
  <2>2. cooling = {} /\ massed = 0 /\ \A u \in Threads : ~Granted(u)
    BY <2>1 DEF Rationed, Typed, MassTyped
  <2>3. massed' = 1 /\ \A u \in Threads : ~Granted(u)'
    BY <2>1, <2>2 DEF Granted
  <2> QED
    BY <2>1, <2>3 DEF Rationed
<1> QED
  BY <1>1, <1>2, <1>3, <1>4, <1>5, <1>6, <1>7, <1>8, <1>9, NextActions

\* At first nothing was executed.
LEMMA InitRationed == Init => Rationed
  BY DEF Init, Rationed, Granted

\* Bots, queries and clients together execute a mass command once per cooldown
\* (CanExecuteMassCommand, manager.go:453-466), whenever they ask for it.
THEOREM MassOnceHolds == Spec => []MassOnce
<1>1. Rationed => MassOnce
  BY DEF Rationed, MassOnce
<1> QED
  BY <1>1, InitTyped, NextTyped, InitRationed, NextRationed, PTL DEF Spec

-----------------------------------------------------------------------------
(* Panels, files and bots follow the lists, an edit that no other crosses
   making good what crossed before. *)

NicksFollow ==
    "nicks" \notin crossed =>
       /\ \A t, u \in Threads : unsent[t] # None /\ unsent[u] # None => t = u
       /\ Followed
OwnersFollow ==
    "owners" \notin crossed =>
       /\ \A t, u \in Threads : job[t].pc # "idle" /\ job[u].pc # "idle" => t = u
       /\ Persisted
Followers == Typed /\ Locked /\ NicksFollow /\ OwnersFollow

\* Of two threads inside the operations one is a client.
LEMMA TwoAtWork ==
    ASSUME Locked, NEW t \in Threads, NEW u \in Threads, u # t, pc[t] \in AtWork, pc[u] \in AtWork
    PROVE  t \in Clients \/ u \in Clients
  BY LockedNow

\* An edit of a list that nobody else has to announce or write is not crossed.
LEMMA CrossedFacts ==
    ASSUME Locked, NEW t \in Threads, pc[t] \in AtWork, NEW list, NEW others \in SUBSET Threads,
           \A u \in others : pc[u] \in AtWork, Crosses(t, list, others), list \notin crossed'
    PROVE  \A u \in others : u = t
<1> SUFFICES ASSUME NEW u \in others, u # t PROVE FALSE
  OBVIOUS
<1>1. t \in Clients \/ u \in Clients
  BY TwoAtWork
<1>2. crossed' = crossed \cup {list}
  BY <1>1 DEF Crosses
<1> QED
  BY <1>2

\* An edit of the one list leaves the mark of the other.
LEMMA CrossesOther == ASSUME NEW t, NEW list, NEW others, Crosses(t, list, others), NEW x, x # list
                      PROVE  x \in crossed' <=> x \in crossed
  BY DEF Crosses

\* The panel follows when nothing happens to the nicks.
LEMMA FollowedSame == ASSUME NicksFollow, UNCHANGED nickVars, "nicks" \in crossed' <=> "nicks" \in crossed PROVE NicksFollow'
  BY DEF NicksFollow, Followed, nickVars

\* The one thread at work on owners moves.
LEMMA PersistedMoves ==
    ASSUME NEW t \in Threads, \A u \in Threads : u # t => job'[u].pc = "idle", JobFits(t)',
           (OL!Quiet /\ ~failed => ownerFile = OL!Owners /\ \A b \in Bots : view[b] = OL!Owners)'
    PROVE  OwnersFollow'
<1>1. \A u \in Threads : u # t => JobFits(u)'
  BY DEF JobFits
<1> QED
  BY <1>1 DEF OwnersFollow, Persisted

\* Files and bots follow when nothing happens to the owners.
LEMMA PersistedSame == ASSUME OwnersFollow, UNCHANGED ownerVars, "owners" \in crossed' <=> "owners" \in crossed PROVE OwnersFollow'
  BY DEF OwnersFollow, Persisted, JobFits, OL!Quiet, OL!Owners, ownerVars

\* An edit of the nicks.
LEMMA NicksActFollow ==
    ASSUME Typed, Locked, NicksFollow, NEW t \in Threads, pc[t] = "act", ActsOnNicks(t)
    PROVE  NicksFollow'
<1>1. NickTyped' /\ Saved(t) /\ UNCHANGED <<slack, mirror>> /\ unsent[t] = None
  BY NickActFacts
<1>2. /\ \A u \in Threads : u # t => unsent'[u] = unsent[u]
      /\ unsent'[t] # None => unsent'[t] = nickFile'
      /\ unsent'[t] = None => UNCHANGED <<nickFile, unsent>>
  BY <1>1, SavedFacts
<1>3. CASE unsent'[t] = None
  <2>1. UNCHANGED <<nickFile, unsent, mirror, crossed>>
    BY <1>1, <1>2, <1>3 DEF ActsOnNicks
  <2> QED
    BY <2>1 DEF NicksFollow, Followed
<1>4. CASE unsent'[t] # None
  <2> DEFINE told == {u \in Threads : unsent[u] # None}
  <2>1. Crosses(t, "nicks", told)
    BY <1>4 DEF ActsOnNicks
  <2>2. told \in SUBSET Threads /\ pc[t] \in AtWork /\ \A u \in told : pc[u] \in AtWork
    BY LockedNow DEF AtWork
  <2> HIDE DEF told
  <2>3. "nicks" \notin crossed' => \A u \in told : u = t
    BY <2>1, <2>2, CrossedFacts
  <2>4. "nicks" \notin crossed' => \A u \in Threads : u # t => unsent'[u] = None
    BY <1>2, <2>3 DEF told
  <2> QED
    BY <1>2, <1>4, <2>4 DEF NicksFollow, Followed
<1> QED
  BY <1>3, <1>4

\* An edit of the owners.
LEMMA OwnersActFollow ==
    ASSUME Typed, Locked, OwnersFollow, NEW t \in Threads, pc[t] = "act", ActsOnOwners(t)
    PROVE  OwnersFollow'
<1>1. Begun(t)
  BY OwnerActFacts
<1>2. /\ \A u \in Threads : u # t => job'[u] = job[u]
      /\ job'[t].pc = "truncate" /\ job'[t].list = OL!Owners' /\ job'[t].bot = 1
  BY <1>1, BegunFacts
<1> DEFINE busy == {u \in Threads : job[u].pc # "idle"}
<1>3. Crosses(t, "owners", busy)
  BY DEF ActsOnOwners
<1>4. busy \in SUBSET Threads /\ pc[t] \in AtWork /\ \A u \in busy : pc[u] \in AtWork
  BY LockedNow DEF AtWork
<1> HIDE DEF busy
<1>5. SUFFICES ASSUME "owners" \notin crossed' PROVE OwnersFollow'
  BY DEF OwnersFollow
<1>6. \A u \in busy : u = t
  BY <1>3, <1>4, <1>5, CrossedFacts
<1>7. \A u \in Threads : u # t => job'[u].pc = "idle"
  BY <1>2, <1>6 DEF busy
<1>8. ~OL!Quiet'
  BY <1>2 DEF OL!Quiet
<1>9. JobFits(t)'
  BY <1>2 DEF JobFits
<1> QED
  BY <1>7, <1>8, <1>9, PersistedMoves

\* An action.
LEMMA ActFollowers == ASSUME Followers, NEW t \in Threads, Act(t) PROVE NicksFollow' /\ OwnersFollow'
<1>1. pc[t] = "act" /\ (ActsOnNicks(t) \/ ActsOnOwners(t) \/ ActsNot(t) \/ ActsOnAll(t))
  BY ActFacts
<1>2. Typed /\ Locked /\ NicksFollow /\ OwnersFollow
  BY DEF Followers
<1>3. CASE ActsOnNicks(t)
  <2>1. UNCHANGED ownerVars /\ ("owners" \in crossed' <=> "owners" \in crossed)
    BY <1>3, CrossesOther DEF ActsOnNicks
  <2> QED
    BY <1>1, <1>2, <1>3, <2>1, NicksActFollow, PersistedSame
<1>4. CASE ActsOnOwners(t)
  <2>1. UNCHANGED nickVars /\ ("nicks" \in crossed' <=> "nicks" \in crossed)
    BY <1>4, CrossesOther DEF ActsOnOwners
  <2> QED
    BY <1>1, <1>2, <1>4, <2>1, OwnersActFollow, FollowedSame
<1>5. CASE ActsNot(t) \/ ActsOnAll(t)
  BY <1>2, <1>5, FollowedSame, PersistedSame DEF ActsNot, ActsOnAll
<1> QED
  BY <1>1, <1>3, <1>4, <1>5

\* The panel is told.
LEMMA NicksChangedFollowers == ASSUME Followers, NEW t \in Threads, NicksChanged(t) PROVE NicksFollow' /\ OwnersFollow'
<1>1. pc[t] = "announce" /\ NL!NicksChanged(t) /\ UNCHANGED <<ownerVars, crossed>>
  BY DEF NicksChanged, history
<1>2. Typed /\ Locked /\ NicksFollow /\ OwnersFollow
  BY DEF Followers
<1>3. unsent[t] # None /\ mirror' = unsent[t] /\ unsent' = [unsent EXCEPT ![t] = None] /\ nickFile' = nickFile
  BY <1>1, <1>2, NicksChangedFacts DEF Typed
<1>4. "nicks" \notin crossed => \A u \in Threads : unsent'[u] = None
  <2>1. "nicks" \notin crossed => \A u \in Threads : u # t => unsent[u] = None
    BY <1>2, <1>3 DEF NicksFollow
  <2> QED
    BY <1>2, <1>3, <2>1 DEF Typed, NickTyped
<1>5. NicksFollow'
  BY <1>1, <1>2, <1>3, <1>4 DEF NicksFollow, Followed
<1> QED
  BY <1>1, <1>2, <1>5, PersistedSame

\* The steps of persistOwners.
LEMMA PersistFollowers == ASSUME Followers, NEW t \in Threads, Persist(t) PROVE NicksFollow' /\ OwnersFollow'
<1>1. pc[t] = "persist" /\ UNCHANGED <<nickVars, crossed>> /\ \A u \in Threads : u # t => job'[u] = job[u]
  BY PersistFacts DEF Followers, history
<1>2. Typed /\ Locked /\ NicksFollow /\ OwnerTyped
  BY DEF Followers, Typed
<1>3. NicksFollow'
  BY <1>1, <1>2, FollowedSame
<1> SUFFICES ASSUME "owners" \notin crossed PROVE OwnersFollow'
  BY <1>1, <1>3 DEF OwnersFollow
<1>12. Persisted /\ \A u \in Threads : u # t => job[u].pc = "idle"
  <2>1. job[t].pc # "idle"
    BY <1>1, <1>2, LockedNow
  <2> QED
    BY <2>1 DEF Followers, OwnersFollow
<1>4. \A u \in Threads : u # t => job'[u].pc = "idle"
  BY <1>1, <1>12
<1>5. job[t] \in Jobs /\ job \in [Threads -> Jobs] /\ job[t].list \in OL!Lists /\ job[t].bot \in 1 .. Len(Crew) + 1
  BY <1>2, JobFacts DEF OwnerTyped
<1>6. /\ job[t].pc # "idle" => job[t].list = OL!Owners
      /\ job[t].pc \in {"truncate", "write"} => job[t].bot = 1
      /\ job[t].pc = "write" => ownerFile = None
      /\ job[t].pc \in {"fan", "announce"} =>
            /\ ownerFile = OL!Owners
            /\ \A i \in 1 .. job[t].bot - 1 : view[Crew[i]] = OL!Owners
      /\ job[t].pc = "announce" => job[t].bot = Len(Crew) + 1
  BY <1>12 DEF Persisted, JobFits
<1>7. OL!Owners' = OL!Owners
  <2>1. UNCHANGED <<ownerHeap, owners>>
    BY <1>2, PersistFacts, TruncateFacts, WriteFacts, FanOutFacts, OwnersChangedFacts
  <2> QED
    BY <2>1 DEF OL!Owners
<1> DEFINE o == OL!Owners
<1>8. CASE OL!Truncate(t)
  <2>1. /\ job[t].pc = "truncate"
        /\ \/ ownerFile' = None /\ job' = [job EXCEPT ![t] = [job[t] EXCEPT !.pc = "write"]]
           \/ failed' = TRUE /\ job' = [job EXCEPT ![t] = OL!Idle]
    BY <1>2, <1>8, TruncateFacts
  <2>2. CASE ownerFile' = None /\ job' = [job EXCEPT ![t] = [job[t] EXCEPT !.pc = "write"]]
    <3>1. job'[t].pc = "write" /\ job'[t].list = OL!Owners' /\ job'[t].bot = 1
      BY <1>5, <1>6, <1>7, <2>1, <2>2 DEF Jobs
    <3>2. ~OL!Quiet'
      BY <3>1 DEF OL!Quiet
    <3> QED
      <4>1. JobFits(t)'
        BY <2>2, <3>1 DEF JobFits
      <4> QED
        BY <1>3, <1>4, <3>2, <4>1, PersistedMoves
  <2>3. CASE failed' = TRUE /\ job' = [job EXCEPT ![t] = OL!Idle]
    <3>1. job'[t].pc = "idle"
      BY <1>5, <2>3 DEF OL!Idle
    <3> QED
      <4>1. JobFits(t)'
        BY <3>1 DEF JobFits
      <4> QED
        BY <1>3, <1>4, <2>3, <4>1, PersistedMoves
  <2> QED
    BY <2>1, <2>2, <2>3
<1>9. CASE OL!Write(t)
  <2>1. /\ job[t].pc = "write" /\ ownerFile' = job[t].list
        /\ job' = [job EXCEPT ![t] = [job[t] EXCEPT !.pc = "fan"]]
    BY <1>2, <1>6, <1>9, WriteFacts
  <2>2. job'[t].pc = "fan" /\ job'[t].list = OL!Owners' /\ job'[t].bot = 1 /\ ownerFile' = OL!Owners'
    BY <1>5, <1>6, <1>7, <2>1 DEF Jobs
  <2>3. ~OL!Quiet'
    BY <2>2 DEF OL!Quiet
  <2>4. 1 .. job'[t].bot - 1 = {}
    BY <2>2
  <2> QED
    <3>1. JobFits(t)'
      BY <2>2, <2>4 DEF JobFits
    <3> QED
      BY <1>3, <1>4, <2>3, <3>1, PersistedMoves
<1>10. CASE OL!FanOut(t)
  <2>1. /\ job[t].pc = "fan" /\ UNCHANGED ownerFile
        /\ \/ /\ job[t].bot <= Len(Crew) /\ view' = [view EXCEPT ![Crew[job[t].bot]] = job[t].list]
              /\ job' = [job EXCEPT ![t] = [job[t] EXCEPT !.bot = job[t].bot + 1]]
           \/ /\ job[t].bot = Len(Crew) + 1 /\ UNCHANGED view
              /\ job' = [job EXCEPT ![t] = [job[t] EXCEPT !.pc = "announce"]]
    BY <1>2, <1>10, FanOutFacts
  <2>2. ownerFile' = OL!Owners' /\ job[t].list = OL!Owners' /\ \A i \in 1 .. job[t].bot - 1 : view[Crew[i]] = OL!Owners'
    BY <1>6, <1>7, <2>1
  <2>3. CASE /\ job[t].bot <= Len(Crew) /\ view' = [view EXCEPT ![Crew[job[t].bot]] = job[t].list]
             /\ job' = [job EXCEPT ![t] = [job[t] EXCEPT !.bot = job[t].bot + 1]]
    <3>1. job'[t].pc = "fan" /\ job'[t].list = OL!Owners' /\ job'[t].bot = job[t].bot + 1
      BY <1>5, <2>1, <2>2, <2>3 DEF Jobs
    <3>2. ~OL!Quiet'
      BY <3>1 DEF OL!Quiet
    <3>3. ASSUME NEW i \in 1 .. job'[t].bot - 1 PROVE view'[Crew[i]] = OL!Owners'
      <4>1. i \in 1 .. job[t].bot /\ Len(Crew) \in Nat
        BY <1>5, <3>1, CrewFacts
      <4>2. i \in 1 .. Len(Crew) /\ (i \in 1 .. job[t].bot - 1 \/ i = job[t].bot)
        BY <1>5, <2>3, <4>1
      <4>3. Crew[i] \in Bots /\ view \in [Bots -> OL!Lists \cup {None}]
        BY <1>2, <4>2, CrewFacts DEF OwnerTyped
      <4> QED
        BY <2>2, <2>3, <4>2, <4>3
    <3> QED
      <4>1. JobFits(t)'
        BY <2>2, <3>1, <3>3 DEF JobFits
      <4> QED
        BY <1>3, <1>4, <3>2, <4>1, PersistedMoves
  <2>4. CASE /\ job[t].bot = Len(Crew) + 1 /\ UNCHANGED view
             /\ job' = [job EXCEPT ![t] = [job[t] EXCEPT !.pc = "announce"]]
    <3>1. job'[t].pc = "announce" /\ job'[t].list = OL!Owners' /\ job'[t].bot = job[t].bot /\ job'[t].bot = Len(Crew) + 1
      BY <1>5, <2>1, <2>2, <2>4 DEF Jobs
    <3>2. ~OL!Quiet'
      BY <3>1 DEF OL!Quiet
    <3>3. \A i \in 1 .. job'[t].bot - 1 : view'[Crew[i]] = OL!Owners'
      BY <2>2, <2>4, <3>1
    <3> QED
      <4>1. JobFits(t)'
        BY <2>2, <3>1, <3>3 DEF JobFits
      <4> QED
        BY <1>3, <1>4, <3>2, <4>1, PersistedMoves
  <2> QED
    BY <2>1, <2>3, <2>4
<1>11. CASE OL!OwnersChanged(t)
  <2>1. job[t].pc = "announce" /\ UNCHANGED <<ownerFile, view>> /\ job' = [job EXCEPT ![t] = OL!Idle]
    BY <1>2, <1>11, OwnersChangedFacts
  <2>2. job'[t].pc = "idle"
    BY <1>5, <2>1 DEF OL!Idle
  <2>3. ownerFile' = OL!Owners' /\ \A i \in 1 .. job[t].bot - 1 : view'[Crew[i]] = OL!Owners'
    BY <1>6, <1>7, <2>1
  <2>4. job[t].bot - 1 = Len(Crew)
    BY <1>6, <2>1, CrewFacts
  <2>5. \A b \in Bots : view'[b] = OL!Owners'
    BY <2>3, <2>4, CrewFacts
  <2> QED
    <3>1. JobFits(t)'
      BY <2>2 DEF JobFits
    <3> QED
      BY <1>3, <1>4, <2>3, <2>5, <3>1, PersistedMoves
<1> QED
  BY <1>3, <1>8, <1>9, <1>10, <1>11, PersistFacts, <1>2

\* After a restart all are in step.
LEMMA RestartFollowers == ASSUME Typed, Restart PROVE NicksFollow' /\ OwnersFollow'
<1>1. NL!Restart /\ OL!Restart
  BY DEF Restart
<1>2. unsent' = [t \in Threads |-> None] /\ mirror' = nickFile'
  BY <1>1, NickRestart DEF Typed
<1>3. /\ ownerFile' = OL!Owners' /\ start' = owners' /\ (\A b \in Bots : view[b] = None)'
      /\ job' = [t \in Threads |-> OL!Idle]
  BY <1>1, OwnerRestart DEF Typed
<1>4. \A t \in Threads : job'[t].pc = "idle"
  BY <1>3 DEF OL!Idle
<1> QED
  BY <1>2, <1>3, <1>4 DEF NicksFollow, OwnersFollow, Followed, Persisted, JobFits

\* Every step keeps panel, files and bots behind the lists.
LEMMA NextFollowers == Followers /\ [Next]_vars => Followers'
<1> SUFFICES ASSUME Followers, [Next]_vars PROVE Followers'
  OBVIOUS
<1>1. Typed /\ Locked /\ NicksFollow /\ OwnersFollow
  BY DEF Followers
<1>2. Typed' /\ Locked'
  BY <1>1, NextTyped, NextLocked
<1>3. ASSUME UNCHANGED <<nickVars, ownerVars, crossed>> PROVE NicksFollow' /\ OwnersFollow'
  BY <1>1, <1>3, FollowedSame, PersistedSame
<1>4. NicksFollow' /\ OwnersFollow'
  <2>1. ASSUME NEW c \in Commands, Say(c) PROVE NicksFollow' /\ OwnersFollow'
    BY <1>3, <2>1 DEF Say
  <2>2. ASSUME NEW c \in Commands, NEW t \in Threads, Begins(t, c) PROVE NicksFollow' /\ OwnersFollow'
    BY <1>1, <1>3, <2>2, BeginFacts DEF history
  <2>3. ASSUME NEW c \in Commands, NEW t \in Threads, QueryMass(t, c) PROVE NicksFollow' /\ OwnersFollow'
    BY <1>3, <2>3, QueryFacts DEF history
  <2>4. ASSUME NEW b \in Bots, Hear(b) PROVE NicksFollow' /\ OwnersFollow'
    BY <1>3, <2>4 DEF Hear, history
  <2>5. ASSUME NEW t \in Threads, Step(t) PROVE NicksFollow' /\ OwnersFollow'
    <3>1. CASE Ignore(t) \/ Collect(t) \/ Succeed(t) \/ Fail(t)
      BY <1>3, <3>1 DEF Ignore, Collect, Succeed, Fail, history
    <3> QED
      BY <2>5, <3>1, ActFollowers, NicksChangedFollowers, PersistFollowers DEF Step
  <2>6. ASSUME NEW k \in Keys, Age(k) \/ Cleanup(k) PROVE NicksFollow' /\ OwnersFollow'
    BY <1>3, <2>6 DEF Age, Cleanup
  <2>7. CASE CooldownOver \/ UNCHANGED vars
    BY <1>3, <2>7 DEF CooldownOver, vars, history
  <2>8. CASE Restart
    BY <1>1, <2>8, RestartFollowers
  <2> QED
    BY <2>1, <2>2, <2>3, <2>4, <2>5, <2>6, <2>7, <2>8, NextActions
<1> QED
  BY <1>2, <1>4 DEF Followers

\* They begin in step.
LEMMA InitFollowers == Init => Followers
<1> SUFFICES ASSUME Init PROVE Followers
  OBVIOUS
<1>1. Typed /\ Locked
  BY InitTyped, InitLocked
<1>2. unsent = [t \in Threads |-> None] /\ mirror = nickFile
  BY NickInit DEF Init
<1>3. /\ ownerFile = OL!Owners /\ start = owners /\ (\A b \in Bots : view[b] = None)
      /\ job = [t \in Threads |-> OL!Idle]
  BY OwnerInit DEF Init
<1>4. \A t \in Threads : job[t].pc = "idle"
  BY <1>3 DEF OL!Idle
<1> QED
  BY <1>1, <1>2, <1>3, <1>4 DEF Followers, NicksFollow, OwnersFollow, Followed, Persisted, JobFits

\* So they follow always.
LEMMA FollowersHold == Spec => []Followers
  BY InitFollowers, NextFollowers, PTL DEF Spec

\* A panel that takes over the list of every nicks.changed event ends up with
\* the list that was saved (nickmanager.go:369-457), unless the last edit was
\* made by a client, or with a client's, while another was yet to be announced.
THEOREM PanelFollows == Spec => []PanelInStep
<1>1. Followers => PanelInStep
  BY DEF Followers, NicksFollow, Followed, PanelInStep, NL!PanelInStep
<1> QED
  BY <1>1, FollowersHold, PTL

\* The file of the owners holds the list in force once all calls have returned
\* without an error (manager.go:468-537), unless the last edit was made by a
\* client, or with a client's, while another was yet to be written.
THEOREM OwnersReachDisk == Spec => []OwnersOnDisk
<1>1. Followers => OwnersOnDisk
  BY DEF Followers, OwnersFollow, Persisted, OwnersOnDisk, OL!OwnersOnDisk
<1> QED
  BY <1>1, FollowersHold, PTL

\* ... and every bot looks its commands up in that list, likewise.
THEOREM OwnersReachBots == Spec => []BotsInStep
<1>1. Followers => BotsInStep
  <2> SUFFICES ASSUME Followers, "owners" \notin crossed, OL!Quiet, ~failed, NEW b \in Bots
               PROVE  OL!Range(OL!Sees(b)) = OL!Range(OL!Owners)
    BY CrewFacts DEF BotsInStep, OL!BotsInStep
  <2>1. Persisted /\ OwnerTyped
    BY DEF Followers, OwnersFollow, Typed
  <2>2. \/ view[b] = OL!Owners
        \/ start = owners /\ view[b] = None
    BY <2>1 DEF Persisted
  <2>3. OL!Owners # None
    BY <2>1, MastersNow, MastersShown, OwnerSlices, OwnerBounds DEF OL!Owners
  <2>4. OL!Sees(b) = OL!Owners
    BY <2>2, <2>3 DEF OL!Sees, OL!Owners
  <2> QED
    BY <2>4
<1> QED
  BY <1>1, FollowersHold, PTL

-----------------------------------------------------------------------------
(* Commands succeed in the order in which they were said, but for those that
   some bot was late with. *)

(* Who is at work is at work on what it heard.  What is pending and not late
   was said last; once it succeeded its entry holds the others back. *)
Behind == \A n \in Pending : n \in late \/ n = Len(said)
Heeded == \A b \in Bots : pc[b] # "idle" => doing[b] = said[heard[b]]
Succeeded(n) == \E i \in DOMAIN applied : applied[i] = n
Remembered ==
    \A n \in Pending : n \notin late /\ Succeeded(n) => Fresh(KeyOf("channel", said[n]))
Untried == \A b \in Bots : pc[b] \in AtWork => heard[b] \in late \/ ~Succeeded(heard[b])
InOrder == AppliedInOrder /\ \A i \in DOMAIN applied : applied[i] <= Len(said)
InLine == Behind /\ Heeded /\ Remembered /\ Untried /\ InOrder
Rounds == Typed /\ Locked /\ InLine

\* The types that the rounds need.
LEMMA RoundTypes ==
    ASSUME Typed
    PROVE  /\ said \in Seq(Commands) /\ Len(said) \in Nat /\ DOMAIN said = 1 .. Len(said)
           /\ applied \in Seq(Nat \ {0}) /\ \A i \in DOMAIN applied : applied[i] \in Nat
           /\ \A b \in Bots : heard[b] \in Nat /\ heard[b] <= Len(said) /\ b \in Threads
           /\ \A b \in Bots : pc[b] # "idle" => heard[b] \in DOMAIN said /\ heard[b] \in Pending
           /\ late \subseteq DOMAIN said
           /\ pc \in [Threads -> Where] /\ doing \in [Threads -> Commands \cup {None}]
<1>1. /\ said \in Seq(Commands) /\ Len(said) \in Nat /\ DOMAIN said = 1 .. Len(said) /\ heard \in [Bots -> 0 .. Len(said)]
      /\ late \subseteq DOMAIN said /\ pc \in [Threads -> Where] /\ doing \in [Threads -> Commands \cup {None}]
  BY DEF Typed, SpeechTyped, HistoryTyped, ThreadTyped
<1>2. applied \in Seq(Nat \ {0}) /\ \A i \in DOMAIN applied : applied[i] \in Nat
  BY DEF Typed, HistoryTyped
<1>3. \A b \in Bots : heard[b] \in Nat /\ heard[b] <= Len(said) /\ b \in Threads
  BY <1>1, ThreadFacts
<1>4. ASSUME NEW b \in Bots, pc[b] # "idle" PROVE heard[b] \in DOMAIN said /\ heard[b] \in Pending
  <2>1. heard[b] > 0
    BY <1>3, <1>4 DEF Typed, Occupied
  <2>2. heard[b] \in DOMAIN said
    BY <1>1, <1>3, <2>1
  <2> QED
    BY <1>4, <2>2 DEF Pending
<1> QED
  BY <1>1, <1>2, <1>3, <1>4

\* No bot falls behind when none takes up a command.
LEMMA PendingShrinks ==
    ASSUME UNCHANGED <<said, heard>>, \A b \in Bots : pc[b] = "idle" => pc'[b] = "idle"
    PROVE  Pending' \subseteq Pending
  BY DEF Pending

\* A step that says nothing and succeeds with nothing.
LEMMA InLineMoves ==
    ASSUME InLine, UNCHANGED <<said, applied>>, Pending' \subseteq Pending, late \subseteq late', Heeded', Untried',
           \A n \in Pending' : /\ n \notin late' /\ Succeeded(n) /\ Fresh(KeyOf("channel", said[n]))
                               => Fresh(KeyOf("channel", said[n]))'
    PROVE  InLine'
<1>1. Behind'
  BY DEF InLine, Behind
<1>2. Remembered'
  <2> SUFFICES ASSUME NEW n \in Pending', n \notin late', Succeeded(n)' PROVE Fresh(KeyOf("channel", said[n]))'
    BY DEF Remembered
  <2>1. n \in Pending /\ n \notin late /\ Succeeded(n)
    BY DEF Succeeded
  <2>2. Fresh(KeyOf("channel", said[n]))
    BY <2>1 DEF InLine, Remembered
  <2> QED
    BY <2>1, <2>2
<1>3. InOrder'
  BY DEF InLine, InOrder, AppliedInOrder
<1> QED
  BY <1>1, <1>2, <1>3 DEF InLine

\* Steps that leave the commands, their entries and the bots alone.
LEMMA InLineSame ==
    ASSUME InLine, UNCHANGED <<said, heard, applied, late, recent, stale>>,
           \A b \in Bots : pc'[b] = pc[b] /\ doing'[b] = doing[b]
    PROVE  InLine'
<1>1. Pending' = Pending
  BY DEF Pending
<1>2. Heeded' /\ Untried'
  BY DEF InLine, Heeded, Untried, Succeeded
<1>3. \A k : Fresh(k) => Fresh(k)'
  BY DEF Fresh
<1>4. \A n : KeyOf("channel", said[n])' = KeyOf("channel", said[n])
  BY DEF KeyOf
<1> QED
  BY <1>1, <1>2, <1>3, <1>4, InLineMoves DEF Fresh

\* A thread goes on with its command.
LEMMA GoesOn ==
    ASSUME Rounds, NEW t \in Threads, NEW l \in Where, Go(t, l), pc[t] # "idle",
           t \in Bots /\ l \in AtWork => pc[t] \in AtWork \/ heard[t] \in late \/ ~Succeeded(heard[t]),
           UNCHANGED <<said, heard, doing, applied, late, recent, stale>>
    PROVE  InLine'
<1>1. Typed /\ InLine
  BY DEF Rounds
<1>2. pc'[t] = l /\ \A u \in Threads : u # t => pc'[u] = pc[u]
  BY <1>1, GoFacts DEF Typed
<1>3. Pending' \subseteq Pending
  BY <1>2, PendingShrinks, ThreadFacts
<1>4. Heeded'
  BY <1>1, <1>2, ThreadFacts DEF InLine, Heeded
<1>5. Untried'
  <2> SUFFICES ASSUME NEW b \in Bots, pc'[b] \in AtWork PROVE heard[b] \in late \/ ~Succeeded(heard[b])
    BY DEF Untried, Succeeded
  <2>1. pc[b] \in AtWork => heard[b] \in late \/ ~Succeeded(heard[b])
    BY <1>1 DEF InLine, Untried
  <2>2. CASE b = t
    BY <1>2, <2>1, <2>2
  <2>3. CASE b # t
    BY <1>2, <2>1, <2>3, ThreadFacts
  <2> QED
    BY <2>2, <2>3
<1>6. \A n : Fresh(KeyOf("channel", said[n])) => Fresh(KeyOf("channel", said[n]))'
  BY DEF Fresh, KeyOf
<1> QED
  BY <1>1, <1>3, <1>4, <1>5, <1>6, InLineMoves

\* What all have not done with is late when the next command is said.
LEMMA SayInLine == ASSUME Rounds, NEW c \in Commands, Say(c) PROVE InLine'
<1>1. said' = Append(said, c) /\ late' = late \cup Pending /\ UNCHANGED <<heard, pc, doing, applied>>
  BY DEF Say
<1>2. Typed /\ InLine
  BY DEF Rounds
<1>3. /\ Len(said) \in Nat /\ Len(said') = Len(said) + 1 /\ DOMAIN said = 1 .. Len(said)
      /\ DOMAIN said' = 1 .. Len(said) + 1 /\ \A n \in DOMAIN said : said'[n] = said[n]
  BY <1>1, <1>2, RoundTypes
<1>4. Pending' \subseteq Pending \cup {Len(said')}
  <2>1. \A n \in DOMAIN said' : n \in DOMAIN said \/ n = Len(said')
    BY <1>3
  <2> QED
    BY <1>1, <2>1 DEF Pending
<1>5. Behind'
  BY <1>1, <1>4 DEF Behind
<1>6. Heeded'
  <2> SUFFICES ASSUME NEW b \in Bots, pc[b] # "idle" PROVE doing[b] = said'[heard[b]]
    BY <1>1 DEF Heeded
  <2> QED
    BY <1>2, <1>3, RoundTypes DEF InLine, Heeded
<1>7. \A i \in DOMAIN applied : applied[i] \in Nat /\ applied[i] <= Len(said) /\ applied[i] <= Len(said') /\ applied[i] # Len(said')
  <2>1. \A i \in DOMAIN applied : applied[i] \in Nat /\ applied[i] <= Len(said)
    BY <1>2, RoundTypes DEF InLine, InOrder
  <2> QED
    BY <1>3, <2>1
<1>8. Remembered'
  <2> SUFFICES ASSUME NEW n \in Pending', n \notin late', Succeeded(n)' PROVE FALSE
    BY DEF Remembered
  <2>1. n = Len(said')
    BY <1>5 DEF Behind
  <2> QED
    BY <1>1, <1>7, <2>1 DEF Succeeded
<1>9. Untried'
  BY <1>1, <1>2 DEF InLine, Untried, Succeeded
<1>10. InOrder'
  BY <1>1, <1>2, <1>7 DEF InLine, InOrder, AppliedInOrder
<1> QED
  BY <1>5, <1>6, <1>8, <1>9, <1>10 DEF InLine

\* A bot takes up the command after the one that it has done with.
LEMMA HearInLine == ASSUME Rounds, NEW b \in Bots, Hear(b) PROVE InLine'
<1>1. Typed /\ InLine
  BY DEF Rounds
<1> DEFINE c == said[heard[b] + 1]
<1>2. /\ pc[b] = "idle" /\ heard[b] < Len(said) /\ heard' = [heard EXCEPT ![b] = heard[b] + 1]
      /\ heard[b] \in Nat /\ Len(said) \in Nat /\ b \in Threads
      /\ (doing' = [doing EXCEPT ![b] = c] /\ Go(b, "collect")) \/ UNCHANGED <<doing, pc>>
      /\ UNCHANGED <<said, recent, stale, applied, late>>
  BY <1>1, HearFacts DEF reactions, history
<1>3. heard'[b] = heard[b] + 1 /\ \A x \in Bots : x # b => heard'[x] = heard[x]
  <2>1. heard \in [Bots -> 0 .. Len(said)]
    BY <1>1 DEF Typed, SpeechTyped
  <2> QED
    BY <1>2, <2>1
<1>4. /\ \A x \in Bots : x # b => pc'[x] = pc[x] /\ doing'[x] = doing[x]
      /\ pc'[b] = "idle" \/ (pc'[b] = "collect" /\ doing'[b] = c)
  <2>1. "collect" \in Where /\ ThreadTyped /\ Bots \subseteq Threads
    BY <1>1, ThreadFacts DEF Where, Typed
  <2>2. CASE doing' = [doing EXCEPT ![b] = c] /\ Go(b, "collect")
    <3>1. pc'[b] = "collect" /\ \A x \in Threads : x # b => pc'[x] = pc[x]
      BY <1>2, <2>1, <2>2, GoFacts
    <3>2. doing'[b] = c /\ \A x \in Threads : x # b => doing'[x] = doing[x]
      BY <1>2, <2>1, <2>2 DEF ThreadTyped
    <3> QED
      BY <2>1, <3>1, <3>2
  <2>3. CASE UNCHANGED <<doing, pc>>
    BY <1>2, <2>3
  <2> QED
    BY <1>2, <2>2, <2>3
<1>5. Pending' \subseteq Pending
  <2> SUFFICES ASSUME NEW n \in DOMAIN said, NEW x \in Bots, heard'[x] < n \/ (heard'[x] = n /\ pc'[x] # "idle")
               PROVE  heard[x] < n \/ (heard[x] = n /\ pc[x] # "idle")
    BY <1>2 DEF Pending
  <2>1. n \in Nat
    BY <1>1, RoundTypes
  <2>2. CASE x = b
    BY <1>2, <1>3, <2>1, <2>2
  <2>3. CASE x # b
    BY <1>3, <1>4, <2>3
  <2> QED
    BY <2>2, <2>3
<1>6. Heeded'
  <2> SUFFICES ASSUME NEW x \in Bots, pc'[x] # "idle" PROVE doing'[x] = said[heard'[x]]
    BY <1>2 DEF Heeded
  <2>1. CASE x = b
    BY <1>3, <1>4, <2>1
  <2>2. CASE x # b
    BY <1>1, <1>3, <1>4, <2>2 DEF InLine, Heeded
  <2> QED
    BY <2>1, <2>2
<1>7. Untried'
  <2> SUFFICES ASSUME NEW x \in Bots, pc'[x] \in AtWork PROVE heard'[x] \in late \/ ~Succeeded(heard'[x])
    BY <1>2 DEF Untried, Succeeded
  <2>1. x # b
    BY <1>4 DEF AtWork
  <2> QED
    BY <1>1, <1>3, <1>4, <2>1 DEF InLine, Untried
<1>8. \A n : Fresh(KeyOf("channel", said[n])) => Fresh(KeyOf("channel", said[n]))'
  BY <1>2 DEF Fresh, KeyOf
<1> QED
  BY <1>1, <1>2, <1>5, <1>6, <1>7, <1>8, InLineMoves

\* Whoever takes the mutex for a command that is not late is the first.
LEMMA CollectFirst ==
    ASSUME Rounds, NEW b \in Bots, pc[b] = "collect", ~Fresh(Key(b))
    PROVE  heard[b] \in late \/ ~Succeeded(heard[b])
<1>1. Typed /\ Remembered /\ Heeded
  BY DEF Rounds, InLine
<1>2. heard[b] \in Pending /\ b \in Threads \ Clients
  BY <1>1, RoundTypes, ThreadFacts
<1>3. doing[b] \in Commands /\ doing[b] = said[heard[b]]
  BY <1>1, <1>2, ArgumentFacts DEF Heeded
<1>4. Key(b) = KeyOf("channel", said[heard[b]])
  BY <1>2, <1>3, KeyFacts
<1> QED
  BY <1>1, <1>2, <1>4 DEF Remembered

\* An entry is left.
LEMMA Entered ==
    ASSUME Typed, NEW t \in Threads, t \notin Clients, doing[t] \in Commands, Key(t) \in Keys,
           recent' = [recent EXCEPT ![Key(t)] = doing[t]], stale' = stale \ {Key(t)}
    PROVE  /\ recent'[Key(t)] # None /\ Key(t) \notin stale'
           /\ \A k \in Keys : Fresh(k) => recent'[k] # None /\ k \notin stale'
<1> DEFINE i == Key(t)
<1>1. ReactTyped /\ doing[t] # None /\ i \in Keys /\ recent' = [recent EXCEPT ![i] = doing[t]] /\ stale' = stale \ {i}
  BY CommandAssumption DEF Typed
<1> HIDE DEF i
<1>2. recent'[i] = doing[t] /\ \A k \in Keys : k # i => recent'[k] = recent[k]
  BY <1>1 DEF ReactTyped
<1>3. \A k \in Keys : Fresh(k) => recent'[k] # None /\ k \notin stale'
  BY <1>1, <1>2 DEF Fresh
<1>4. recent'[i] # None /\ i \notin stale'
  BY <1>1, <1>2
<1> QED
  BY <1>3, <1>4 DEF i

\* A key in the channel.
LEMMA ChannelKeys == ASSUME NEW c \in Commands PROVE KeyOf("channel", c) \in Keys
  BY DEF KeyOf, Keys

\* What was said is a command.
LEMMA SaidFacts == ASSUME Typed PROVE \A n \in Pending : said[n] \in Commands /\ n \in Nat
  BY RoundTypes DEF Pending

\* A bot succeeds.
LEMMA BotSucceeds == ASSUME Rounds, NEW t \in Bots, Succeed(t) PROVE InLine'
<1>1. Typed /\ Locked /\ InLine /\ t \in Threads /\ t \notin Clients
  BY ThreadFacts DEF Rounds
<1>2. /\ pc[t] = "ok" /\ Go(t, "idle") /\ doing[t] \in Commands /\ Key(t) \in Keys
      /\ recent' = [recent EXCEPT ![Key(t)] = doing[t]] /\ stale' = stale \ {Key(t)}
      /\ applied' = Append(applied, heard[t])
      /\ UNCHANGED <<said, heard, doing, late>>
  BY <1>1, SucceedFacts DEF Release, speech
<1>3. pc'[t] = "idle" /\ \A u \in Threads : u # t => pc'[u] = pc[u]
  BY <1>1, <1>2, GoFacts DEF Typed, Where
<1> DEFINE h == heard[t]
<1>4. h \in Pending /\ h \in Nat /\ h <= Len(said) /\ doing[t] = said[h]
  BY <1>1, <1>2, RoundTypes DEF InLine, Heeded
<1>5. h \in late \/ (h = Len(said) /\ ~Succeeded(h))
  BY <1>1, <1>2, <1>4 DEF InLine, Behind, Untried, AtWork
<1> HIDE DEF h
<1>6. Pending' \subseteq Pending
  BY <1>2, <1>3, PendingShrinks, ThreadFacts
<1>7. Behind' /\ Heeded'
  BY <1>1, <1>2, <1>3, <1>6, ThreadFacts DEF InLine, Behind, Heeded
<1>8. Untried'
  <2>1. ASSUME NEW b \in Bots, pc'[b] \in AtWork PROVE FALSE
    <3>1. b # t /\ pc[b] \in AtWork /\ b \in Threads /\ b \notin Clients
      BY <1>3, <2>1, ThreadFacts DEF AtWork
    <3> QED
      BY <1>1, <1>2, <3>1, LockedNow DEF AtWork
  <2> QED
    BY <2>1 DEF Untried
<1>9. /\ Len(applied) \in Nat /\ DOMAIN applied = 1 .. Len(applied) /\ DOMAIN applied' = 1 .. Len(applied) + 1
      /\ \A i \in 1 .. Len(applied) : applied'[i] = applied[i] /\ applied[i] \in Nat
      /\ applied'[Len(applied) + 1] = h
  <2>1. applied \in Seq(Nat \ {0}) /\ applied' = Append(applied, h)
    BY <1>1, <1>2, RoundTypes DEF h
  <2> QED
    BY <1>4, <2>1
<1>10. \A n : Succeeded(n)' => Succeeded(n) \/ n = h
  <2> SUFFICES ASSUME NEW i \in DOMAIN applied' PROVE (i \in DOMAIN applied /\ applied'[i] = applied[i]) \/ applied'[i] = h
    BY DEF Succeeded
  <2>1. i \in 1 .. Len(applied) \/ i = Len(applied) + 1
    BY <1>9
  <2> QED
    BY <1>9, <2>1
<1>11. Remembered'
  <2> SUFFICES ASSUME NEW n \in Pending', n \notin late', Succeeded(n)' PROVE Fresh(KeyOf("channel", said[n]))'
    BY DEF Remembered
  <2>1. n \in Pending /\ n \notin late /\ said[n] \in Commands
    BY <1>1, <1>2, <1>6, SaidFacts
  <2> DEFINE k == KeyOf("channel", said[n])
  <2>2. k \in Keys /\ KeyOf("channel", said[n])' = k
    BY <1>2, <2>1, ChannelKeys DEF KeyOf
  <2>3. /\ recent'[Key(t)] # None /\ Key(t) \notin stale'
        /\ \A i \in Keys : Fresh(i) => recent'[i] # None /\ i \notin stale'
    BY <1>1, <1>2, Entered
  <2>4. CASE Succeeded(n)
    <3>1. Fresh(k)
      BY <1>1, <2>1, <2>4 DEF InLine, Remembered
    <3> HIDE DEF k
    <3> QED
      BY <2>2, <2>3, <3>1 DEF Fresh
  <2>5. CASE n = h
    <3>1. Key(t) = k
      BY <1>1, <1>2, <1>4, <2>5, KeyFacts
    <3> HIDE DEF k
    <3> QED
      BY <2>2, <2>3, <3>1 DEF Fresh
  <2> QED
    BY <1>10, <2>4, <2>5
<1>12. InOrder'
  <2>1. \A i \in 1 .. Len(applied) : applied[i] <= Len(said)
    BY <1>1, <1>9 DEF InLine, InOrder
  <2>2. ASSUME NEW i \in DOMAIN applied' PROVE applied'[i] <= Len(said')
    <3>1. i \in 1 .. Len(applied) \/ i = Len(applied) + 1
      BY <1>9
    <3> QED
      BY <1>2, <1>4, <1>9, <2>1, <3>1
  <2>3. ASSUME NEW i \in DOMAIN applied', NEW j \in DOMAIN applied', i < j
        PROVE  applied'[i] < applied'[j] \/ applied'[j] \in late'
    <3>1. i \in 1 .. Len(applied) /\ (j \in 1 .. Len(applied) \/ j = Len(applied) + 1)
      BY <1>9, <2>3
    <3>2. CASE j \in 1 .. Len(applied)
      BY <1>1, <1>2, <1>9, <2>3, <3>1, <3>2 DEF InLine, InOrder, AppliedInOrder
    <3>3. CASE j = Len(applied) + 1
      <4>1. applied'[j] = h /\ applied'[i] = applied[i] /\ applied[i] \in Nat /\ applied[i] <= Len(said)
        BY <1>9, <2>1, <3>1, <3>3
      <4>2. CASE h \in late
        BY <1>2, <4>1, <4>2
      <4>3. CASE h = Len(said) /\ ~Succeeded(h)
        <5>1. applied[i] # h
          BY <1>9, <3>1, <4>3 DEF Succeeded
        <5> QED
          BY <1>4, <4>1, <4>3, <5>1
      <4> QED
        BY <1>5, <4>2, <4>3
    <3> QED
      BY <3>1, <3>2, <3>3
  <2> QED
    BY <2>2, <2>3 DEF InOrder, AppliedInOrder
<1> QED
  BY <1>7, <1>8, <1>11, <1>12 DEF InLine

\* A chat or a client succeeds.
LEMMA OtherSucceeds == ASSUME Rounds, NEW t \in Threads, t \notin Bots, Succeed(t) PROVE InLine'
<1>1. Typed /\ Locked /\ InLine
  BY DEF Rounds
<1>2. /\ pc[t] = "ok" /\ Go(t, "idle") /\ doing[t] \in Commands
      /\ \/ t \in Clients /\ UNCHANGED <<recent, stale>>
         \/ /\ t \notin Clients /\ Key(t) \in Keys
            /\ recent' = [recent EXCEPT ![Key(t)] = doing[t]] /\ stale' = stale \ {Key(t)}
      /\ UNCHANGED <<said, heard, doing, late, applied>>
  BY <1>1, SucceedFacts DEF Release, speech, reactions
<1>3. \A b \in Bots : pc'[b] = pc[b]
  BY <1>1, <1>2, GoFacts, ThreadFacts DEF Typed, Where
<1>4. Pending' \subseteq Pending
  BY <1>2, <1>3, PendingShrinks
<1>5. Heeded' /\ Untried'
  BY <1>1, <1>2, <1>3 DEF InLine, Heeded, Untried, Succeeded
<1>6. \A k \in Keys : Fresh(k) => recent'[k] # None /\ k \notin stale'
  <2>1. CASE UNCHANGED <<recent, stale>>
    BY <2>1 DEF Fresh
  <2>2. CASE ~UNCHANGED <<recent, stale>>
    BY <1>1, <1>2, <2>2, Entered
  <2> QED
    BY <2>1, <2>2
<1>7. ASSUME NEW n \in Pending', Fresh(KeyOf("channel", said[n])) PROVE Fresh(KeyOf("channel", said[n]))'
  <2> DEFINE k == KeyOf("channel", said[n])
  <2>1. k \in Keys /\ KeyOf("channel", said[n])' = k
    BY <1>1, <1>2, <1>4, SaidFacts, ChannelKeys DEF KeyOf
  <2>2. Fresh(k)
    BY <1>7
  <2> HIDE DEF k
  <2> QED
    BY <1>6, <2>1, <2>2 DEF Fresh
<1> QED
  BY <1>1, <1>2, <1>4, <1>5, <1>7, InLineMoves

\* The steps of a command.
LEMMA StepInLine == ASSUME Rounds, NEW t \in Threads, Step(t) PROVE InLine'
<1>1. Typed
  BY DEF Rounds
<1>2. {"idle", "act", "announce", "persist", "ok", "error"} \subseteq Where /\ "idle" \notin AtWork
  BY DEF Where, AtWork
<1>3. ASSUME NEW l \in Where, Go(t, l), pc[t] \in AtWork, UNCHANGED <<said, heard, doing, applied, late, recent, stale>>
      PROVE  InLine'
  BY <1>2, <1>3, GoesOn
<1>4. ASSUME Ignore(t) PROVE InLine'
  <2>1. pc[t] = "collect" /\ Go(t, "idle") /\ UNCHANGED <<said, heard, doing, applied, late, recent, stale>>
    BY <1>4 DEF Ignore, speech, reactions, history
  <2> QED
    BY <1>2, <2>1, GoesOn
<1>5. ASSUME Collect(t) PROVE InLine'
  <2>1. /\ pc[t] = "collect" /\ Go(t, "act") /\ ~Fresh(Key(t))
        /\ UNCHANGED <<said, heard, doing, applied, late, recent, stale>>
    BY <1>5 DEF Collect, speech, reactions, history
  <2>2. t \in Bots => heard[t] \in late \/ ~Succeeded(heard[t])
    BY <2>1, CollectFirst
  <2> QED
    BY <1>2, <2>1, <2>2, GoesOn
<1>6. ASSUME Act(t) PROVE InLine'
  <2>1. /\ pc[t] = "act" /\ UNCHANGED <<said, heard, doing, applied, late, recent, stale>>
        /\ ActsOnNicks(t) \/ ActsOnOwners(t) \/ ActsNot(t) \/ ActsOnAll(t)
    BY <1>6, ActFacts DEF speech, reactions
  <2>2. \E l \in Where : Go(t, l)
    BY <1>2, <2>1 DEF ActsOnNicks, ActsOnOwners, ActsNot, ActsOnAll, MassCommand
  <2>3. pc[t] \in AtWork
    BY <2>1 DEF AtWork
  <2> QED
    BY <1>3, <2>1, <2>2, <2>3
<1>7. ASSUME NicksChanged(t) PROVE InLine'
  <2>1. pc[t] = "announce" /\ Go(t, "ok") /\ UNCHANGED <<said, heard, doing, applied, late, recent, stale>>
    BY <1>7 DEF NicksChanged, speech, reactions, history
  <2> QED
    BY <1>2, <1>3, <2>1 DEF AtWork
<1>8. ASSUME Persist(t) PROVE InLine'
  <2>1. /\ pc[t] = "persist" /\ UNCHANGED <<said, heard, doing, applied, late, recent, stale>>
        /\ Go(t, "persist") \/ Go(t, "error") \/ Go(t, "ok")
    BY <1>1, <1>8, PersistFacts DEF speech, reactions, history
  <2> QED
    BY <1>2, <1>3, <2>1 DEF AtWork
<1>9. ASSUME Fail(t) PROVE InLine'
  <2>1. pc[t] = "error" /\ Go(t, "idle") /\ UNCHANGED <<said, heard, doing, applied, late, recent, stale>>
    BY <1>9 DEF Fail, Release, speech, history
  <2> QED
    BY <1>2, <1>3, <2>1 DEF AtWork
<1>10. ASSUME Succeed(t) PROVE InLine'
  BY <1>10, BotSucceeds, OtherSucceeds
<1> QED
  BY <1>4, <1>5, <1>6, <1>7, <1>8, <1>9, <1>10 DEF Step

\* The clock makes a command late whose entry it takes.
LEMMA TimeInLine == ASSUME Rounds, NEW k \in Keys, Age(k) \/ Cleanup(k) PROVE InLine'
<1>1. Typed /\ InLine
  BY DEF Rounds
<1>2. /\ UNCHANGED <<said, heard, applied, pc, doing>> /\ Forgets(k)
      /\ \A i \in Keys : i # k /\ Fresh(i) => recent'[i] # None /\ i \notin stale'
  <2>1. CASE Age(k)
    BY <2>1 DEF Age, speech, Fresh
  <2>2. CASE Cleanup(k)
    <3>1. recent' = [recent EXCEPT ![k] = None] /\ stale' = stale \ {k} /\ ReactTyped
      BY <1>1, <2>2 DEF Cleanup, Typed
    <3>2. \A i \in Keys : i # k => recent'[i] = recent[i]
      BY <3>1 DEF ReactTyped
    <3> QED
      BY <2>2, <3>1, <3>2 DEF Cleanup, speech, Fresh
  <2> QED
    BY <2>1, <2>2
<1>3. late \subseteq late'
  BY <1>2 DEF Forgets
<1>4. Pending' = Pending /\ Heeded'
  BY <1>1, <1>2 DEF Pending, InLine, Heeded
<1>5. Untried'
  BY <1>1, <1>2, <1>3 DEF InLine, Untried, Succeeded
<1>6. ASSUME NEW n \in Pending', n \notin late', Fresh(KeyOf("channel", said[n])) PROVE Fresh(KeyOf("channel", said[n]))'
  <2> DEFINE i == KeyOf("channel", said[n])
  <2>1. i \in Keys /\ KeyOf("channel", said[n])' = i
    BY <1>1, <1>2, <1>4, SaidFacts, ChannelKeys DEF KeyOf
  <2>2. i # k
    BY <1>2, <1>4, <1>6 DEF Forgets
  <2>3. Fresh(i)
    BY <1>6
  <2> HIDE DEF i
  <2> QED
    BY <1>2, <2>1, <2>2, <2>3 DEF Fresh
<1> QED
  BY <1>1, <1>2, <1>3, <1>4, <1>5, <1>6, InLineMoves

\* After a restart nothing is pending.
LEMMA RestartInLine == ASSUME Rounds, Restart PROVE InLine'
<1>1. Typed /\ InLine
  BY DEF Rounds
<1>2. /\ heard' = [b \in Bots |-> Len(said)] /\ pc' = [t \in Threads |-> "idle"] /\ UNCHANGED <<said, applied, late>>
  BY DEF Restart
<1>3. \A b \in Bots : heard'[b] = Len(said) /\ pc'[b] = "idle"
  BY <1>2, ThreadFacts
<1>4. Pending' = {}
  <2>1. \A n \in DOMAIN said : ~(Len(said) < n)
    BY <1>1, RoundTypes
  <2> QED
    BY <1>2, <1>3, <2>1 DEF Pending
<1>5. Behind' /\ Remembered' /\ Heeded' /\ Untried'
  BY <1>3, <1>4 DEF Behind, Remembered, Heeded, Untried, AtWork
<1>6. InOrder'
  BY <1>1, <1>2 DEF InLine, InOrder, AppliedInOrder
<1> QED
  BY <1>5, <1>6 DEF InLine

\* Every step keeps the commands in line.
LEMMA NextRounds == Rounds /\ [Next]_vars => Rounds'
<1> SUFFICES ASSUME Rounds, [Next]_vars PROVE Rounds'
  OBVIOUS
<1>1. Typed /\ Locked /\ InLine
  BY DEF Rounds
<1>2. Typed' /\ Locked'
  BY <1>1, NextTyped, NextLocked
<1>3. ASSUME NEW c \in Commands, Say(c) PROVE InLine'
  BY <1>3, SayInLine
<1>4. ASSUME NEW c \in Commands, NEW t \in Threads, Begins(t, c) PROVE InLine'
  <2>1. /\ t \notin Bots /\ doing' = [doing EXCEPT ![t] = c] /\ \E l \in {"collect", "act"} : Go(t, l)
        /\ UNCHANGED <<said, heard, recent, stale, applied, late>>
    BY <1>1, <1>4, BeginFacts DEF reactions, history
  <2>2. \A u \in Threads : u # t => pc'[u] = pc[u] /\ doing'[u] = doing[u]
    BY <1>1, <2>1, GoFacts DEF Typed, ThreadTyped, Where
  <2> QED
    BY <1>1, <2>1, <2>2, ThreadFacts, InLineSame
<1>5. ASSUME NEW c \in Commands, NEW t \in Threads, QueryMass(t, c) PROVE InLine'
  BY <1>1, <1>5, QueryFacts, InLineSame DEF reactions, history
<1>6. ASSUME NEW b \in Bots, Hear(b) PROVE InLine'
  BY <1>6, HearInLine
<1>7. ASSUME NEW t \in Threads, Step(t) PROVE InLine'
  BY <1>7, StepInLine
<1>8. ASSUME NEW k \in Keys, Age(k) \/ Cleanup(k) PROVE InLine'
  BY <1>8, TimeInLine
<1>9. ASSUME CooldownOver \/ UNCHANGED vars PROVE InLine'
  <2>1. UNCHANGED <<said, heard, applied, late, recent, stale, pc, doing>>
    BY <1>9 DEF CooldownOver, vars, speech, reactions, history
  <2> QED
    BY <1>1, <2>1, InLineSame
<1>10. ASSUME Restart PROVE InLine'
  BY <1>10, RestartInLine
<1> QED
  BY <1>2, <1>3, <1>4, <1>5, <1>6, <1>7, <1>8, <1>9, <1>10, NextActions DEF Rounds

\* Nothing was said at first.
LEMMA InitRounds == Init => Rounds
<1> SUFFICES ASSUME Init PROVE Rounds
  OBVIOUS
<1>1. Typed /\ Locked
  BY InitTyped, InitLocked
<1>2. applied = <<>> /\ said = <<>> /\ \A b \in Bots : pc[b] = "idle"
  BY ThreadFacts DEF Init
<1>3. DOMAIN applied = {} /\ Pending = {}
  BY <1>2 DEF Pending
<1>4. InLine
  BY <1>2, <1>3 DEF InLine, Behind, Heeded, Remembered, Untried, AtWork, InOrder, AppliedInOrder
<1> QED
  BY <1>1, <1>4 DEF Rounds

\* However many bots hear a command in the channel, none succeeds with it after
\* one has succeeded with it or with a later one (CollectReactions,
\* manager.go:576-623), unless some bot had not done with it when the next was
\* said or when its entry ran out.
THEOREM InOrderHolds == Spec => []AppliedInOrder
<1>1. Rounds => AppliedInOrder
  BY DEF Rounds, InLine, InOrder
<1> QED
  BY <1>1, InitRounds, NextRounds, PTL DEF Spec

-----------------------------------------------------------------------------
(* The two lists of nicks, when they have arrays of their own. *)

Roomless == slack < Len(Letters)
Together == Roomless => Apart /\ NL!Agree
Parted == Typed /\ Together

\* What keeps two agreeing lists apart keeps them together.
LEMMA TogetherMoves ==
    ASSUME Together, slack' = slack, Apart /\ NL!Agree => Apart' /\ NL!Agree'
    PROVE  Together'
  BY DEF Together, Roomless

\* Every step keeps the lists agreed and apart.
LEMMA NextParted == Parted /\ [Next]_vars => Parted'
<1> SUFFICES ASSUME Parted, [Next]_vars PROVE Parted'
  OBVIOUS
<1>1. Typed /\ Together /\ NickTyped
  BY DEF Parted, Typed
<1>2. Typed'
  BY <1>1, NextTyped
<1>3. ASSUME UNCHANGED nickVars PROVE Together'
  <2>1. slack' = slack /\ (Apart /\ NL!Agree => Apart' /\ NL!Agree')
    BY <1>1, <1>3, NickSame DEF nickVars
  <2> QED
    BY <1>1, <2>1, TogetherMoves
<1>4. Together'
  <2>1. ASSUME NEW c \in Commands, Say(c) PROVE Together'
    BY <1>3, <2>1 DEF Say
  <2>2. ASSUME NEW c \in Commands, NEW t \in Threads, Begins(t, c) PROVE Together'
    BY <1>1, <1>3, <2>2, BeginFacts
  <2>3. ASSUME NEW c \in Commands, NEW t \in Threads, QueryMass(t, c) PROVE Together'
    BY <1>3, <2>3, QueryFacts
  <2>4. ASSUME NEW b \in Bots, Hear(b) PROVE Together'
    BY <1>3, <2>4 DEF Hear
  <2>5. ASSUME NEW t \in Threads, Step(t) PROVE Together'
    <3>1. CASE Ignore(t) \/ Collect(t) \/ Succeed(t) \/ Fail(t)
      BY <1>3, <3>1 DEF Ignore, Collect, Succeed, Fail
    <3>2. CASE Act(t)
      <4>1. pc[t] = "act" /\ (ActsOnNicks(t) \/ ActsOnOwners(t) \/ ActsNot(t) \/ ActsOnAll(t))
        BY <3>2, ActFacts
      <4>2. CASE ActsOnNicks(t)
        BY <1>1, <4>1, <4>2, NickActFacts, TogetherMoves
      <4>3. CASE ActsOnOwners(t) \/ ActsNot(t) \/ ActsOnAll(t)
        BY <1>3, <4>3 DEF ActsOnOwners, ActsNot, ActsOnAll
      <4> QED
        BY <4>1, <4>2, <4>3
    <3>3. CASE NicksChanged(t)
      BY <1>1, <3>3, NicksChangedFacts, TogetherMoves DEF NicksChanged
    <3>4. CASE Persist(t)
      BY <1>3, <3>4 DEF Persist
    <3> QED
      BY <2>5, <3>1, <3>2, <3>3, <3>4 DEF Step
  <2>6. ASSUME NEW k \in Keys, Age(k) \/ Cleanup(k) PROVE Together'
    BY <1>3, <2>6 DEF Age, Cleanup
  <2>7. CASE CooldownOver \/ UNCHANGED vars
    BY <1>3, <2>7 DEF CooldownOver, vars
  <2>8. CASE Restart
    BY <1>1, <2>8, NickRestart DEF Restart, Together, Roomless
  <2> QED
    BY <2>1, <2>2, <2>3, <2>4, <2>5, <2>6, <2>7, <2>8, NextActions
<1> QED
  BY <1>2, <1>4 DEF Parted

\* The nicks to catch are those of the priority list and the letters, whatever
\* owners and clients add and remove (nickmanager.go:110-137, 369-457), as long
\* as the decoder left less room behind its list than there are letters: append
\* then gives nicksToCatch an array of its own.
THEOREM ListsAgree == Spec => []CombinedLists
<1>1. Parted => CombinedLists
  BY DEF Parted, Together, Roomless, CombinedLists, NL!CombinedLists
<1>2. Init => Parted
  BY InitTyped, NickInit DEF Init, Together, Roomless, Parted
<1> QED
  BY <1>1, <1>2, NextParted, PTL DEF Spec
=============================================================================

------------------------ MODULE ChannelActivityProofs ------------------------
(***************************************************************************)
(* The type invariant, ViewInStep and WatchdogQuiet of ChannelActivity,    *)
(* for any channels, settings, numbers of runners, losses, KICKs and       *)
(* setters.                                                                *)
(*                                                                         *)
(* ViewInStep speaks of a bot with no line under way.  It is inductive     *)
(* together with what the lines under way say (Consistent): the server has *)
(* the bot on those channels that it will believe in when it has read its  *)
(* events, but for those that it has sent a PART for.                      *)
(***************************************************************************)
EXTENDS ChannelActivity, FiniteSetTheorems, FunctionTheorems, TLAPS

Jobs == [pc : {"idle", "gate", "watchdog", "reset", "look", "act", "take", "wait", "quit", "gone"},
         on : BOOLEAN, running : BOOLEAN, runner : 0 .. MaxRunners]
RunnerStates == [pc : {"off", "join", "stay", "done"}, stop : BOOLEAN, joined : HlChannels \cup {None}]

\* TypeOK by parts.  A runner that joins or stays has a channel.
CfgTyped == cfg \in Config /\ disk \in Config
JobTyped == job \in [Callers -> Jobs]
RunTyped ==
  /\ runners \in Seq(RunnerStates) /\ Len(runners) <= MaxRunners /\ slot \in 0 .. Len(runners)
  /\ \A r \in DOMAIN runners : runners[r].pc \in {"join", "stay"} => runners[r].joined # None
FlagsTyped == up \in BOOLEAN /\ checker \in BOOLEAN /\ gaveUp \in BOOLEAN /\ rejoin \subseteq WdChannels
NetTyped ==
  /\ view \subseteq Channels /\ member \subseteq Channels
  /\ link \in {"up", "down", "off"} /\ out \in Seq(Line) /\ in \in Seq(Line)
Typed == CfgTyped /\ JobTyped /\ RunTyped /\ FlagsTyped /\ NetTyped

\* The events of a connection begin with 001 and end with the connection; the
\* bot sends JOINs and PARTs.
Wire ==
  /\ link # "up" => out = <<>> /\ member = {}
  /\ link = "up" => \A k \in DOMAIN in : /\ in[k].cmd \notin {"465", "closed"}
                                         /\ in[k].cmd = "001" => k = 1
  /\ \A k \in DOMAIN out : out[k].cmd \in {"JOIN", "PART"}

\* What the bot will believe of the channel c when it has read its events.
About(line, c) == line.cmd \in {"JOIN", "PART", "KICK"} /\ line.channel = c
Forgets == job["welcome"].pc = "reset" \/ \E k \in DOMAIN in : in[k].cmd = "001"
NoneAbout(s, c) == \A k \in DOMAIN s : ~About(s[k], c)
LastJoin(s, c) == \E k \in DOMAIN s : /\ About(s[k], c) /\ s[k].cmd = "JOIN"
                                      /\ \A l \in DOMAIN s : l > k => ~About(s[l], c)
WillBelieve(c) ==
  \/ c \in view /\ ~Forgets /\ NoneAbout(in, c)
  \/ LastJoin(in, c)
Parting(c) == \E k \in DOMAIN out : out[k] = [cmd |-> "PART", channel |-> c]

Consistent ==
  link = "up" => \A c \in Channels : /\ WillBelieve(c) => c \in member
                                     /\ c \in member => WillBelieve(c) \/ Parting(c)

IInv == Typed /\ Wire /\ Consistent

USE ActivityAssumption

-----------------------------------------------------------------------------
(* Lines.                                                                  *)

\* The elements of a finite set in some order.
LEMMA SetToSeqFacts ==
  ASSUME NEW S, IsFiniteSet(S)
  PROVE  SetToSeq(S) \in Seq(S) /\ \A x \in S : \E k \in DOMAIN SetToSeq(S) : SetToSeq(S)[k] = x
<1> DEFINE n == Cardinality(S)
           f == SetToSeq(S)
<1>1. n \in Nat /\ ExistsBijection(1 .. n, S)
  <2>1. PICK m \in Nat : ExistsBijection(1 .. m, S)
    BY FS_NatBijection
  <2> QED
    BY <2>1, FS_CountingElements
<1>2. PICK g \in Bijection(1 .. n, S) : TRUE
  BY <1>1 DEF ExistsBijection
<1>3. g \in [1 .. n -> S] /\ IsInjective(g)
  BY <1>2 DEF Bijection, Injection, IsInjective
<1>4. f \in [1 .. n -> S] /\ IsInjective(f)
  BY <1>3 DEF SetToSeq
<1>5. f \in Injection(1 .. n, S)
  BY <1>4 DEF Injection
<1>6. IsFiniteSet(1 .. n) /\ Cardinality(1 .. n) = n
  BY <1>1, FS_Interval
<1>7. f \in Surjection(1 .. n, S)
  BY <1>5, <1>6, FS_Injection
<1> QED
  BY <1>1, <1>4, <1>7 DEF Surjection

\* What a bot sends is put behind what it sent before, while the connection is
\* up: one line for each channel.
LEMMA SentFacts ==
  ASSUME out \in Seq(Line), NEW cmd \in {"JOIN", "PART"}, NEW S \in SUBSET Channels
  PROVE  /\ Sent(cmd, S) \in Seq(Line)
         /\ link # "up" => Sent(cmd, S) = out
         /\ \A k \in DOMAIN out : k \in DOMAIN Sent(cmd, S) /\ Sent(cmd, S)[k] = out[k]
         /\ \A k \in DOMAIN Sent(cmd, S) :
              \/ k \in DOMAIN out /\ Sent(cmd, S)[k] = out[k]
              \/ \E x \in S : Sent(cmd, S)[k] = [cmd |-> cmd, channel |-> x]
         /\ link = "up" => \A x \in S : \E k \in DOMAIN Sent(cmd, S) : Sent(cmd, S)[k] = [cmd |-> cmd, channel |-> x]
<1>1. CASE link # "up"
  BY <1>1 DEF Sent
<1>2. CASE link = "up"
  <2> DEFINE T == [cmd : {cmd}, channel : S]
             f == [x \in S |-> [cmd |-> cmd, channel |-> x]]
             new == SetToSeq(T)
  <2>1. IsFiniteSet(S)
    BY FS_Subset
  <2>2. f \in Surjection(S, T)
    <3>1. f \in [S -> T]
      OBVIOUS
    <3>2. \A t \in T : \E x \in S : f[x] = t
      OBVIOUS
    <3> QED
      BY <3>1, <3>2 DEF Surjection
  <2>3. IsFiniteSet(T)
    BY <2>1, <2>2, FS_Surjection
  <2>4. new \in Seq(T) /\ \A t \in T : \E k \in DOMAIN new : new[k] = t
    BY <2>3, SetToSeqFacts
  <2>5. T \subseteq Line /\ \A t \in T : \E x \in S : t = [cmd |-> cmd, channel |-> x]
    BY DEF Line
  <2>6. \A x \in S : [cmd |-> cmd, channel |-> x] \in T
    OBVIOUS
  <2>7. Sent(cmd, S) = out \o new
    BY <1>2 DEF Sent
  <2> HIDE DEF new, T, f
  <2>8. new \in Seq(Line) /\ \A k \in DOMAIN new : new[k] \in T
    BY <2>4, <2>5
  <2>9. /\ \A k \in DOMAIN new : \E x \in S : new[k] = [cmd |-> cmd, channel |-> x]
        /\ \A x \in S : \E k \in DOMAIN new : new[k] = [cmd |-> cmd, channel |-> x]
    BY <2>4, <2>5, <2>6, <2>8
  <2> DEFINE both == out \o new
  <2>10. /\ both \in Seq(Line) /\ Len(out) \in Nat /\ Len(new) \in Nat
         /\ DOMAIN out = 1 .. Len(out) /\ DOMAIN new = 1 .. Len(new) /\ DOMAIN both = 1 .. Len(out) + Len(new)
         /\ \A k \in 1 .. Len(out) : both[k] = out[k]
         /\ \A k \in 1 .. Len(new) : both[Len(out) + k] = new[k]
    BY <2>8
  <2> HIDE DEF both
  <2>11. \A k \in DOMAIN both : k \in DOMAIN out \/ \E l \in DOMAIN new : both[k] = new[l]
    <3> SUFFICES ASSUME NEW k \in DOMAIN both, k \notin DOMAIN out PROVE \E l \in DOMAIN new : both[k] = new[l]
      OBVIOUS
    <3>1. k - Len(out) \in 1 .. Len(new) /\ Len(out) + (k - Len(out)) = k
      BY <2>10
    <3> QED
      BY <2>10, <3>1
  <2>12. \A k \in DOMAIN new : Len(out) + k \in DOMAIN both /\ both[Len(out) + k] = new[k]
    BY <2>10
  <2>13. Sent(cmd, S) = both
    BY <2>7 DEF both
  <2>14. \A k \in DOMAIN out : k \in DOMAIN both /\ both[k] = out[k]
    BY <2>10
  <2>15. \A k \in DOMAIN both : \/ k \in DOMAIN out /\ both[k] = out[k]
                                \/ \E x \in S : both[k] = [cmd |-> cmd, channel |-> x]
    BY <2>9, <2>11, <2>14
  <2>16. \A x \in S : \E k \in DOMAIN both : both[k] = [cmd |-> cmd, channel |-> x]
    BY <2>9, <2>12
  <2> QED
    BY <1>2, <2>10, <2>13, <2>14, <2>15, <2>16
<1> QED
  BY <1>1, <1>2

\* The first line of a sequence is taken, or one is put behind it.
LEMMA TailFacts ==
  ASSUME NEW s \in Seq(Line), s # <<>>
  PROVE  /\ Tail(s) \in Seq(Line) /\ Head(s) \in Line /\ Head(s) = s[1] /\ 1 \in DOMAIN s
         /\ \A k \in DOMAIN Tail(s) : k + 1 \in DOMAIN s /\ Tail(s)[k] = s[k + 1] /\ k + 1 > 1
         /\ \A k \in DOMAIN s : k = 1 \/ (k - 1 \in DOMAIN Tail(s) /\ Tail(s)[k - 1] = s[k])
  OBVIOUS

\* A line is put behind the others.
LEMMA AppendFacts ==
  ASSUME NEW s \in Seq(Line), NEW x \in Line
  PROVE  /\ Append(s, x) \in Seq(Line)
         /\ \A k \in DOMAIN s : k \in DOMAIN Append(s, x) /\ Append(s, x)[k] = s[k] /\ Len(s) + 1 > k
         /\ Len(s) + 1 \in DOMAIN Append(s, x) /\ Append(s, x)[Len(s) + 1] = x
         /\ \A k \in DOMAIN Append(s, x) : k \in DOMAIN s \/ k = Len(s) + 1
  OBVIOUS

\* What the bot will believe, when its first event is taken or a new one is
\* put behind the others.
LEMMA TailBelief ==
  ASSUME NEW s \in Seq(Line), s # <<>>, NEW c
  PROVE  /\ NoneAbout(s, c) <=> ~About(Head(s), c) /\ NoneAbout(Tail(s), c)
         /\ LastJoin(s, c) <=> \/ LastJoin(Tail(s), c)
                               \/ NoneAbout(Tail(s), c) /\ About(Head(s), c) /\ Head(s).cmd = "JOIN"
<1> DEFINE t == Tail(s)
           h == Head(s)
<1>1. /\ h = s[1] /\ 1 \in DOMAIN s /\ DOMAIN s \subseteq Nat /\ DOMAIN t \subseteq Nat
      /\ \A k \in DOMAIN t : k + 1 \in DOMAIN s /\ t[k] = s[k + 1] /\ k + 1 > 1
      /\ \A k \in DOMAIN s : k = 1 \/ (k - 1 \in DOMAIN t /\ t[k - 1] = s[k])
  BY TailFacts
<1> HIDE DEF t, h
<1>2. NoneAbout(s, c) <=> ~About(h, c) /\ NoneAbout(t, c)
  BY <1>1 DEF NoneAbout
<1>3. ASSUME LastJoin(s, c) PROVE LastJoin(t, c) \/ (NoneAbout(t, c) /\ About(h, c) /\ h.cmd = "JOIN")
  <2>1. PICK k \in DOMAIN s : /\ About(s[k], c) /\ s[k].cmd = "JOIN"
                              /\ \A l \in DOMAIN s : l > k => ~About(s[l], c)
    BY <1>3 DEF LastJoin
  <2>2. CASE k = 1
    BY <1>1, <2>1, <2>2 DEF NoneAbout
  <2>3. CASE k # 1
    <3>1. k - 1 \in DOMAIN t /\ t[k - 1] = s[k]
      BY <1>1, <2>3
    <3>2. \A l \in DOMAIN t : l > k - 1 => ~About(t[l], c)
      <4> SUFFICES ASSUME NEW l \in DOMAIN t, l > k - 1 PROVE ~About(t[l], c)
        OBVIOUS
      <4>1. l + 1 \in DOMAIN s /\ t[l] = s[l + 1] /\ l + 1 > k
        BY <1>1
      <4> QED
        BY <2>1, <4>1
    <3> QED
      BY <2>1, <3>1, <3>2 DEF LastJoin
  <2> QED
    BY <2>2, <2>3
<1>4. ASSUME LastJoin(t, c) PROVE LastJoin(s, c)
  <2>1. PICK k \in DOMAIN t : /\ About(t[k], c) /\ t[k].cmd = "JOIN"
                              /\ \A l \in DOMAIN t : l > k => ~About(t[l], c)
    BY <1>4 DEF LastJoin
  <2>2. \A l \in DOMAIN s : l > k + 1 => ~About(s[l], c)
    <3> SUFFICES ASSUME NEW l \in DOMAIN s, l > k + 1 PROVE ~About(s[l], c)
      OBVIOUS
    <3>1. l - 1 \in DOMAIN t /\ t[l - 1] = s[l] /\ l - 1 > k
      BY <1>1
    <3> QED
      BY <2>1, <3>1
  <2>3. k + 1 \in DOMAIN s /\ t[k] = s[k + 1]
    BY <1>1
  <2> QED
    BY <2>1, <2>2, <2>3 DEF LastJoin
<1>5. ASSUME NoneAbout(t, c), About(h, c), h.cmd = "JOIN" PROVE LastJoin(s, c)
  <2>1. \A l \in DOMAIN s : l > 1 => ~About(s[l], c)
    BY <1>1, <1>5 DEF NoneAbout
  <2> QED
    BY <1>1, <1>5, <2>1 DEF LastJoin
<1> QED
  BY <1>2, <1>3, <1>4, <1>5 DEF t, h

\* The last event about a channel decides.
LEMMA AppendBelief ==
  ASSUME NEW s \in Seq(Line), NEW x \in Line, NEW c
  PROVE  /\ NoneAbout(Append(s, x), c) <=> NoneAbout(s, c) /\ ~About(x, c)
         /\ LastJoin(Append(s, x), c) <=> IF About(x, c) THEN x.cmd = "JOIN" ELSE LastJoin(s, c)
<1> DEFINE t == Append(s, x)
           n == Len(s) + 1
<1>1. /\ \A k \in DOMAIN s : k \in DOMAIN t /\ t[k] = s[k] /\ n > k
      /\ n \in DOMAIN t /\ t[n] = x /\ n \in Nat /\ DOMAIN s \subseteq Nat
      /\ \A k \in DOMAIN t : k \in DOMAIN s \/ k = n
  BY AppendFacts
<1> HIDE DEF t, n
<1>2. NoneAbout(t, c) <=> NoneAbout(s, c) /\ ~About(x, c)
  BY <1>1 DEF NoneAbout
<1>3. CASE About(x, c)
  <2>1. ASSUME LastJoin(t, c) PROVE x.cmd = "JOIN"
    <3>1. PICK k \in DOMAIN t : t[k].cmd = "JOIN" /\ \A l \in DOMAIN t : l > k => ~About(t[l], c)
      BY <2>1 DEF LastJoin
    <3> QED
      BY <1>1, <1>3, <3>1
  <2>2. \A l \in DOMAIN t : ~(l > n)
    BY <1>1
  <2>3. ASSUME x.cmd = "JOIN" PROVE LastJoin(t, c)
    BY <1>1, <1>3, <2>2, <2>3 DEF LastJoin
  <2> QED
    BY <1>2, <1>3, <2>1, <2>3 DEF t
<1>4. CASE ~About(x, c)
  <2>1. LastJoin(t, c) <=> LastJoin(s, c)
    BY <1>1, <1>4 DEF LastJoin
  <2> QED
    BY <1>2, <1>4, <2>1 DEF t
<1> QED
  BY <1>3, <1>4

-----------------------------------------------------------------------------
(* Types.                                                                  *)

\* Channels by their settings.
LEMMA ConfigChannels ==
  ASSUME CfgTyped
  PROVE  cfg.wd \in Targets /\ cfg.wd \subseteq WdChannels /\ cfg.list \subseteq HlChannels /\ cfg.on \in BOOLEAN
  BY DEF CfgTyped, Config, WdChannels, HlChannels

\* What keeps its variables keeps its type.
LEMMA SameCfg == ASSUME CfgTyped, UNCHANGED state PROVE CfgTyped'
  BY DEF CfgTyped, state

\* ... the jobs, ...
LEMMA SameJobs == ASSUME JobTyped, UNCHANGED job PROVE JobTyped'
  BY DEF JobTyped

\* ... the runners, ...
LEMMA SameRunners == ASSUME RunTyped, UNCHANGED <<slot, runners>> PROVE RunTyped'
  BY DEF RunTyped

\* ... the flags, ...
LEMMA SameFlags == ASSUME FlagsTyped, UNCHANGED <<up, checker, gaveUp, rejoin>> PROVE FlagsTyped'
  BY DEF FlagsTyped

\* ... the lines and the channels.
LEMMA SameNet == ASSUME NetTyped, UNCHANGED <<view, member, link, out, in>> PROVE NetTyped'
  BY DEF NetTyped

\* One job moves on.
LEMMA OneJob ==
  ASSUME JobTyped, NEW c \in Callers, NEW v \in Jobs, job' = [job EXCEPT ![c] = v]
  PROVE  JobTyped' /\ job'[c] = v /\ \A d \in Callers : d # c => job'[d] = job[d]
  BY DEF JobTyped

\* Changing some fields of a job leaves it a job.
LEMMA JobFields ==
  ASSUME JobTyped, NEW c \in Callers, NEW l \in {"idle", "gate", "watchdog", "reset", "look", "act", "take",
                                                 "wait", "quit", "gone"}
  PROVE  /\ job[c] \in Jobs /\ [job[c] EXCEPT !.pc = l] \in Jobs
         /\ \A b \in BOOLEAN : [job[c] EXCEPT !.pc = l, !.on = b] \in Jobs
         /\ \A b \in BOOLEAN : [job[c] EXCEPT !.pc = l, !.running = b] \in Jobs
         /\ \A k \in 0 .. MaxRunners : [job[c] EXCEPT !.pc = l, !.runner = k] \in Jobs
         /\ Idle \in Jobs /\ [Idle EXCEPT !.pc = l] \in Jobs
<1>1. job[c] \in Jobs
  BY DEF JobTyped
<1>2. 0 \in 0 .. MaxRunners
  OBVIOUS
<1> QED
  BY <1>1, <1>2 DEF Jobs, Idle

\* SetWatchdog and SetHumanlike.
LEMMA ChangedTyped == ASSUME Typed, NEW new \in Config, Changed(new) PROVE Typed'
<1>1. CfgTyped'
  BY DEF Changed, Typed, CfgTyped
<1>2. JobTyped'
  BY OneJob, JobFields DEF Changed, Callers, Typed, JobTyped
<1> QED
  BY <1>1, <1>2, SameRunners, SameFlags, SameNet DEF Changed, bot, net, Typed

\* JOINs and PARTs are put behind the other lines.
LEMMA SentTyped ==
  ASSUME NetTyped, NEW cmd \in {"JOIN", "PART"}, NEW S \in SUBSET Channels PROVE Sent(cmd, S) \in Seq(Line)
  BY SentFacts DEF NetTyped

\* JOINs of a connected bot.
LEMMA JoinTyped == ASSUME NetTyped, NEW S \in SUBSET Channels, JoinChannels(S) PROVE out' \in Seq(Line)
  BY SentTyped DEF JoinChannels, NetTyped

\* applyRuntimeChange and its watchdog half.
LEMMA GateTyped == ASSUME Typed, Gate PROVE Typed'
<1>1. JobTyped'
  BY OneJob, JobFields DEF Gate, Callers, Typed
<1> QED
  BY <1>1, SameCfg, SameRunners, SameFlags, SameNet DEF Gate, bot, net, Typed

\* The current settings are applied.
LEMMA ApplyWatchdogTyped == ASSUME Typed, ApplyWatchdog PROVE Typed'
<1>1. cfg.on \in BOOLEAN /\ cfg.wd \ view \in SUBSET Channels
  BY ConfigChannels DEF Typed, Channels
<1>2. JobTyped'
  <2> DEFINE v == [job["set"] EXCEPT !.pc = "look", !.on = cfg.on]
  <2>1. v \in Jobs
    BY <1>1, JobFields DEF Callers, Typed
  <2>2. job' = [job EXCEPT !["set"] = v]
    BY DEF ApplyWatchdog
  <2> HIDE DEF v
  <2> QED
    BY <2>1, <2>2, OneJob DEF Callers, Typed
<1>3. FlagsTyped'
  BY DEF ApplyWatchdog, Typed, FlagsTyped
<1>4. NetTyped'
  BY <1>1, JoinTyped DEF ApplyWatchdog, Typed, NetTyped
<1> QED
  BY <1>2, <1>3, <1>4, SameCfg, SameRunners DEF ApplyWatchdog, Typed

\* A caller tells the runner of the slot to stop.
LEMMA StopRunnerTyped == ASSUME Typed, NEW c \in Callers, StopRunner(c) PROVE Typed'
<1>1. slot \in 0 .. Len(runners) /\ Len(runners) \in Nat /\ Len(runners) <= MaxRunners /\ runners \in Seq(RunnerStates)
  BY DEF Typed, RunTyped
<1>2. JobTyped'
  <2> DEFINE v == [job[c] EXCEPT !.pc = "wait", !.runner = slot]
  <2>1. slot \in 0 .. MaxRunners
    BY <1>1
  <2>2. v \in Jobs
    BY <2>1, JobFields DEF Typed
  <2>3. job' = [job EXCEPT ![c] = v]
    BY DEF StopRunner
  <2> HIDE DEF v
  <2> QED
    BY <2>2, <2>3, OneJob DEF Typed
<1>3. RunTyped'
  <2>1. CASE slot = 0
    BY <1>1, <2>1 DEF StopRunner, Typed, RunTyped
  <2>2. CASE slot # 0
    <3>1. slot \in DOMAIN runners /\ runners[slot] \in RunnerStates
      BY <1>1, <2>2
    <3> DEFINE v == [runners[slot] EXCEPT !.stop = TRUE]
    <3>2. v \in RunnerStates /\ v.pc = runners[slot].pc /\ v.joined = runners[slot].joined
      BY <3>1 DEF RunnerStates
    <3>3. runners' = [runners EXCEPT ![slot] = v] /\ slot' = 0
      BY <2>2 DEF StopRunner
    <3> HIDE DEF v
    <3>4. runners' \in Seq(RunnerStates) /\ Len(runners') = Len(runners) /\ DOMAIN runners' = DOMAIN runners
      BY <1>1, <3>1, <3>2, <3>3
    <3> QED
      BY <1>1, <3>1, <3>2, <3>3, <3>4 DEF Typed, RunTyped
  <2> QED
    BY <2>1, <2>2
<1> QED
  BY <1>2, <1>3, SameCfg, SameFlags, SameNet DEF StopRunner, net, Typed

\* applyHumanlikeChange
LEMMA SwitchTyped == ASSUME Typed, NEW c \in Callers, Switch(c) PROVE Typed'
<1>1. CASE Look(c)
  <2> DEFINE v == [job[c] EXCEPT !.pc = "act", !.running = slot # 0]
  <2>1. JobTyped'
    <3>1. v \in Jobs
      BY JobFields DEF Typed
    <3>2. job' = [job EXCEPT ![c] = v]
      BY <1>1 DEF Look
    <3> HIDE DEF v
    <3> QED
      BY <3>1, <3>2, OneJob DEF Typed
  <2> QED
    BY <1>1, <2>1, SameCfg, SameRunners, SameFlags, SameNet DEF Look, bot, net, Typed
<1>2. CASE Start(c)
  <2>1. JobTyped'
    BY <1>2, OneJob, JobFields DEF Start, Typed
  <2>2. RunTyped'
    <3> DEFINE new == [pc |-> "off", stop |-> FALSE, joined |-> None]
    <3>1. new \in RunnerStates /\ new.pc = "off"
      BY DEF RunnerStates
    <3>2. runners' = Append(runners, new) /\ slot' = Len(runners) + 1 /\ Len(runners) < MaxRunners
      BY <1>2 DEF Start
    <3> HIDE DEF new
    <3>3. runners \in Seq(RunnerStates) /\ Len(runners) \in Nat
      BY DEF Typed, RunTyped
    <3>4. runners' \in Seq(RunnerStates) /\ Len(runners') = Len(runners) + 1 /\ DOMAIN runners' = 1 .. Len(runners) + 1
          /\ \A r \in DOMAIN runners' : (r \in DOMAIN runners /\ runners'[r] = runners[r]) \/ runners'[r] = new
      BY <3>1, <3>2, <3>3
    <3> QED
      BY <3>1, <3>2, <3>3, <3>4 DEF Typed, RunTyped
  <2> QED
    BY <1>2, <2>1, <2>2, SameCfg, SameFlags, SameNet DEF Start, net, Typed
<1>3. CASE Stop(c)
  BY <1>3, StopRunnerTyped DEF Stop
<1>4. CASE Keep(c)
  <2>1. JobTyped'
    BY <1>4, OneJob, JobFields DEF Keep, Typed
  <2> QED
    BY <1>4, <2>1, SameCfg, SameRunners, SameFlags, SameNet DEF Keep, bot, net, Typed
<1>5. CASE Stopped(c)
  <2>1. JobTyped'
    BY <1>5, OneJob, JobFields DEF Stopped, Typed
  <2> QED
    BY <1>5, <2>1, SameCfg, SameRunners, SameFlags, SameNet DEF Stopped, bot, net, Typed
<1> QED
  BY <1>1, <1>2, <1>3, <1>4, <1>5 DEF Switch

\* An event is taken.
LEMMA ReceiveFacts ==
  ASSUME NetTyped, NEW cmd, Receive(cmd)
  PROVE  /\ in # <<>> /\ Head(in) \in Line /\ Head(in).cmd = cmd /\ in' = Tail(in) /\ Tail(in) \in Seq(Line)
         /\ cmd \in {"JOIN", "PART", "KICK"} => Head(in).channel \in Channels
<1>1. in # <<>> /\ Head(in) \in Line /\ Head(in).cmd = cmd /\ in' = Tail(in) /\ Tail(in) \in Seq(Line)
  BY TailFacts DEF Receive, NetTyped
<1>2. cmd \in {"JOIN", "PART", "KICK"} => Head(in).channel \in Channels
  BY <1>1 DEF Line
<1> QED
  BY <1>1, <1>2

\* The 001, JOIN, PART, KICK, 465 and DISCONNECTED callbacks.
LEMMA CallbackTyped == ASSUME Typed, Callback PROVE Typed'
<1> USE DEF Typed
<1>1. CASE Welcome
  <2>1. JobTyped'
    BY <1>1, OneJob, JobFields DEF Welcome, Callers
  <2>2. FlagsTyped'
    BY <1>1 DEF Welcome, FlagsTyped
  <2>3. NetTyped'
    BY <1>1, ReceiveFacts DEF Welcome, NetTyped
  <2> QED
    BY <1>1, <2>1, <2>2, <2>3, SameCfg, SameRunners DEF Welcome
<1>2. CASE WelcomeGone
  <2>1. in' \in Seq(Line) /\ out' = <<>> /\ member' = {} /\ link' = "off" /\ view' = view
    BY <1>2, ReceiveFacts DEF WelcomeGone, bot
  <2>2. NetTyped'
    BY <2>1 DEF NetTyped
  <2> QED
    BY <1>2, <2>2, SameCfg, SameJobs, SameRunners, SameFlags DEF WelcomeGone, bot
<1>3. CASE Reset
  <2>1. JobTyped'
    BY <1>3, OneJob, JobFields DEF Reset, Callers
  <2>2. NetTyped'
    BY <1>3 DEF Reset, net, NetTyped
  <2> QED
    BY <1>3, <2>1, <2>2, SameCfg, SameRunners, SameFlags DEF Reset
<1>4. CASE WelcomeWatchdog
  <2>1. cfg.on \in BOOLEAN /\ cfg.wd \in SUBSET Channels
    BY ConfigChannels DEF Channels
  <2>2. JobTyped'
    <3> DEFINE v == [job["welcome"] EXCEPT !.pc = "look", !.on = cfg.on]
    <3>1. v \in Jobs
      BY <2>1, JobFields DEF Callers
    <3>2. job' = [job EXCEPT !["welcome"] = v]
      BY <1>4 DEF WelcomeWatchdog
    <3> HIDE DEF v
    <3> QED
      BY <3>1, <3>2, OneJob DEF Callers
  <2>3. FlagsTyped'
    BY <1>4 DEF WelcomeWatchdog, FlagsTyped
  <2>4. NetTyped'
    BY <1>4, <2>1, JoinTyped DEF WelcomeWatchdog, NetTyped
  <2> QED
    BY <1>4, <2>2, <2>3, <2>4, SameCfg, SameRunners DEF WelcomeWatchdog
<1>5. CASE Switch("welcome")
  BY <1>5, SwitchTyped DEF Callers
<1>6. CASE RecvJoin
  <2>1. NetTyped'
    BY <1>6, ReceiveFacts DEF RecvJoin, NetTyped
  <2> QED
    BY <1>6, <2>1, SameCfg, SameJobs, SameRunners, SameFlags DEF RecvJoin
<1>7. CASE RecvPart
  <2>1. NetTyped'
    BY <1>7, ReceiveFacts DEF RecvPart, NetTyped
  <2> QED
    BY <1>7, <2>1, SameCfg, SameJobs, SameRunners, SameFlags DEF RecvPart
<1>8. CASE RecvKick
  <2>1. NetTyped'
    BY <1>8, ReceiveFacts DEF RecvKick, NetTyped
  <2>2. FlagsTyped'
    BY <1>8, ConfigChannels DEF RecvKick, FlagsTyped
  <2> QED
    BY <1>8, <2>1, <2>2, SameCfg, SameJobs, SameRunners DEF RecvKick
<1>9. CASE RecvBan
  <2>1. in' \in Seq(Line) /\ out' = <<>> /\ member' = {} /\ link' = "off" /\ view' = view
    BY <1>9, ReceiveFacts DEF RecvBan
  <2>2. NetTyped'
    BY <2>1 DEF NetTyped
  <2>3. FlagsTyped'
    BY <1>9 DEF RecvBan, FlagsTyped
  <2> QED
    BY <1>9, <2>2, <2>3, SameCfg, SameJobs, SameRunners DEF RecvBan
<1>10. CASE RecvClosed
  <2>1. NetTyped'
    BY <1>10, ReceiveFacts DEF RecvClosed, NetTyped
  <2>2. FlagsTyped'
    BY <1>10 DEF RecvClosed, FlagsTyped
  <2> QED
    BY <1>10, <2>1, <2>2, SameCfg, SameJobs, SameRunners DEF RecvClosed
<1> QED
  BY <1>1, <1>2, <1>3, <1>4, <1>5, <1>6, <1>7, <1>8, <1>9, <1>10 DEF Callback

\* The channel checker and the timer after a KICK.
LEMMA TimerTyped == ASSUME Typed, Check \/ \E c \in WdChannels : Rejoin(c) PROVE Typed'
<1> USE DEF Typed
<1>1. CASE Check
  <2>1. cfg.wd \ view \in SUBSET Channels
    BY ConfigChannels DEF Channels
  <2>2. NetTyped'
    BY <1>1, <2>1, JoinTyped DEF Check, bot, NetTyped
  <2> QED
    BY <1>1, <2>2, SameCfg, SameJobs, SameRunners, SameFlags DEF Check, bot
<1>2. ASSUME NEW c \in WdChannels, Rejoin(c) PROVE Typed'
  <2>1. (IF cfg.wd = {} THEN {} ELSE {c}) \in SUBSET Channels
    BY DEF Channels
  <2>2. NetTyped'
    BY <1>2, <2>1, JoinTyped DEF Rejoin, NetTyped
  <2>3. FlagsTyped'
    BY <1>2 DEF Rejoin, FlagsTyped
  <2> QED
    BY <1>2, <2>2, <2>3, SameCfg, SameJobs, SameRunners DEF Rejoin
<1> QED
  BY <1>1, <1>2

\* One runner moves on.
LEMMA OneRunnerMoves ==
  ASSUME RunTyped, NEW r \in DOMAIN runners, NEW v \in RunnerStates,
         v.pc \in {"join", "stay"} => v.joined # None, runners' = [runners EXCEPT ![r] = v], slot' = slot
  PROVE  RunTyped'
<1>1. runners \in Seq(RunnerStates)
  BY DEF RunTyped
<1>2. runners' \in Seq(RunnerStates) /\ Len(runners') = Len(runners) /\ DOMAIN runners' = DOMAIN runners
  BY <1>1
<1> QED
  BY <1>1, <1>2 DEF RunTyped

\* partIfJoined
LEMMA PartToTyped ==
  ASSUME Typed, NEW r \in DOMAIN runners, NEW next \in {"off", "done"}, PartTo(r, next) PROVE Typed'
<1> USE DEF Typed
<1>1. runners[r] \in RunnerStates
  BY DEF RunTyped
<1> DEFINE v == [runners[r] EXCEPT !.pc = next, !.joined = None]
<1>2. v \in RunnerStates /\ v.pc = next
  BY <1>1 DEF RunnerStates
<1>3. runners' = [runners EXCEPT ![r] = v] /\ slot' = slot
  BY DEF PartTo
<1> HIDE DEF v
<1>4. RunTyped'
  BY <1>2, <1>3, OneRunnerMoves
<1>5. NetTyped'
  <2>1. CASE up /\ runners[r].joined \in view
    <3>1. {runners[r].joined} \in SUBSET Channels
      BY <2>1 DEF NetTyped
    <3>2. out' = Sent("PART", {runners[r].joined}) /\ view' = view \ {runners[r].joined} /\ UNCHANGED <<link, in, member>>
      BY <2>1 DEF PartTo
    <3>3. out' \in Seq(Line)
      BY <3>1, <3>2, SentTyped
    <3> QED
      BY <3>2, <3>3 DEF NetTyped
  <2>2. CASE ~(up /\ runners[r].joined \in view)
    BY <2>2 DEF PartTo, NetTyped
  <2> QED
    BY <2>1, <2>2
<1> QED
  BY <1>4, <1>5, SameCfg, SameJobs, SameFlags DEF PartTo

\* humanlikeRunner.run
LEMMA RunnerTyped == ASSUME Typed, NEW r \in DOMAIN runners, Runner(r) PROVE Typed'
<1> USE DEF Typed
<1>1. runners[r] \in RunnerStates
  BY DEF RunTyped
<1>2. CASE Pick(r)
  <2>1. PICK c \in cfg.list \ view : runners' = [runners EXCEPT ![r].pc = "join", ![r].joined = c]
    BY <1>2 DEF Pick
  <2> DEFINE v == [runners[r] EXCEPT !.pc = "join", !.joined = c]
  <2>2. c \in HlChannels /\ c # None
    BY ConfigChannels DEF Channels
  <2>3. v \in RunnerStates /\ v.joined = c
    BY <1>1, <2>2 DEF RunnerStates
  <2>4. runners' = [runners EXCEPT ![r] = v] /\ slot' = slot
    BY <1>2, <2>1 DEF Pick
  <2> HIDE DEF v
  <2>5. RunTyped'
    BY <2>2, <2>3, <2>4, OneRunnerMoves
  <2> QED
    BY <1>2, <2>5, SameCfg, SameJobs, SameFlags, SameNet DEF Pick, net
<1>3. CASE Join(r)
  <2>1. runners[r].joined # None
    BY <1>3 DEF Join, RunTyped
  <2>2. {runners[r].joined} \in SUBSET Channels
    BY <1>1, <2>1 DEF RunnerStates, Channels
  <2>3. NetTyped'
    BY <1>3, <2>2, JoinTyped DEF Join, NetTyped
  <2> DEFINE v == IF up THEN [runners[r] EXCEPT !.pc = "stay"]
                  ELSE [runners[r] EXCEPT !.pc = "off", !.joined = None]
  <2>4. v \in RunnerStates /\ (v.pc \in {"join", "stay"} => v.joined # None)
    BY <1>1, <2>1 DEF RunnerStates
  <2>5. runners' = [runners EXCEPT ![r] = v] /\ slot' = slot
    BY <1>3 DEF Join
  <2> HIDE DEF v
  <2>6. RunTyped'
    BY <2>4, <2>5, OneRunnerMoves
  <2> QED
    BY <1>3, <2>3, <2>6, SameCfg, SameJobs, SameFlags DEF Join
<1>4. CASE Leave(r) \/ End(r)
  BY <1>4, PartToTyped DEF Leave, End
<1> QED
  BY <1>2, <1>3, <1>4 DEF Runner

\* RemoveBot and Quit.
LEMMA RemovalTyped == ASSUME Typed, RemoveBot \/ Removal PROVE Typed'
<1> USE DEF Typed
<1>1. CASE RemoveBot
  <2>1. JobTyped'
    BY <1>1, OneJob, JobFields DEF RemoveBot, Callers
  <2>2. FlagsTyped'
    BY <1>1 DEF RemoveBot, FlagsTyped
  <2> QED
    BY <1>1, <2>1, <2>2, SameCfg, SameRunners, SameNet DEF RemoveBot, net
<1>2. CASE Take
  BY <1>2, StopRunnerTyped DEF Take, Callers
<1>3. CASE Stopped("remove")
  BY <1>3, SwitchTyped DEF Switch, Callers
<1>4. CASE Quit
  <2>1. JobTyped'
    BY <1>4, OneJob, JobFields DEF Quit, Callers
  <2>2. FlagsTyped'
    BY <1>4 DEF Quit, FlagsTyped
  <2>3. NetTyped'
    BY <1>4 DEF Quit, NetTyped
  <2> QED
    BY <1>4, <2>1, <2>2, <2>3, SameCfg, SameRunners DEF Quit
<1> QED
  BY <1>1, <1>2, <1>3, <1>4 DEF Removal

\* The server and the network.
LEMMA EventTyped ==
  ASSUME NetTyped, NEW cmd \in {"JOIN", "PART", "KICK"}, NEW c \in Channels, Event(cmd, c)
  PROVE  in' = Append(in, [cmd |-> cmd, channel |-> c]) /\ [cmd |-> cmd, channel |-> c] \in Line /\ in' \in Seq(Line)
<1>1. [cmd |-> cmd, channel |-> c] \in Line
  BY DEF Line
<1> QED
  BY <1>1, AppendFacts DEF Event, NetTyped

\* What the server and the network do.
LEMMA ServerTyped ==
  ASSUME Typed, Wire, Serve \/ Refuse \/ Ban \/ Lose \/ Register \/ \E c \in Channels : Kick(c) PROVE Typed'
<1> USE DEF Typed
<1>1. UNCHANGED <<state, job, bot>>
  BY DEF Serve, Refuse, Ban, Lose, Register, Kick
<1>2. SUFFICES NetTyped'
  BY <1>1, SameCfg, SameJobs, SameRunners, SameFlags DEF bot
<1>3. CASE Serve
  <2>1. out # <<>> /\ out' = Tail(out) /\ Tail(out) \in Seq(Line) /\ Head(out) \in Line /\ Head(out) = out[1] /\ 1 \in DOMAIN out
    BY <1>3, TailFacts DEF Serve, NetTyped
  <2>2. Head(out).cmd \in {"JOIN", "PART"}
    BY <2>1 DEF Wire
  <2>3. Head(out).channel \in Channels
    BY <2>1, <2>2 DEF Line
  <2>4. \/ UNCHANGED <<in, member>>
        \/ /\ member' = IF Head(out).cmd = "JOIN" THEN member \cup {Head(out).channel} ELSE member \ {Head(out).channel}
           /\ Event(Head(out).cmd, Head(out).channel)
    BY <1>3 DEF Serve
  <2>5. in' \in Seq(Line) /\ member' \subseteq Channels
    BY <2>2, <2>3, <2>4, EventTyped DEF NetTyped
  <2> QED
    BY <1>1, <1>3, <2>1, <2>5 DEF Serve, NetTyped, bot
<1>4. CASE Refuse
  <2>1. out' \in Seq(Line)
    BY <1>4, TailFacts DEF Refuse, NetTyped
  <2> QED
    BY <1>1, <1>4, <2>1 DEF Refuse, NetTyped, bot
<1>5. CASE Ban
  <2>1. [cmd |-> "465"] \in Line /\ [cmd |-> "closed"] \in Line
    BY DEF Line
  <2>2. << [cmd |-> "465"], [cmd |-> "closed"] >> \in Seq(Line)
    BY <2>1
  <2>3. in' \in Seq(Line)
    BY <1>5, <2>2 DEF Ban, NetTyped
  <2> QED
    BY <1>1, <1>5, <2>3 DEF Ban, NetTyped, bot
<1>6. CASE Lose
  <2>1. [cmd |-> "closed"] \in Line
    BY DEF Line
  <2>2. in' \in Seq(Line)
    BY <1>6, <2>1, AppendFacts DEF Lose, NetTyped
  <2> QED
    BY <1>1, <1>6, <2>2 DEF Lose, NetTyped, bot
<1>7. CASE Register
  <2>1. [cmd |-> "001"] \in Line
    BY DEF Line
  <2>2. in' \in Seq(Line)
    BY <1>7, <2>1 DEF Register
  <2> QED
    BY <1>1, <1>7, <2>2 DEF Register, NetTyped, bot
<1>8. ASSUME NEW c \in Channels, Kick(c) PROVE NetTyped'
  BY <1>1, <1>8, EventTyped DEF Kick, NetTyped, bot
<1> QED
  BY <1>3, <1>4, <1>5, <1>6, <1>7, <1>8


-----------------------------------------------------------------------------
(* The lines under way and what the bot believes.                          *)

InStep == Wire /\ Consistent
SameReset == (job'["welcome"].pc = "reset") <=> (job["welcome"].pc = "reset")
Sends == \/ out' = out
         \/ \E cmd \in {"JOIN", "PART"}, S \in SUBSET Channels : out' = Sent(cmd, S)

\* What is sent comes behind what was sent before.
LEMMA SendsFacts ==
  ASSUME Typed, Wire, Sends
  PROVE  /\ link # "up" => out' = out
         /\ \A k \in DOMAIN out' : out'[k].cmd \in {"JOIN", "PART"}
         /\ \A c : Parting(c) => Parting(c)'
<1> USE DEF Typed, NetTyped
<1>1. CASE out' = out
  BY <1>1 DEF Wire, Parting
<1>2. ASSUME NEW cmd \in {"JOIN", "PART"}, NEW S \in SUBSET Channels, out' = Sent(cmd, S)
      PROVE  /\ link # "up" => out' = out
             /\ \A k \in DOMAIN out' : out'[k].cmd \in {"JOIN", "PART"}
             /\ \A c : Parting(c) => Parting(c)'
  <2>1. /\ link # "up" => out' = out
        /\ \A k \in DOMAIN out : k \in DOMAIN out' /\ out'[k] = out[k]
        /\ \A k \in DOMAIN out' : \/ k \in DOMAIN out /\ out'[k] = out[k]
                                  \/ \E x \in S : out'[k] = [cmd |-> cmd, channel |-> x]
    BY <1>2, SentFacts
  <2>2. \A k \in DOMAIN out' : out'[k].cmd \in {"JOIN", "PART"}
    BY <2>1 DEF Wire
  <2>3. \A c : Parting(c) => Parting(c)'
    BY <2>1 DEF Parting
  <2> QED
    BY <2>1, <2>2, <2>3
<1> QED
  BY <1>1, <1>2 DEF Sends

\* A step that only sends.
LEMMA QuietStep ==
  ASSUME Typed, InStep, UNCHANGED <<view, in, member, link>>, SameReset, Sends
  PROVE  InStep'
<1>1. Wire'
  BY SendsFacts DEF Wire, InStep
<1>2. \A c : WillBelieve(c)' <=> WillBelieve(c)
  BY DEF WillBelieve, Forgets, SameReset
<1>3. Consistent'
  BY <1>2, SendsFacts DEF Consistent, InStep
<1> QED
  BY <1>1, <1>3 DEF InStep

\* A step that ends the connection.
LEMMA CutStep == ASSUME link' # "up", out' = <<>>, member' = {} PROVE InStep'
<1>1. DOMAIN out' = {}
  OBVIOUS
<1> QED
  BY <1>1 DEF InStep, Wire, Consistent

\* JOINs are sent when the bot is connected.
LEMMA JoinSends == ASSUME NEW S \in SUBSET Channels, JoinChannels(S) PROVE Sends
  BY DEF JoinChannels, Sends

\* A step of a job that neither is in the reset nor comes to it.
LEMMA WelcomeOn ==
  ASSUME Typed, NEW c \in Callers, NEW v, job' = [job EXCEPT ![c] = v], v.pc # "reset", job[c].pc # "reset" PROVE SameReset
  BY DEF Typed, JobTyped, SameReset, Callers

\* A step that moves no job.
LEMMA SameJobReset == ASSUME UNCHANGED job PROVE SameReset
  BY DEF SameReset

\* The setters and the removal touch another job than the 001 callback's.
LEMMA SetterInStep ==
  ASSUME Typed, InStep, (\E new \in Config : Changed(new)) \/ Gate \/ ApplyWatchdog \/ RemoveBot
  PROVE  InStep'
<1> USE DEF Callers
<1>1. SameReset
  BY DEF Changed, Gate, ApplyWatchdog, RemoveBot, Typed, JobTyped, SameReset
<1>2. UNCHANGED <<view, in, member, link>>
  BY DEF Changed, Gate, ApplyWatchdog, RemoveBot, bot, net
<1>3. Sends
  <2>1. cfg.wd \ view \in SUBSET Channels
    BY ConfigChannels DEF Typed, Channels
  <2> QED
    BY <2>1, JoinSends DEF Changed, Gate, ApplyWatchdog, RemoveBot, net, Sends
<1> QED
  BY <1>1, <1>2, <1>3, QuietStep

\* applyHumanlikeChange touches the human-like runners only.
LEMMA SwitchInStep ==
  ASSUME Typed, InStep, NEW c \in Callers, Switch(c) \/ (StopRunner(c) /\ c # "welcome") PROVE InStep'
<1> USE DEF Callers
<1>1. SameReset
  <2>1. CASE Look(c)
    BY <2>1 DEF Look, Typed, JobTyped, Jobs, SameReset
  <2>2. CASE Start(c) \/ Keep(c)
    BY <2>2, WelcomeOn DEF Start, Keep, Idle
  <2>3. CASE Stopped(c)
    <3> DEFINE v == IF c = "remove" THEN [Idle EXCEPT !.pc = "quit"] ELSE Idle
    <3>1. v.pc # "reset" /\ job' = [job EXCEPT ![c] = v] /\ job[c].pc # "reset"
      BY <2>3 DEF Stopped, Idle
    <3> HIDE DEF v
    <3> QED
      BY <3>1, WelcomeOn
  <2>4. ASSUME StopRunner(c), job[c].pc # "reset" \/ c # "welcome" PROVE SameReset
    BY <2>4 DEF StopRunner, Typed, JobTyped, Jobs, SameReset
  <2> QED
    BY <2>1, <2>2, <2>3, <2>4 DEF Switch, Stop
<1>2. UNCHANGED <<view, in, member, link, out>>
  BY DEF Switch, Look, Start, Stop, StopRunner, Keep, Stopped, bot, net
<1> QED
  BY <1>1, <1>2, QuietStep DEF Sends

\* The timers send.
LEMMA TimerInStep ==
  ASSUME Typed, InStep, Check \/ \E c \in WdChannels : Rejoin(c) PROVE InStep'
<1>1. UNCHANGED <<view, in, member, link, job>>
  BY DEF Check, Rejoin, bot
<1>2. Sends
  <2>1. cfg.wd \ view \in SUBSET Channels /\ \A c \in WdChannels : {c} \in SUBSET Channels
    BY ConfigChannels DEF Typed, Channels
  <2> QED
    BY <2>1, JoinSends DEF Check, Rejoin
<1> QED
  BY <1>1, <1>2, SameJobReset, QuietStep

\* The first event is taken: no other is a 001 on a connection that is up.
LEMMA ReceiveWire ==
  ASSUME Typed, Wire, NEW cmd, Receive(cmd), UNCHANGED <<link, out, member>>
  PROVE  /\ Wire' /\ (link = "up" => cmd \notin {"465", "closed"})
         /\ link = "up" => \A k \in DOMAIN in' : in'[k].cmd # "001"
         /\ link = "up" /\ cmd # "001" => \A k \in DOMAIN in : in[k].cmd # "001"
<1>1. in \in Seq(Line) /\ in # <<>> /\ Head(in).cmd = cmd /\ in' = Tail(in)
  BY ReceiveFacts DEF Typed, NetTyped
<1>2. /\ Head(in) = in[1] /\ 1 \in DOMAIN in
      /\ \A k \in DOMAIN in' : k + 1 \in DOMAIN in /\ in'[k] = in[k + 1] /\ k + 1 > 1
  BY <1>1, TailFacts
<1>3. ASSUME link = "up", NEW k \in DOMAIN in
      PROVE  in[k].cmd \notin {"465", "closed"} /\ (in[k].cmd = "001" => k = 1)
  BY <1>3 DEF Wire
<1>4. ASSUME link = "up", NEW k \in DOMAIN in' PROVE in'[k].cmd # "001" /\ in'[k].cmd \notin {"465", "closed"}
  <2>1. k + 1 \in DOMAIN in /\ in'[k] = in[k + 1] /\ k + 1 # 1
    BY <1>2
  <2> QED
    BY <1>4, <1>3, <2>1
<1>5. link = "up" => cmd \notin {"465", "closed"}
  BY <1>1, <1>2, <1>3
<1>6. link = "up" /\ cmd # "001" => \A k \in DOMAIN in : in[k].cmd # "001"
  BY <1>1, <1>2 DEF Wire
<1>7. Wire'
  BY <1>4 DEF Wire
<1> QED
  BY <1>4, <1>5, <1>6, <1>7

\* JOIN, PART and KICK: what the event says is believed from now on.
LEMMA RecvInStep ==
  ASSUME Typed, InStep, RecvJoin \/ RecvPart \/ RecvKick PROVE InStep'
<1>1. PICK cmd \in {"JOIN", "PART", "KICK"} :
        /\ Receive(cmd) /\ UNCHANGED <<job, link, out, member>>
        /\ view' = IF cmd = "JOIN" THEN view \cup {Head(in).channel} ELSE view \ {Head(in).channel}
  BY DEF RecvJoin, RecvPart, RecvKick
<1>2. Wire'
  BY <1>1, ReceiveWire DEF InStep
<1>3. in \in Seq(Line) /\ in # <<>> /\ Head(in).cmd = cmd /\ in' = Tail(in) /\ job["welcome"].pc = "idle"
  BY <1>1, ReceiveFacts DEF Typed, NetTyped, Receive
<1>4. link = "up" => ~Forgets /\ ~Forgets'
  BY <1>1, <1>3, ReceiveWire DEF Forgets, InStep
<1>5. ASSUME link = "up", NEW c PROVE WillBelieve(c)' <=> WillBelieve(c)
  <2>1. About(Head(in), c) <=> c = Head(in).channel
    BY <1>3 DEF About
  <2>2. /\ NoneAbout(in, c) <=> ~About(Head(in), c) /\ NoneAbout(in', c)
        /\ LastJoin(in, c) <=> \/ LastJoin(in', c)
                               \/ NoneAbout(in', c) /\ About(Head(in), c) /\ Head(in).cmd = "JOIN"
    BY <1>3, TailBelief
  <2>3. WillBelieve(c) <=> (c \in view /\ NoneAbout(in, c)) \/ LastJoin(in, c)
    BY <1>4, <1>5 DEF WillBelieve
  <2>4. WillBelieve(c)' <=> (c \in view' /\ NoneAbout(in', c)) \/ LastJoin(in', c)
    BY <1>4, <1>5 DEF WillBelieve
  <2> QED
    BY <1>1, <1>3, <2>1, <2>2, <2>3, <2>4
<1>6. \A c : Parting(c)' <=> Parting(c)
  BY <1>1 DEF Parting
<1>7. Consistent'
  BY <1>1, <1>5, <1>6 DEF InStep, Consistent
<1> QED
  BY <1>2, <1>7 DEF InStep

\* 001 and what its callback forgets.
LEMMA WelcomeInStep == ASSUME Typed, InStep, Welcome PROVE InStep'
<1>1. Receive("001") /\ UNCHANGED <<link, out, member, view>> /\ job'["welcome"].pc = "reset"
  BY DEF Welcome, Typed, JobTyped, Jobs, Callers
<1>2. Wire'
  BY <1>1, ReceiveWire DEF InStep
<1>3. in \in Seq(Line) /\ in # <<>> /\ Head(in).cmd = "001" /\ in' = Tail(in)
  BY <1>1, ReceiveFacts DEF Typed, NetTyped
<1>4. Forgets /\ Forgets'
  <2>1. Head(in) = in[1] /\ 1 \in DOMAIN in
    BY <1>3, TailFacts
  <2> QED
    BY <1>1, <1>3, <2>1 DEF Forgets
<1>5. ASSUME NEW c PROVE WillBelieve(c)' <=> WillBelieve(c)
  <2>1. ~About(Head(in), c)
    BY <1>3 DEF About
  <2>2. LastJoin(in, c) <=> LastJoin(in', c)
    BY <1>3, <2>1, TailBelief
  <2> QED
    BY <1>4, <2>2 DEF WillBelieve
<1>6. \A c : Parting(c)' <=> Parting(c)
  BY <1>1 DEF Parting
<1>7. Consistent'
  BY <1>1, <1>5, <1>6 DEF InStep, Consistent
<1> QED
  BY <1>2, <1>7 DEF InStep

\* The channels are forgotten: what the 001 had already made irrelevant.
LEMMA ResetInStep == ASSUME Typed, InStep, Reset PROVE InStep'
<1>1. UNCHANGED <<in, link, out, member>> /\ view' = {} /\ job["welcome"].pc = "reset"
  BY DEF Reset, net
<1>2. Wire'
  BY <1>1 DEF InStep, Wire
<1>3. \A c : WillBelieve(c)' <=> WillBelieve(c)
  BY <1>1 DEF WillBelieve, Forgets
<1>4. \A c : Parting(c)' <=> Parting(c)
  BY <1>1 DEF Parting
<1>5. Consistent'
  BY <1>1, <1>3, <1>4 DEF InStep, Consistent
<1> QED
  BY <1>2, <1>5 DEF InStep

\* All callbacks.
LEMMA CallbackInStep == ASSUME Typed, InStep, Callback PROVE InStep'
<1>1. CASE WelcomeGone \/ RecvBan
  <2>1. link' # "up" /\ out' = <<>> /\ member' = {}
    BY <1>1 DEF WelcomeGone, RecvBan
  <2> QED
    BY <2>1, CutStep
<1>2. CASE WelcomeWatchdog
  <2>1. UNCHANGED <<view, in, member, link>>
    BY <1>2 DEF WelcomeWatchdog
  <2>2. SameReset
    BY <1>2 DEF WelcomeWatchdog, Typed, JobTyped, Jobs, Callers, SameReset
  <2>3. cfg.wd \in SUBSET Channels
    BY ConfigChannels DEF Typed, Channels
  <2>4. Sends
    BY <1>2, <2>3, JoinSends DEF WelcomeWatchdog, Sends
  <2> QED
    BY <2>1, <2>2, <2>4, QuietStep
<1>3. CASE RecvClosed
  <2>1. Receive("closed") /\ UNCHANGED <<link, out, member>>
    BY <1>3 DEF RecvClosed
  <2>2. Wire' /\ link # "up"
    BY <2>1, ReceiveWire DEF InStep
  <2> QED
    BY <2>1, <2>2 DEF InStep, Consistent
<1> QED
  BY <1>1, <1>2, <1>3, WelcomeInStep, ResetInStep, SwitchInStep, RecvInStep DEF Callback, Callers

\* A runner forgets the channel it sends a PART for.
LEMMA PartToInStep ==
  ASSUME Typed, InStep, NEW r \in DOMAIN runners, NEW next, PartTo(r, next) PROVE InStep'
<1> DEFINE d == runners[r].joined
<1>1. UNCHANGED <<in, member, link, job>>
  BY DEF PartTo
<1>2. CASE ~(up /\ d \in view)
  <2>1. UNCHANGED <<out, view>>
    BY <1>2 DEF PartTo
  <2> QED
    BY <1>1, <2>1, SameJobReset, QuietStep DEF Sends
<1>3. CASE up /\ d \in view
  <2>1. out' = Sent("PART", {d}) /\ view' = view \ {d}
    BY <1>3 DEF PartTo
  <2>2. {d} \in SUBSET Channels /\ out \in Seq(Line)
    BY <1>3 DEF Typed, NetTyped
  <2>3. Sends
    BY <2>1, <2>2 DEF Sends
  <2>4. Wire'
    BY <1>1, <2>3, SendsFacts DEF Wire, InStep
  <2>5. \A c : Parting(c) => Parting(c)'
    BY <2>3, SendsFacts DEF InStep
  <2>6. ASSUME link = "up" PROVE \E k \in DOMAIN out' : out'[k] = [cmd |-> "PART", channel |-> d]
    BY <2>1, <2>2, <2>6, SentFacts
  <2> HIDE DEF d
  <2>7. \A c : WillBelieve(c)' => WillBelieve(c)
    BY <1>1, <2>1 DEF WillBelieve, Forgets
  <2>8. \A c : WillBelieve(c) => WillBelieve(c)' \/ c = d
    BY <1>1, <2>1 DEF WillBelieve, Forgets
  <2>9. ASSUME link = "up", NEW c PROVE WillBelieve(c) => WillBelieve(c)' \/ Parting(c)'
    BY <2>6, <2>8, <2>9 DEF Parting
  <2>10. Consistent'
    BY <1>1, <2>5, <2>7, <2>9 DEF InStep, Consistent
  <2> QED
    BY <2>4, <2>10 DEF InStep
<1> QED
  BY <1>2, <1>3

\* A runner sends JOINs and PARTs.
LEMMA RunnerInStep == ASSUME Typed, InStep, NEW r \in DOMAIN runners, Runner(r) PROVE InStep'
<1>1. CASE Pick(r)
  <2>1. UNCHANGED <<view, in, member, link, job, out>>
    BY <1>1 DEF Pick, net
  <2> QED
    BY <2>1, SameJobReset, QuietStep DEF Sends
<1>2. CASE Join(r)
  <2>1. UNCHANGED <<view, in, member, link, job>>
    BY <1>2 DEF Join
  <2>2. {runners[r].joined} \in SUBSET Channels
    <3>1. runners[r].joined # None
      BY <1>2 DEF Join, Typed, RunTyped
    <3>2. runners[r] \in RunnerStates
      BY DEF Typed, RunTyped
    <3> QED
      BY <3>1, <3>2 DEF RunnerStates, Channels
  <2>3. Sends
    BY <1>2, <2>2, JoinSends DEF Join
  <2> QED
    BY <2>1, <2>3, SameJobReset, QuietStep
<1>3. CASE Leave(r) \/ End(r)
  BY <1>3, PartToInStep DEF Leave, End
<1> QED
  BY <1>1, <1>2, <1>3 DEF Runner

\* RemoveBot waits for the runner, then cuts the connection.
LEMMA RemovalInStep == ASSUME Typed, InStep, Removal PROVE InStep'
<1>1. CASE Quit
  BY <1>1, CutStep DEF Quit
<1> QED
  BY <1>1, SwitchInStep DEF Removal, Take, Switch, Callers

\* The server answers a line or refuses it.
LEMMA ServeInStep == ASSUME Typed, InStep, Serve \/ Refuse PROVE InStep'
<1> DEFINE l == Head(out)
<1>1. link = "up" /\ out' = Tail(out) /\ UNCHANGED <<view, job, link>> /\ out \in Seq(Line) /\ out # <<>> /\ in \in Seq(Line)
  BY DEF Serve, Refuse, bot, Typed, NetTyped
<1>2. /\ l = out[1] /\ l \in Line /\ 1 \in DOMAIN out
      /\ \A k \in DOMAIN out' : k + 1 \in DOMAIN out /\ out'[k] = out[k + 1]
      /\ \A k \in DOMAIN out : k = 1 \/ (k - 1 \in DOMAIN out' /\ out'[k - 1] = out[k])
  BY <1>1, TailFacts
<1>3. l.cmd \in {"JOIN", "PART"}
  BY <1>2 DEF InStep, Wire
<1>4. l.channel \in Channels
  BY <1>2, <1>3 DEF Line
<1>5. \A k \in DOMAIN out' : out'[k].cmd \in {"JOIN", "PART"}
  BY <1>2 DEF InStep, Wire
<1>6. \A c : Parting(c) => Parting(c)' \/ (l.cmd = "PART" /\ l.channel = c)
  <2> SUFFICES ASSUME NEW c, NEW k \in DOMAIN out, out[k] = [cmd |-> "PART", channel |-> c]
               PROVE  Parting(c)' \/ (l.cmd = "PART" /\ l.channel = c)
    BY DEF Parting
  <2>1. CASE k = 1
    BY <1>2, <2>1
  <2>2. CASE k # 1
    BY <1>2, <2>2 DEF Parting
  <2> QED
    BY <2>1, <2>2
<1>7. CASE UNCHANGED <<in, member>> /\ (l.cmd = "JOIN" \/ l.channel \notin member)
  <2>1. Wire'
    BY <1>1, <1>5, <1>7 DEF InStep, Wire
  <2>2. \A c : WillBelieve(c)' <=> WillBelieve(c)
    BY <1>1, <1>7 DEF WillBelieve, Forgets
  <2>3. Consistent'
    BY <1>1, <1>6, <1>7, <2>2 DEF InStep, Consistent
  <2> QED
    BY <2>1, <2>3 DEF InStep
<1>8. CASE /\ member' = IF l.cmd = "JOIN" THEN member \cup {l.channel} ELSE member \ {l.channel}
           /\ Event(l.cmd, l.channel)
  <2> DEFINE e == [cmd |-> l.cmd, channel |-> l.channel]
  <2>1. in' = Append(in, e) /\ e \in Line
    BY <1>1, <1>3, <1>4, <1>8, EventTyped DEF Typed
  <2>2. e.cmd = l.cmd /\ e.channel = l.channel
    OBVIOUS
  <2> HIDE DEF e, l
  <2>3. /\ \A k \in DOMAIN in : k \in DOMAIN in' /\ in'[k] = in[k]
        /\ \A k \in DOMAIN in' : in'[k] = e \/ (k \in DOMAIN in /\ in'[k] = in[k])
    BY <1>1, <2>1, AppendFacts
  <2>4. Wire'
    <3>1. \A k \in DOMAIN in : in[k].cmd \notin {"465", "closed"} /\ (in[k].cmd = "001" => k = 1)
      BY <1>1 DEF InStep, Wire
    <3>2. \A k \in DOMAIN in' : in'[k].cmd \notin {"465", "closed"} /\ (in'[k].cmd = "001" => k = 1)
      BY <1>3, <2>2, <2>3, <3>1
    <3> QED
      BY <1>1, <1>5, <3>2 DEF Wire
  <2>5. Forgets' <=> Forgets
    BY <1>1, <1>3, <2>2, <2>3 DEF Forgets
  <2>6. ASSUME NEW c, c # l.channel PROVE WillBelieve(c)' <=> WillBelieve(c)
    <3>1. ~About(e, c)
      BY <2>2, <2>6 DEF About
    <3>2. (NoneAbout(in', c) <=> NoneAbout(in, c)) /\ (LastJoin(in', c) <=> LastJoin(in, c))
      BY <1>1, <2>1, <3>1, AppendBelief
    <3> QED
      BY <1>1, <2>5, <3>2 DEF WillBelieve
  <2>7. ASSUME NEW c, c = l.channel PROVE WillBelieve(c)' <=> l.cmd = "JOIN"
    <3>1. About(e, c)
      BY <1>3, <2>2, <2>7 DEF About
    <3>2. ~NoneAbout(in', c) /\ (LastJoin(in', c) <=> l.cmd = "JOIN")
      BY <1>1, <2>1, <2>2, <3>1, AppendBelief
    <3> QED
      BY <3>2 DEF WillBelieve
  <2>8. Consistent'
    <3> SUFFICES ASSUME NEW c \in Channels
                 PROVE  /\ WillBelieve(c)' => c \in member'
                        /\ c \in member' => WillBelieve(c)' \/ Parting(c)'
      BY DEF Consistent
    <3>1. (WillBelieve(c) => c \in member) /\ (c \in member => WillBelieve(c) \/ Parting(c))
      BY <1>1 DEF InStep, Consistent
    <3>2. CASE c = l.channel
      BY <1>3, <1>8, <2>7, <3>2
    <3>3. CASE c # l.channel
      BY <1>6, <1>8, <2>6, <3>1, <3>3
    <3> QED
      BY <3>2, <3>3
  <2> QED
    BY <2>4, <2>8 DEF InStep
<1>9. CASE Refuse
  BY <1>7, <1>9 DEF Refuse
<1>10. CASE Serve
  BY <1>3, <1>7, <1>8, <1>10 DEF Serve
<1> QED
  BY <1>9, <1>10

\* A KICK takes the channel and the belief in it.
LEMMA KickInStep == ASSUME Typed, InStep, NEW d \in Channels, Kick(d) PROVE InStep'
<1> DEFINE e == [cmd |-> "KICK", channel |-> d]
<1>1. link = "up" /\ UNCHANGED <<view, job, link, out>> /\ in \in Seq(Line) /\ member' = member \ {d}
  BY DEF Kick, bot, Typed, NetTyped
<1>2. in' = Append(in, e) /\ e \in Line
  BY EventTyped DEF Kick, Typed
<1>3. e.cmd = "KICK" /\ e.channel = d
  OBVIOUS
<1> HIDE DEF e
<1>4. /\ \A k \in DOMAIN in : k \in DOMAIN in' /\ in'[k] = in[k]
      /\ \A k \in DOMAIN in' : in'[k] = e \/ (k \in DOMAIN in /\ in'[k] = in[k])
  BY <1>1, <1>2, AppendFacts
<1>5. Wire'
  <2>1. \A k \in DOMAIN in : in[k].cmd \notin {"465", "closed"} /\ (in[k].cmd = "001" => k = 1)
    BY <1>1 DEF InStep, Wire
  <2>2. \A k \in DOMAIN in' : in'[k].cmd \notin {"465", "closed"} /\ (in'[k].cmd = "001" => k = 1)
    BY <1>3, <1>4, <2>1
  <2> QED
    BY <1>1, <2>2 DEF InStep, Wire
<1>6. Forgets' <=> Forgets
  BY <1>1, <1>3, <1>4 DEF Forgets
<1>7. ASSUME NEW c PROVE WillBelieve(c)' <=> c # d /\ WillBelieve(c)
  <2>1. About(e, c) <=> c = d
    BY <1>3 DEF About
  <2>2. /\ NoneAbout(in', c) <=> NoneAbout(in, c) /\ ~About(e, c)
        /\ LastJoin(in', c) <=> IF About(e, c) THEN e.cmd = "JOIN" ELSE LastJoin(in, c)
    BY <1>1, <1>2, AppendBelief
  <2> QED
    BY <1>1, <1>3, <1>6, <2>1, <2>2 DEF WillBelieve
<1>8. \A c : Parting(c)' <=> Parting(c)
  BY <1>1 DEF Parting
<1>9. Consistent'
  BY <1>1, <1>7, <1>8 DEF InStep, Consistent
<1> QED
  BY <1>5, <1>9 DEF InStep

\* A new connection: no channels, and 001 is the first event.
LEMMA RegisterInStep == ASSUME Typed, InStep, Register PROVE InStep'
<1> DEFINE e == [cmd |-> "001"]
<1>1. out' = <<>> /\ member' = {} /\ in' = <<e>>
  BY DEF Register, InStep, Wire
<1>2. e.cmd = "001"
  OBVIOUS
<1> HIDE DEF e
<1>3. DOMAIN in' = {1} /\ in'[1] = e /\ DOMAIN out' = {}
  BY <1>1
<1>4. Wire'
  BY <1>1, <1>2, <1>3 DEF Wire
<1>5. Forgets'
  BY <1>2, <1>3 DEF Forgets
<1>6. \A c : ~LastJoin(in', c)
  BY <1>2, <1>3 DEF LastJoin
<1>7. \A c : ~WillBelieve(c)'
  BY <1>5, <1>6 DEF WillBelieve
<1>8. Consistent'
  BY <1>1, <1>7 DEF Consistent
<1> QED
  BY <1>4, <1>8 DEF InStep

-----------------------------------------------------------------------------
(* The invariant.                                                          *)

\* A bot that was never connected has no channels and no lines.
LEMMA InitInv == Init => IInv
<1> SUFFICES ASSUME Init PROVE IInv
  OBVIOUS
<1> USE DEF Init
<1>1. CfgTyped /\ FlagsTyped
  BY DEF CfgTyped, FlagsTyped
<1>2. JobTyped
  <2>1. Idle \in Jobs
    BY DEF Idle, Jobs
  <2> QED
    BY <2>1 DEF JobTyped
<1>3. RunTyped
  <2>1. runners \in Seq(RunnerStates) /\ Len(runners) = 0 /\ DOMAIN runners = {}
    OBVIOUS
  <2> QED
    BY <2>1 DEF RunTyped
<1>4. NetTyped
  BY DEF NetTyped
<1>5. Wire /\ Consistent
  BY DEF Wire, Consistent
<1> QED
  BY <1>1, <1>2, <1>3, <1>4, <1>5 DEF IInv, Typed

\* Every step keeps the invariant.
LEMMA NextInv == IInv /\ [Next]_vars => IInv'
<1> SUFFICES ASSUME Typed, InStep, [Next]_vars PROVE Typed' /\ InStep'
  BY DEF IInv, InStep
<1>1. ASSUME NEW targets \in Targets, SetWatchdog(targets) PROVE Typed' /\ InStep'
  <2>1. [cfg EXCEPT !.wd = targets] \in Config
    BY DEF Typed, CfgTyped, Config
  <2> QED
    BY <1>1, <2>1, ChangedTyped, SetterInStep DEF SetWatchdog
<1>2. ASSUME NEW on \in BOOLEAN, NEW list \in Lists, SetHumanlike(on, list) PROVE Typed' /\ InStep'
  <2>1. [cfg EXCEPT !.on = on, !.list = list] \in Config
    BY DEF Typed, CfgTyped, Config
  <2> QED
    BY <1>2, <2>1, ChangedTyped, SetterInStep DEF SetHumanlike
<1>3. CASE Apply
  BY <1>3, GateTyped, ApplyWatchdogTyped, SwitchTyped, SetterInStep, SwitchInStep DEF Apply, Callers
<1>4. CASE Callback
  BY <1>4, CallbackTyped, CallbackInStep
<1>5. CASE RemoveBot
  BY <1>5, RemovalTyped, SetterInStep
<1>6. CASE Removal
  BY <1>6, RemovalTyped, RemovalInStep
<1>7. CASE Check \/ \E c \in WdChannels : Rejoin(c)
  BY <1>7, TimerTyped, TimerInStep
<1>8. ASSUME NEW r \in DOMAIN runners, Runner(r) PROVE Typed' /\ InStep'
  BY <1>8, RunnerTyped, RunnerInStep
<1>9. CASE Serve \/ Refuse
  BY <1>9, ServerTyped, ServeInStep DEF InStep
<1>10. CASE Ban \/ Lose
  <2>1. link' # "up" /\ out' = <<>> /\ member' = {}
    BY <1>10 DEF Ban, Lose
  <2> QED
    BY <1>10, <2>1, ServerTyped, CutStep DEF InStep
<1>11. CASE Register
  BY <1>11, ServerTyped, RegisterInStep DEF InStep
<1>12. ASSUME NEW c \in Channels, Kick(c) PROVE Typed' /\ InStep'
  BY <1>12, ServerTyped, KickInStep DEF InStep
<1>13. CASE UNCHANGED vars
  BY <1>13, SameCfg, SameJobs, SameRunners, SameFlags, SameNet, SameJobReset, QuietStep
     DEF vars, bot, net, Typed, Sends
<1> QED
  BY <1>1, <1>2, <1>3, <1>4, <1>5, <1>6, <1>7, <1>8, <1>9, <1>10, <1>11, <1>12, <1>13 DEF Next

\* The invariant holds in every state.
LEMMA AlwaysInv == Spec => []IInv
<1> QED
  BY InitInv, NextInv, PTL DEF Spec

\* The state has its type.
THEOREM TypeCorrect == Spec => []TypeOK
<1>1. IInv => TypeOK
  BY DEF IInv, Typed, CfgTyped, JobTyped, RunTyped, FlagsTyped, NetTyped, TypeOK, Jobs, RunnerStates
<1> QED
  BY <1>1, AlwaysInv, PTL

\* A bot with no line under way has the channels in b.joinedChannels that the
\* server has it on.
THEOREM ViewInStepHolds == Spec => []ViewInStep
<1>1. IInv => ViewInStep
  <2> SUFFICES ASSUME IInv, Settled PROVE view = member
    BY DEF ViewInStep
  <2>1. link = "up" /\ DOMAIN in = {} /\ DOMAIN out = {} /\ job["welcome"].pc = "idle"
    BY DEF Settled
  <2>2. \A c : ~Parting(c) /\ ~LastJoin(in, c) /\ NoneAbout(in, c) /\ ~Forgets
    BY <2>1 DEF Parting, LastJoin, NoneAbout, Forgets
  <2>3. \A c \in Channels : c \in view <=> c \in member
    BY <2>1, <2>2 DEF IInv, Consistent, WillBelieve
  <2> QED
    BY <2>3 DEF IInv, Typed, NetTyped
<1> QED
  BY <1>1, AlwaysInv, PTL

-----------------------------------------------------------------------------
(* The disabled watchdog.                                                  *)

Asked(c) == \E k \in DOMAIN out : out[k] = [cmd |-> "JOIN", channel |-> c]
NoneNew == \A c \in WdChannels : Asked(c)' => Asked(c)

\* WatchdogQuiet speaks of the lines on their way to the server.
LEMMA AskedFacts ==
  \A c : /\ [cmd |-> "JOIN", channel |-> c] \in ToSet(out) <=> Asked(c)
         /\ [cmd |-> "JOIN", channel |-> c] \in ToSet(out') <=> Asked(c)'
  BY DEF ToSet, Asked

\* PARTs and JOINs of other channels are sent.
LEMMA SentNone ==
  ASSUME Typed, NEW cmd \in {"JOIN", "PART"}, NEW S \in SUBSET Channels, cmd = "PART" \/ S \cap WdChannels = {},
         out' = Sent(cmd, S)
  PROVE  NoneNew
<1>1. \A k \in DOMAIN out' : \/ k \in DOMAIN out /\ out'[k] = out[k]
                             \/ \E x \in S : out'[k] = [cmd |-> cmd, channel |-> x]
  BY SentFacts DEF Typed, NetTyped
<1> SUFFICES ASSUME NEW c \in WdChannels, NEW k \in DOMAIN out', out'[k] = [cmd |-> "JOIN", channel |-> c]
             PROVE  Asked(c)
  BY DEF NoneNew, Asked
<1>2. \A x \in S : out'[k] # [cmd |-> cmd, channel |-> x]
  <2> SUFFICES ASSUME NEW x \in S, [cmd |-> "JOIN", channel |-> c] = [cmd |-> cmd, channel |-> x] PROVE FALSE
    OBVIOUS
  <2>1. cmd = "JOIN" /\ c = x
    OBVIOUS
  <2> QED
    BY <2>1
<1> QED
  BY <1>1, <1>2 DEF Asked

\* A human-like channel is none of the watchdog's.
LEMMA JoinNone == ASSUME Typed, NEW S \in SUBSET HlChannels, JoinChannels(S) PROVE NoneNew
<1>1. S \in SUBSET Channels /\ S \cap WdChannels = {}
  BY DEF Channels
<1>2. out' = out => NoneNew
  BY DEF NoneNew, Asked
<1> QED
  BY <1>1, <1>2, SentNone DEF JoinChannels

\* Whatever is done while the watchdog is disabled, but the 001 callback that
\* looked before.
LEMMA QuietNext ==
  ASSUME IInv, [Next]_vars, cfg.wd = {}, job["welcome"].pc # "watchdog" PROVE NoneNew
<1> USE DEF IInv
<1>1. ASSUME out' = out \/ out' = <<>> PROVE NoneNew
  <2>1. CASE out' = out
    BY <2>1 DEF NoneNew, Asked
  <2>2. CASE out' = <<>>
    BY <2>2 DEF NoneNew, Asked
  <2> QED
    BY <1>1, <2>1, <2>2
<1>2. cfg.wd \ view = {} /\ {} \in SUBSET HlChannels
  OBVIOUS
<1>3. CASE Apply
  BY <1>1, <1>2, <1>3, JoinNone
     DEF Apply, Gate, ApplyWatchdog, Switch, Look, Start, Stop, StopRunner, Keep, Stopped, net
<1>4. CASE Callback
  BY <1>1, <1>4
     DEF Callback, Welcome, WelcomeGone, Reset, WelcomeWatchdog, RecvJoin, RecvPart, RecvKick, RecvBan, RecvClosed,
         Switch, Look, Start, Stop, StopRunner, Keep, Stopped, net
<1>5. CASE Check \/ \E c \in WdChannels : Rejoin(c)
  BY <1>2, <1>5, JoinNone DEF Check, Rejoin
<1>6. ASSUME NEW r \in DOMAIN runners, Runner(r) PROVE NoneNew
  <2>1. CASE Pick(r)
    BY <1>1, <2>1 DEF Pick, net
  <2>2. CASE Join(r)
    <3>1. {runners[r].joined} \in SUBSET HlChannels
      <4>1. runners[r].joined # None
        BY <2>2 DEF Join, Typed, RunTyped
      <4>2. runners[r] \in RunnerStates
        BY DEF Typed, RunTyped
      <4> QED
        BY <4>1, <4>2 DEF RunnerStates
    <3> QED
      BY <2>2, <3>1, JoinNone DEF Join
  <2>3. ASSUME NEW next, PartTo(r, next) PROVE NoneNew
    <3>1. CASE up /\ runners[r].joined \in view
      <4>1. {runners[r].joined} \in SUBSET Channels
        BY <3>1 DEF Typed, NetTyped
      <4> QED
        BY <2>3, <3>1, <4>1, SentNone DEF PartTo
    <3>2. CASE ~(up /\ runners[r].joined \in view)
      BY <1>1, <2>3, <3>2 DEF PartTo
    <3> QED
      BY <3>1, <3>2
  <2> QED
    BY <1>6, <2>1, <2>2, <2>3 DEF Runner, Leave, End
<1>7. CASE Serve \/ Refuse
  <2>1. out' = Tail(out) /\ out # <<>> /\ out \in Seq(Line)
    BY <1>7 DEF Serve, Refuse, Typed, NetTyped
  <2>2. \A k \in DOMAIN out' : k + 1 \in DOMAIN out /\ out'[k] = out[k + 1]
    BY <2>1, TailFacts
  <2> QED
    BY <2>2 DEF NoneNew, Asked
<1>8. CASE RemoveBot \/ Removal
  BY <1>1, <1>8 DEF RemoveBot, Removal, Take, StopRunner, Stopped, Quit, net, bot
<1>9. CASE Ban \/ Lose \/ Register \/ \E c \in Channels : Kick(c)
  BY <1>1, <1>9 DEF Ban, Lose, Register, Kick
<1>10. CASE (\E targets \in Targets : SetWatchdog(targets)) \/ (\E on \in BOOLEAN, list \in Lists : SetHumanlike(on, list))
  BY <1>1, <1>10 DEF SetWatchdog, SetHumanlike, Changed, net
<1>11. CASE UNCHANGED vars
  BY <1>1, <1>11 DEF vars, net
<1> QED
  BY <1>3, <1>4, <1>5, <1>6, <1>7, <1>8, <1>9, <1>10, <1>11 DEF Next

\* A disabled watchdog joins nothing: no checker, KICK timer or setter sends a
\* JOIN for one of its channels.
THEOREM WatchdogQuietHolds == Spec => WatchdogQuiet
<1> DEFINE Quiet == cfg.wd = {} /\ job["welcome"].pc # "watchdog" =>
                      \A c \in WdChannels :
                        [cmd |-> "JOIN", channel |-> c] \in ToSet(out') => [cmd |-> "JOIN", channel |-> c] \in ToSet(out)
<1>1. IInv /\ [Next]_vars => Quiet
  BY QuietNext, AskedFacts DEF NoneNew
<1>2. IInv /\ [Next]_vars => [Quiet]_vars
  BY <1>1
<1>3. Spec => [][Quiet]_vars
  BY <1>2, AlwaysInv, PTL DEF Spec
<1> QED
  BY <1>3 DEF WatchdogQuiet
=============================================================================

--------------------------- MODULE Runtimes_proofs --------------------------
(***************************************************************************)
(* Theorems about the runtimes an engine dispatches to.  About one turn    *)
(* after another, Dispatch, for every number of rounds, dispatches and     *)
(* reads, and for files that reach the mount in any number of steps: what  *)
(* two reads agree on is a whole file.                                     *)
(* About a shell on a runtime, RuntimeShell, for every set of browsers and *)
(* every number of chunks and resizes: what a browser is sent is the       *)
(* output in order, and the CLI is given the width asked for last.  About  *)
(* the runtimes wired to the roles, Fleet, for every set of roles,         *)
(* instances and threads: the settings are changed by whole operations     *)
(* while these do not overlap, and no instance starves.                    *)
(***************************************************************************)
EXTENDS Dispatch, RuntimeShell, Fleet,
        FiniteSetTheorems, SequenceTheorems, WellFoundedInduction, TLAPS

\* DISPATCH

\* The dispatches so far: turn, of which the one at pc # "open" is the last.
TurnInv ==
  /\ turn <= (round - 1) * Tries + try
  /\ pc = "open" => turn < (round - 1) * Tries + try
  /\ pc \in {"ready", "type"} => turn # 0

\* The counter of the reads and the last content read are reset between two
\* dispatches.
ReadsInv ==
  /\ pc \notin {"read", "pause", "local"} => reads = 0
  /\ pc \notin {"read", "pause"} => prev = Nothing
  /\ pc \in {"read", "pause"} => reads < Reads
  /\ pc = "local" => reads < LocalReads

\* Where an agent may be at work, and on which turn.
Attended == {"ready", "type", "idle", "cli", "post"}

AgentInv == ~cut => working \subseteq IF pc \in Attended THEN {turn} ELSE {}

\* A file of which a part is missing is that of the first write on its way.
MountInv ==
  file # Nothing /\ file.part < Parts =>
    unsettled # <<>> /\ Head(unsettled) = file.by

\* What can have become of a half file that was read: the rest of it has come,
\* or some of it, or another turn has written over it; and what has come once
\* does not come again, as no agent is at work.
Outgrown ==
  \/ file.by = prev.by /\ file.part > prev.part
       /\ (file.part = Parts => prev.by \notin ToSet(unsettled))
  \/ file.by # prev.by /\ prev.by \notin ToSet(unsettled)

HalfReadInv ==
  ~cut /\ pc \in {"read", "pause"} /\ prev # Nothing /\ prev.part < Parts =>
    (pc = "pause" /\ file = prev) \/ Outgrown

IInv ==
  /\ TypeOK
  /\ TurnInv
  /\ ReadsInv
  /\ AgentInv
  /\ MountInv
  /\ HalfReadInv
  /\ AgreedIsWhole

---------------------------------------------------------------------------
\* The number of turns is bounded by the rounds and the tries in them.
LEMMA TurnBound ==
  ASSUME NEW r \in 1 .. MaxRounds, NEW t \in 1 .. Tries
  PROVE  /\ (r - 1) * Tries \in Nat
         /\ MaxRounds * Tries \in Nat
         /\ (r - 1) * Tries + t <= MaxRounds * Tries
         /\ (r - 1) * Tries + t <= ((r + 1) - 1) * Tries
<1> USE DispatchAssumption
<1>1. (r - 1) * Tries \in Nat /\ MaxRounds * Tries \in Nat
  OBVIOUS
<1>2. (r - 1) * Tries + Tries = r * Tries
  OBVIOUS
<1>3. r * Tries <= MaxRounds * Tries
  OBVIOUS
<1> QED
  BY <1>1, <1>2, <1>3

\* The greatest of two numbers bounds both.
LEMMA MaxOfTwo ==
  ASSUME NEW m \in Nat, NEW n \in Nat
  PROVE  Max({m, n}) \in {m, n} /\ m <= Max({m, n}) /\ n <= Max({m, n})
<1>1. \E x \in {m, n} : \A y \in {m, n} : x >= y
  <2>1. CASE m >= n
    BY <2>1
  <2>2. CASE ~(m >= n)
    BY <2>2
  <2> QED
    BY <2>1, <2>2
<1> QED
  BY <1>1 DEF Max

\* Where the next step of a write begins: after what has come, unless all of
\* it has.
LEMMA NextPart ==
  ASSUME NEW n \in 0 .. Parts
  PROVE  n % Parts \in 0 .. Parts - 1 /\ (n # Parts => n % Parts = n)
<1>1. Parts \in Nat \ {0}
  BY DispatchAssumption
<1>2. n % Parts \in 0 .. Parts - 1
  BY <1>1
<1>3. n # Parts => n % Parts = n
  BY <1>1
<1> QED
  BY <1>2, <1>3

\* The counter of the reads is bounded by the greater of the two limits.
LEMMA MaxReads ==
  /\ Max({Reads, LocalReads}) \in Nat
  /\ Reads <= Max({Reads, LocalReads})
  /\ LocalReads <= Max({Reads, LocalReads})
<1>1. Reads \in Nat /\ LocalReads \in Nat
  BY DispatchAssumption
<1> QED
  BY <1>1, MaxOfTwo

\* A file is known by its turn and its part.
LEMMA FileFacts ==
  ASSUME NEW f \in Files, NEW g \in Files
  PROVE  /\ f.by \in Nat
         /\ f.part \in 0 .. Parts
         /\ f # Nothing => f.by \in Turns /\ f.part # 0
         /\ f.by = g.by /\ f.part = g.part => f = g
  BY DispatchAssumption DEF Files, Nothing, Turns

\* What is taken from the front of a sequence that has nothing twice is not
\* in the rest of it, and the rest has nothing that was not there.
LEMMA TailFacts ==
  ASSUME NEW S, NEW s \in Seq(S), s # <<>>
  PROVE  /\ Head(s) \in S
         /\ Head(s) \in ToSet(s)
         /\ Tail(s) \in Seq(S)
         /\ ToSet(Tail(s)) \subseteq ToSet(s)
         /\ IsInjective(s) => IsInjective(Tail(s)) /\ Head(s) \notin ToSet(Tail(s))
<1>1. Len(s) \in Nat \ {0} /\ DOMAIN s = 1 .. Len(s)
  OBVIOUS
<1>2. Tail(s) \in Seq(S) /\ DOMAIN Tail(s) = 1 .. Len(s) - 1
  BY <1>1
<1>3. \A i \in 1 .. Len(s) - 1 : Tail(s)[i] = s[i + 1] /\ i + 1 \in 1 .. Len(s)
  BY <1>1
<1>4. Head(s) = s[1] /\ s[1] \in S /\ 1 \in DOMAIN s
  BY <1>1
<1>5. ToSet(Tail(s)) \subseteq ToSet(s)
  BY <1>1, <1>2, <1>3 DEF ToSet
<1>6. ASSUME IsInjective(s)
      PROVE  IsInjective(Tail(s)) /\ Head(s) \notin ToSet(Tail(s))
  <2>1. \A i, j \in 1 .. Len(s) : s[i] = s[j] => i = j
    BY <1>1, <1>6 DEF IsInjective
  <2>2. IsInjective(Tail(s))
    <3> SUFFICES ASSUME NEW i \in 1 .. Len(s) - 1, NEW j \in 1 .. Len(s) - 1,
                        Tail(s)[i] = Tail(s)[j]
                 PROVE  i = j
      BY <1>2 DEF IsInjective
    <3>1. s[i + 1] = s[j + 1] /\ i + 1 \in 1 .. Len(s) /\ j + 1 \in 1 .. Len(s)
      BY <1>3
    <3>2. i + 1 = j + 1
      BY <2>1, <3>1
    <3> QED
      BY <3>2
  <2>3. ASSUME NEW i \in 1 .. Len(s) - 1 PROVE Tail(s)[i] # Head(s)
    <3>1. s[i + 1] # s[1]
      BY <1>1, <1>3, <2>1
    <3> QED
      BY <1>3, <1>4, <3>1
  <2> QED
    BY <1>2, <2>2, <2>3 DEF ToSet
<1> QED
  BY <1>2, <1>4, <1>5, <1>6 DEF ToSet

\* What is new at the end of a sequence leaves it without repetitions and its
\* head as it is.
LEMMA AppendFacts ==
  ASSUME NEW S, NEW s \in Seq(S), NEW e \in S
  PROVE  /\ Append(s, e) \in Seq(S)
         /\ Append(s, e) # <<>>
         /\ s # <<>> => Head(Append(s, e)) = Head(s)
         /\ IsInjective(s) /\ e \notin ToSet(s) => IsInjective(Append(s, e))
<1> DEFINE a == Append(s, e)
<1>1. Len(s) \in Nat /\ DOMAIN s = 1 .. Len(s)
  OBVIOUS
<1>2. a \in Seq(S) /\ DOMAIN a = 1 .. Len(s) + 1 /\ a # <<>>
  BY <1>1
<1>3. \A i \in 1 .. Len(s) + 1 : a[i] = IF i = Len(s) + 1 THEN e ELSE s[i]
  BY <1>1
<1>4. s # <<>> => Head(a) = Head(s)
  BY <1>1, <1>2, <1>3
<1>5. ASSUME IsInjective(s), e \notin ToSet(s)
      PROVE  IsInjective(a)
  <2>1. \A i, j \in 1 .. Len(s) : s[i] = s[j] => i = j
    BY <1>1, <1>5 DEF IsInjective
  <2>2. \A i \in 1 .. Len(s) : s[i] # e
    BY <1>1, <1>5 DEF ToSet
  <2> SUFFICES ASSUME NEW i \in 1 .. Len(s) + 1, NEW j \in 1 .. Len(s) + 1,
                      a[i] = a[j]
               PROVE  i = j
    BY <1>2 DEF IsInjective
  <2>3. CASE i = Len(s) + 1 \/ j = Len(s) + 1
    <3> HIDE DEF a
    <3> QED
      BY <1>1, <1>3, <2>2, <2>3
  <2>4. CASE i \in 1 .. Len(s) /\ j \in 1 .. Len(s)
    <3> HIDE DEF a
    <3>1. a[i] = s[i] /\ a[j] = s[j]
      BY <1>1, <1>3, <2>4
    <3> QED
      BY <2>1, <2>4, <3>1
  <2> QED
    BY <1>1, <2>3, <2>4
<1> QED
  BY <1>2, <1>4, <1>5

\* A step dispatches a role no more often than it may.
LEMMA TurnStep ==
  IInv /\ [Next]_vars => TurnInv'
<1> SUFFICES ASSUME IInv, [Next]_vars PROVE TurnInv'
  OBVIOUS
<1> USE DispatchAssumption
     DEF IInv, TypeOK, TurnInv, attempt, terminals, mount, reading
<1>1. CASE OpenTerminal
  BY <1>1 DEF OpenTerminal, Goto
<1>2. CASE TerminalReady
  BY <1>2 DEF TerminalReady, Goto
<1>3. CASE TerminalNotReady
  BY <1>3 DEF TerminalNotReady, Retry
<1>4. CASE TypeTurn
  BY <1>4 DEF TypeTurn, Goto
<1>5. CASE TurnIdle
  BY <1>5 DEF TurnIdle, Goto
<1>6. CASE TurnTimesOut
  BY <1>6 DEF TurnTimesOut, Retry
<1>7. CASE StartCli
  BY <1>7 DEF StartCli, Goto
<1>8. CASE CliSucceeds
  BY <1>8 DEF CliSucceeds, Goto
<1>9. CASE CliFails
  BY <1>9 DEF CliFails, Retry
<1>10. CASE CliTimesOut
  BY <1>10 DEF CliTimesOut, Retry
<1>11. CASE Post
  BY <1>11 DEF Post, Goto
<1>12. CASE Posted
  BY <1>12 DEF Posted, Goto
<1>13. CASE PostFails
  BY <1>13 DEF PostFails, Retry
<1>14. CASE LocalRead
  BY <1>14 DEF LocalRead, Return, Leave
<1>15. CASE LocalReadAgain
  BY <1>15 DEF LocalReadAgain
<1>16. CASE LocalNothing
  BY <1>16 DEF LocalNothing, Leave, Retry
<1>17. CASE ReadAgrees
  BY <1>17 DEF ReadAgrees, Return, Leave
<1>18. CASE ReadDiffers
  BY <1>18 DEF ReadDiffers, Goto
<1>19. CASE LastRead
  BY <1>19 DEF LastRead, Return, Leave, Retry
<1>20. CASE ReadTimesOut
  BY <1>20 DEF ReadTimesOut, Leave, Retry
<1>21. CASE Pause
  BY <1>21 DEF Pause, Goto
<1>22. CASE ShellBreaks
  BY <1>22 DEF ShellBreaks, Leave
<1>23. CASE NextRound
  BY <1>23 DEF NextRound, Goto
<1>24. CASE Connect
  BY <1>24 DEF Connect
<1>25. CASE Die
  BY <1>25 DEF Die
<1>26. CASE Settle
  BY <1>26 DEF Settle
<1>27. CASE \E t \in Turns : AgentWrites(t)
  BY <1>27 DEF AgentWrites
<1>28. CASE \E t \in Turns : AgentEnds(t)
  BY <1>28 DEF AgentEnds
<1>29. CASE UNCHANGED vars
  BY <1>29 DEF vars
<1>30. CASE \E t \in Turns : Prompt(t)
  BY <1>30 DEF Prompt
<1> QED
  BY <1>1, <1>2, <1>3, <1>4, <1>5, <1>6, <1>7, <1>8, <1>9, <1>10, <1>11,
     <1>12, <1>13, <1>14, <1>15, <1>16, <1>17, <1>18, <1>19, <1>20, <1>21,
     <1>22, <1>23, <1>24, <1>25, <1>26, <1>27, <1>28, <1>29, <1>30
     DEF Next, Live, Headless, Local, ReadBack, Remote

\* A step keeps the types.
LEMMA TypeStep ==
  IInv /\ [Next]_vars => TypeOK'
<1> SUFFICES ASSUME IInv, [Next]_vars PROVE TypeOK'
  OBVIOUS
<1> USE DispatchAssumption, MaxReads
     DEF IInv, TypeOK, TurnInv, ReadsInv, attempt, terminals, mount, reading
<1>1. CASE OpenTerminal
  <2>1. turn' \in 1 .. (round - 1) * Tries + try
    BY <1>1, TurnBound DEF OpenTerminal, Goto
  <2>2. turn' \in Turns
    <3>1. /\ (round - 1) * Tries + try <= MaxRounds * Tries
          /\ (round - 1) * Tries + try \in Int
          /\ MaxRounds * Tries \in Int
      BY TurnBound
    <3> QED
      BY <2>1, <3>1 DEF Turns
  <2>3. tuis' \subseteq Turns
    BY <1>1, <2>2 DEF OpenTerminal
  <2> QED
    BY <1>1, <2>1, <2>2, <2>3 DEF OpenTerminal, Goto
<1>2. CASE TerminalReady
  BY <1>2 DEF TerminalReady, Goto
<1>3. CASE TerminalNotReady
  BY <1>3 DEF TerminalNotReady, Retry
<1>4. CASE TypeTurn
  <2>1. turn \in Turns
    BY <1>4, TurnBound DEF TypeTurn, Goto, Turns
  <2> QED
    BY <1>4, <2>1 DEF TypeTurn, Goto
<1>5. CASE TurnIdle
  BY <1>5 DEF TurnIdle, Goto
<1>6. CASE TurnTimesOut
  BY <1>6 DEF TurnTimesOut, Retry
<1>7. CASE StartCli
  <2>1. turn' \in 1 .. (round - 1) * Tries + try
    BY <1>7, TurnBound DEF StartCli, Goto
  <2>2. turn' \in Turns
    <3>1. /\ (round - 1) * Tries + try <= MaxRounds * Tries
          /\ (round - 1) * Tries + try \in Int
          /\ MaxRounds * Tries \in Int
      BY TurnBound
    <3> QED
      BY <2>1, <3>1 DEF Turns
  <2> QED
    BY <1>7, <2>1, <2>2 DEF StartCli, Goto
<1>8. CASE CliSucceeds
  BY <1>8 DEF CliSucceeds, Goto
<1>9. CASE CliFails
  BY <1>9 DEF CliFails, Retry
<1>10. CASE CliTimesOut
  BY <1>10 DEF CliTimesOut, Retry
<1>11. CASE Post
  <2>1. turn' \in 1 .. (round - 1) * Tries + try
    BY <1>11, TurnBound DEF Post, Goto
  <2>2. turn' \in Turns
    <3>1. /\ (round - 1) * Tries + try <= MaxRounds * Tries
          /\ (round - 1) * Tries + try \in Int
          /\ MaxRounds * Tries \in Int
      BY TurnBound
    <3> QED
      BY <2>1, <3>1 DEF Turns
  <2> QED
    BY <1>11, <2>1, <2>2 DEF Post, Goto
<1>12. CASE Posted
  BY <1>12 DEF Posted, Goto
<1>13. CASE PostFails
  BY <1>13 DEF PostFails, Retry
<1>14. CASE LocalRead
  <2>1. agreed' \in BOOLEAN
    BY <1>14 DEF LocalRead, Return, Leave
  <2>2. {file', prev', artifact'} \subseteq Files
    BY <1>14 DEF LocalRead, Return, Leave, Files
  <2>3. reads' = 0
    BY <1>14 DEF LocalRead, Return, Leave
  <2> HIDE DEF Files
  <2> QED
    BY <1>14, <2>1, <2>2, <2>3 DEF LocalRead, Return, Leave
<1>15. CASE LocalReadAgain
  BY <1>15 DEF LocalReadAgain
<1>16. CASE LocalNothing
  <2>1. {file', prev', artifact'} \subseteq Files
    BY <1>16 DEF LocalNothing, Leave, Files
  <2>2. reads' = 0
    BY <1>16 DEF LocalNothing, Leave
  <2> HIDE DEF Files
  <2> QED
    BY <1>16, <2>1, <2>2 DEF LocalNothing, Leave, Retry
<1>17. CASE ReadAgrees
  BY <1>17 DEF ReadAgrees, Return, Leave, Files
<1>18. CASE ReadDiffers
  BY <1>18 DEF ReadDiffers, Goto
<1>19. CASE LastRead
  <2>1. agreed' \in BOOLEAN
    BY <1>19 DEF LastRead, Return, Leave, Retry
  <2>2. {file', prev', artifact'} \subseteq Files
    BY <1>19 DEF LastRead, Return, Leave, Retry, Files
  <2>3. reads' = 0
    BY <1>19 DEF LastRead, Return, Leave
  <2>4. /\ pc' \in {"returned", "open", "failed"}
        /\ try' \in 1 .. Tries /\ try' >= try
    BY <1>19 DEF LastRead, Return, Leave, Retry
  <2>5. turn' \in 0 .. (round' - 1) * Tries + try'
    BY <1>19, <2>4, TurnBound DEF LastRead
  <2>6. UNCHANGED <<round, turn, term, tuis, working, unsettled, file, cut>>
    BY <1>19 DEF LastRead
  <2>7. pc' \in {"open", "ready", "type", "idle", "cli", "post", "local", "read", "pause", "returned", "failed"}
    BY <2>4
  <2>8. reads' \in 0 .. Max({Reads, LocalReads}) - 1
    BY <2>3, MaxReads
  <2>9. /\ round' \in 1 .. MaxRounds /\ tuis' \subseteq Turns /\ working' \subseteq Turns
        /\ term' \in {"none", "connecting", "ready", "dead"}
        /\ unsettled' \in Seq(Turns) /\ IsInjective(unsettled')
        /\ cut' \in BOOLEAN
    BY <2>6
  <2>10. {agreed', cut'} \subseteq BOOLEAN
    BY <2>1, <2>9
  <2> HIDE DEF Turns, Files
  <2> QED
    BY ONLY <2>2, <2>4, <2>5, <2>7, <2>8, <2>9, <2>10 DEF TypeOK
<1>20. CASE ReadTimesOut
  <2>1. {file', prev', artifact'} \subseteq Files
    BY <1>20 DEF ReadTimesOut, Leave, Files
  <2>2. reads' = 0
    BY <1>20 DEF ReadTimesOut, Leave
  <2> HIDE DEF Files
  <2> QED
    BY <1>20, <2>1, <2>2 DEF ReadTimesOut, Leave, Retry
<1>21. CASE Pause
  BY <1>21 DEF Pause, Goto
<1>22. CASE ShellBreaks
  BY <1>22 DEF ShellBreaks, Leave, Files
<1>23. CASE NextRound
  <2>1. turn \in 0 .. ((round + 1) - 1) * Tries + 1
    BY <1>23, TurnBound DEF NextRound, Goto
  <2>2. round' = round + 1 /\ round' \in 1 .. MaxRounds /\ try' = 1 /\ turn' = turn
    BY <1>23 DEF NextRound
  <2>3. turn' \in 0 .. (round' - 1) * Tries + try'
    BY <2>1, <2>2
  <2>4. try' \in 1 .. Tries
    BY <2>2
  <2> QED
    BY <1>23, <2>2, <2>3, <2>4 DEF NextRound, Goto, Files
<1>24. CASE Connect
  BY <1>24 DEF Connect
<1>25. CASE Die
  BY <1>25 DEF Die
<1>26. CASE Settle
  <2> DEFINE t == Head(unsettled)
             old == IF file.by = t THEN file.part % Parts ELSE 0
  <2>1. unsettled # <<>> /\ UNCHANGED <<pc, attempt, terminals, working, reading, cut>>
    BY <1>26 DEF Settle
  <2>2. PICK part \in old + 1 .. Parts :
          /\ file' = [by |-> t, part |-> part]
          /\ unsettled' = IF part = Parts THEN Tail(unsettled) ELSE unsettled
    BY <1>26 DEF Settle
  <2>3. part \in 1 .. Parts
    <3>1. file.part % Parts \in 0 .. Parts - 1
      BY FileFacts, NextPart
    <3>2. old \in 0 .. Parts - 1
      BY <3>1
    <3> QED
      BY <3>2
  <2>4. t \in Turns /\ Tail(unsettled) \in Seq(Turns) /\ IsInjective(Tail(unsettled))
    BY <2>1, TailFacts
  <2>5. file' \in Files /\ unsettled' \in Seq(Turns) /\ IsInjective(unsettled')
    BY <2>2, <2>3, <2>4 DEF Files
  <2> QED
    BY <2>1, <2>5
<1>27. CASE \E t \in Turns : AgentWrites(t)
  <2>1. PICK t \in Turns : AgentWrites(t)
    BY <1>27
  <2>2. unsettled' \in Seq(Turns) /\ IsInjective(unsettled')
    BY <2>1, AppendFacts DEF AgentWrites
  <2> QED
    BY <2>1, <2>2 DEF AgentWrites
<1>28. CASE \E t \in Turns : AgentEnds(t)
  <2>1. PICK t \in Turns : AgentEnds(t)
    BY <1>28
  <2> QED
    BY <2>1 DEF AgentEnds
<1>29. CASE UNCHANGED vars
  BY <1>29 DEF vars
<1>30. CASE \E t \in Turns : Prompt(t)
  BY <1>30 DEF Prompt
<1> QED
  BY <1>1, <1>2, <1>3, <1>4, <1>5, <1>6, <1>7, <1>8, <1>9, <1>10, <1>11,
     <1>12, <1>13, <1>14, <1>15, <1>16, <1>17, <1>18, <1>19, <1>20, <1>21,
     <1>22, <1>23, <1>24, <1>25, <1>26, <1>27, <1>28, <1>29, <1>30
     DEF Next, Live, Headless, Local, ReadBack, Remote

\* A step counts the reads of one dispatch.
LEMMA ReadsStep ==
  IInv /\ [Next]_vars => ReadsInv'
<1> SUFFICES ASSUME IInv, [Next]_vars PROVE ReadsInv'
  OBVIOUS
<1> USE DispatchAssumption
     DEF IInv, TypeOK, ReadsInv, attempt, terminals, mount, reading
<1>1. CASE OpenTerminal
  BY <1>1 DEF OpenTerminal, Goto
<1>2. CASE TerminalReady
  BY <1>2 DEF TerminalReady, Goto
<1>3. CASE TerminalNotReady
  BY <1>3 DEF TerminalNotReady, Retry
<1>4. CASE TypeTurn
  BY <1>4 DEF TypeTurn, Goto
<1>5. CASE TurnIdle
  BY <1>5 DEF TurnIdle, Goto
<1>6. CASE TurnTimesOut
  BY <1>6 DEF TurnTimesOut, Retry
<1>7. CASE StartCli
  BY <1>7 DEF StartCli, Goto
<1>8. CASE CliSucceeds
  BY <1>8 DEF CliSucceeds, Goto
<1>9. CASE CliFails
  BY <1>9 DEF CliFails, Retry
<1>10. CASE CliTimesOut
  BY <1>10 DEF CliTimesOut, Retry
<1>11. CASE Post
  BY <1>11 DEF Post, Goto
<1>12. CASE Posted
  BY <1>12 DEF Posted, Goto
<1>13. CASE PostFails
  BY <1>13 DEF PostFails, Retry
<1>14. CASE LocalRead
  BY <1>14 DEF LocalRead, Return, Leave
<1>15. CASE LocalReadAgain
  BY <1>15 DEF LocalReadAgain
<1>16. CASE LocalNothing
  BY <1>16 DEF LocalNothing, Leave, Retry
<1>17. CASE ReadAgrees
  BY <1>17 DEF ReadAgrees, Return, Leave
<1>18. CASE ReadDiffers
  BY <1>18 DEF ReadDiffers, Goto
<1>19. CASE LastRead
  BY <1>19 DEF LastRead, Return, Leave, Retry
<1>20. CASE ReadTimesOut
  BY <1>20 DEF ReadTimesOut, Leave, Retry
<1>21. CASE Pause
  BY <1>21 DEF Pause, Goto
<1>22. CASE ShellBreaks
  BY <1>22 DEF ShellBreaks, Leave
<1>23. CASE NextRound
  BY <1>23 DEF NextRound, Goto
<1>24. CASE Connect
  BY <1>24 DEF Connect
<1>25. CASE Die
  BY <1>25 DEF Die
<1>26. CASE Settle
  BY <1>26 DEF Settle
<1>27. CASE \E t \in Turns : AgentWrites(t)
  BY <1>27 DEF AgentWrites
<1>28. CASE \E t \in Turns : AgentEnds(t)
  BY <1>28 DEF AgentEnds
<1>29. CASE UNCHANGED vars
  BY <1>29 DEF vars
<1>30. CASE \E t \in Turns : Prompt(t)
  BY <1>30 DEF Prompt
<1> QED
  BY <1>1, <1>2, <1>3, <1>4, <1>5, <1>6, <1>7, <1>8, <1>9, <1>10, <1>11,
     <1>12, <1>13, <1>14, <1>15, <1>16, <1>17, <1>18, <1>19, <1>20, <1>21,
     <1>22, <1>23, <1>24, <1>25, <1>26, <1>27, <1>28, <1>29, <1>30
     DEF Next, Live, Headless, Local, ReadBack, Remote

\* A step sets no second agent to work unless the history says so.
LEMMA AgentStep ==
  IInv /\ [Next]_vars => AgentInv'
<1> SUFFICES ASSUME IInv, [Next]_vars PROVE AgentInv'
  OBVIOUS
<1> USE
     DEF IInv, TypeOK, AgentInv, Attended, attempt, terminals, mount, reading
<1>1. CASE OpenTerminal
  BY <1>1 DEF OpenTerminal, Goto
<1>2. CASE TerminalReady
  BY <1>2 DEF TerminalReady, Goto
<1>3. CASE TerminalNotReady
  BY <1>3 DEF TerminalNotReady, Retry
<1>4. CASE TypeTurn
  BY <1>4 DEF TypeTurn, Goto
<1>5. CASE TurnIdle
  BY <1>5 DEF TurnIdle, Goto
<1>6. CASE TurnTimesOut
  BY <1>6 DEF TurnTimesOut, Retry
<1>7. CASE StartCli
  BY <1>7 DEF StartCli, Goto
<1>8. CASE CliSucceeds
  BY <1>8 DEF CliSucceeds, Goto
<1>9. CASE CliFails
  BY <1>9 DEF CliFails, Retry
<1>10. CASE CliTimesOut
  BY <1>10 DEF CliTimesOut, Retry
<1>11. CASE Post
  BY <1>11 DEF Post, Goto
<1>12. CASE Posted
  BY <1>12 DEF Posted, Goto
<1>13. CASE PostFails
  BY <1>13 DEF PostFails, Retry
<1>14. CASE LocalRead
  BY <1>14 DEF LocalRead, Return, Leave
<1>15. CASE LocalReadAgain
  BY <1>15 DEF LocalReadAgain
<1>16. CASE LocalNothing
  BY <1>16 DEF LocalNothing, Leave, Retry
<1>17. CASE ReadAgrees
  BY <1>17 DEF ReadAgrees, Return, Leave
<1>18. CASE ReadDiffers
  BY <1>18 DEF ReadDiffers, Goto
<1>19. CASE LastRead
  BY <1>19 DEF LastRead, Return, Leave, Retry
<1>20. CASE ReadTimesOut
  BY <1>20 DEF ReadTimesOut, Leave, Retry
<1>21. CASE Pause
  BY <1>21 DEF Pause, Goto
<1>22. CASE ShellBreaks
  BY <1>22 DEF ShellBreaks, Leave
<1>23. CASE NextRound
  BY <1>23 DEF NextRound, Goto
<1>24. CASE Connect
  BY <1>24 DEF Connect
<1>25. CASE Die
  BY <1>25 DEF Die
<1>26. CASE Settle
  BY <1>26 DEF Settle
<1>27. CASE \E t \in Turns : AgentWrites(t)
  BY <1>27 DEF AgentWrites
<1>28. CASE \E t \in Turns : AgentEnds(t)
  BY <1>28 DEF AgentEnds
<1>29. CASE UNCHANGED vars
  BY <1>29 DEF vars
<1>30. CASE \E t \in Turns : Prompt(t)
  BY <1>30 DEF Prompt
<1> QED
  BY <1>1, <1>2, <1>3, <1>4, <1>5, <1>6, <1>7, <1>8, <1>9, <1>10, <1>11,
     <1>12, <1>13, <1>14, <1>15, <1>16, <1>17, <1>18, <1>19, <1>20, <1>21,
     <1>22, <1>23, <1>24, <1>25, <1>26, <1>27, <1>28, <1>29, <1>30
     DEF Next, Live, Headless, Local, ReadBack, Remote

\* A step of the mount goes on with the file it has begun.
LEMMA MountStep ==
  IInv /\ [Next]_vars => MountInv'
<1> SUFFICES ASSUME IInv, [Next]_vars PROVE MountInv'
  OBVIOUS
<1> USE DispatchAssumption
     DEF IInv, TypeOK, MountInv, attempt, terminals, mount, reading
<1>1. CASE OpenTerminal
  BY <1>1 DEF OpenTerminal, Goto
<1>2. CASE TerminalReady
  BY <1>2 DEF TerminalReady, Goto
<1>3. CASE TerminalNotReady
  BY <1>3 DEF TerminalNotReady, Retry
<1>4. CASE TypeTurn
  BY <1>4 DEF TypeTurn, Goto
<1>5. CASE TurnIdle
  BY <1>5 DEF TurnIdle, Goto
<1>6. CASE TurnTimesOut
  BY <1>6 DEF TurnTimesOut, Retry
<1>7. CASE StartCli
  BY <1>7 DEF StartCli, Goto
<1>8. CASE CliSucceeds
  BY <1>8 DEF CliSucceeds, Goto
<1>9. CASE CliFails
  BY <1>9 DEF CliFails, Retry
<1>10. CASE CliTimesOut
  BY <1>10 DEF CliTimesOut, Retry
<1>11. CASE Post
  BY <1>11 DEF Post, Goto
<1>12. CASE Posted
  BY <1>12 DEF Posted, Goto
<1>13. CASE PostFails
  BY <1>13 DEF PostFails, Retry
<1>14. CASE LocalRead
  BY <1>14 DEF LocalRead, Return, Leave
<1>15. CASE LocalReadAgain
  BY <1>15 DEF LocalReadAgain
<1>16. CASE LocalNothing
  BY <1>16 DEF LocalNothing, Leave, Retry
<1>17. CASE ReadAgrees
  BY <1>17 DEF ReadAgrees, Return, Leave
<1>18. CASE ReadDiffers
  BY <1>18 DEF ReadDiffers, Goto
<1>19. CASE LastRead
  BY <1>19 DEF LastRead, Return, Leave, Retry
<1>20. CASE ReadTimesOut
  BY <1>20 DEF ReadTimesOut, Leave, Retry
<1>21. CASE Pause
  BY <1>21 DEF Pause, Goto
<1>22. CASE ShellBreaks
  BY <1>22 DEF ShellBreaks, Leave
<1>23. CASE NextRound
  BY <1>23 DEF NextRound, Goto
<1>24. CASE Connect
  BY <1>24 DEF Connect
<1>25. CASE Die
  BY <1>25 DEF Die
<1>26. CASE Settle
  <2> DEFINE t == Head(unsettled)
             old == IF file.by = t THEN file.part % Parts ELSE 0
  <2>1. unsettled # <<>> /\ UNCHANGED <<pc, attempt, terminals, working, reading, cut>>
    BY <1>26 DEF Settle
  <2>2. PICK part \in old + 1 .. Parts :
          /\ file' = [by |-> t, part |-> part]
          /\ unsettled' = IF part = Parts THEN Tail(unsettled) ELSE unsettled
    BY <1>26 DEF Settle
  <2> QED
    BY <2>1, <2>2, FileFacts
<1>27. CASE \E t \in Turns : AgentWrites(t)
  <2>1. PICK t \in Turns : AgentWrites(t)
    BY <1>27
  <2> QED
    BY <2>1, AppendFacts DEF AgentWrites
<1>28. CASE \E t \in Turns : AgentEnds(t)
  BY <1>28 DEF AgentEnds
<1>29. CASE UNCHANGED vars
  BY <1>29 DEF vars
<1>30. CASE \E t \in Turns : Prompt(t)
  BY <1>30 DEF Prompt
<1> QED
  BY <1>1, <1>2, <1>3, <1>4, <1>5, <1>6, <1>7, <1>8, <1>9, <1>10, <1>11,
     <1>12, <1>13, <1>14, <1>15, <1>16, <1>17, <1>18, <1>19, <1>20, <1>21,
     <1>22, <1>23, <1>24, <1>25, <1>26, <1>27, <1>28, <1>29, <1>30
     DEF Next, Live, Headless, Local, ReadBack, Remote

\* A half file that was read is outgrown before the next read.
LEMMA HalfReadStep ==
  IInv /\ [Next]_vars => HalfReadInv'
<1> SUFFICES ASSUME IInv, [Next]_vars PROVE HalfReadInv'
  OBVIOUS
<1> USE DispatchAssumption
     DEF IInv, TypeOK, ReadsInv, AgentInv, MountInv, HalfReadInv, Outgrown,
         Attended, attempt, terminals, mount, reading
<1>1. CASE OpenTerminal
  BY <1>1 DEF OpenTerminal, Goto
<1>2. CASE TerminalReady
  BY <1>2 DEF TerminalReady, Goto
<1>3. CASE TerminalNotReady
  BY <1>3 DEF TerminalNotReady, Retry
<1>4. CASE TypeTurn
  BY <1>4 DEF TypeTurn, Goto
<1>5. CASE TurnIdle
  BY <1>5 DEF TurnIdle, Goto
<1>6. CASE TurnTimesOut
  BY <1>6 DEF TurnTimesOut, Retry
<1>7. CASE StartCli
  BY <1>7 DEF StartCli, Goto
<1>8. CASE CliSucceeds
  BY <1>8 DEF CliSucceeds, Goto
<1>9. CASE CliFails
  BY <1>9 DEF CliFails, Retry
<1>10. CASE CliTimesOut
  BY <1>10 DEF CliTimesOut, Retry
<1>11. CASE Post
  BY <1>11 DEF Post, Goto
<1>12. CASE Posted
  BY <1>12 DEF Posted, Goto
<1>13. CASE PostFails
  BY <1>13 DEF PostFails, Retry
<1>14. CASE LocalRead
  BY <1>14 DEF LocalRead, Return, Leave
<1>15. CASE LocalReadAgain
  BY <1>15 DEF LocalReadAgain
<1>16. CASE LocalNothing
  BY <1>16 DEF LocalNothing, Leave, Retry
<1>17. CASE ReadAgrees
  BY <1>17 DEF ReadAgrees, Return, Leave
<1>18. CASE ReadDiffers
  BY <1>18 DEF ReadDiffers, Goto
<1>19. CASE LastRead
  BY <1>19 DEF LastRead, Return, Leave, Retry
<1>20. CASE ReadTimesOut
  BY <1>20 DEF ReadTimesOut, Leave, Retry
<1>21. CASE Pause
  BY <1>21 DEF Pause, Goto
<1>22. CASE ShellBreaks
  BY <1>22 DEF ShellBreaks, Leave
<1>23. CASE NextRound
  BY <1>23 DEF NextRound, Goto
<1>24. CASE Connect
  BY <1>24 DEF Connect
<1>25. CASE Die
  BY <1>25 DEF Die
<1>26. CASE Settle
  <2> DEFINE t == Head(unsettled)
             old == IF file.by = t THEN file.part % Parts ELSE 0
  <2>1. unsettled # <<>> /\ UNCHANGED <<pc, attempt, terminals, working, reading, cut>>
    BY <1>26 DEF Settle
  <2>2. PICK part \in old + 1 .. Parts :
          /\ file' = [by |-> t, part |-> part]
          /\ unsettled' = IF part = Parts THEN Tail(unsettled) ELSE unsettled
    BY <1>26 DEF Settle
  <2>3. Tail(unsettled) \in Seq(Turns) /\ t \in ToSet(unsettled)
        /\ ToSet(Tail(unsettled)) \subseteq ToSet(unsettled)
        /\ t \notin ToSet(Tail(unsettled))
    BY <2>1, TailFacts
  <2>4. file'.by = t /\ file'.part = part /\ part \in 1 .. Parts
        /\ (file.by = t /\ file.part # Parts => part > file.part)
    <3>1. file.part \in 0 .. Parts
      BY FileFacts
    <3>2. /\ file.part % Parts \in 0 .. Parts - 1
          /\ file.part # Parts => file.part % Parts = file.part
      BY <3>1, NextPart
    <3>3. old \in 0 .. Parts - 1 /\ (file.by = t /\ file.part # Parts => old = file.part)
      BY <3>2
    <3> HIDE DEF old
    <3> QED
      BY <2>2, <3>1, <3>3
  <2> HIDE DEF t, old
  <2> SUFFICES ASSUME ~cut, pc \in {"read", "pause"}, prev # Nothing, prev.part < Parts
               PROVE  Outgrown'
    BY <2>1
  <2>5. CASE pc = "pause" /\ file = prev
    <3>1. file.by = t
      BY <2>5, <2>1 DEF t
    <3> QED
      BY <2>1, <2>2, <2>3, <2>4, <2>5, <3>1, FileFacts
  <2>6. CASE file.by = prev.by /\ file.part > prev.part /\ file.part = Parts
             /\ prev.by \notin ToSet(unsettled)
    BY <2>1, <2>2, <2>3, <2>4, <2>6
  <2>7. CASE file.by = prev.by /\ file.part > prev.part /\ file.part # Parts
    <3>1. file # Nothing /\ file.part < Parts
      BY <2>7, FileFacts DEF Nothing
    <3>2. file.by = t
      BY <3>1 DEF t
    <3> QED
      BY <2>1, <2>2, <2>3, <2>4, <2>7, <3>2, FileFacts
  <2>8. CASE file.by # prev.by /\ prev.by \notin ToSet(unsettled)
    BY <2>1, <2>2, <2>3, <2>4, <2>8
  <2> QED
    BY <2>5, <2>6, <2>7, <2>8
<1>27. CASE \E t \in Turns : AgentWrites(t)
  BY <1>27 DEF AgentWrites
<1>28. CASE \E t \in Turns : AgentEnds(t)
  BY <1>28 DEF AgentEnds
<1>29. CASE UNCHANGED vars
  BY <1>29 DEF vars
<1>30. CASE \E t \in Turns : Prompt(t)
  BY <1>30 DEF Prompt
<1> QED
  BY <1>1, <1>2, <1>3, <1>4, <1>5, <1>6, <1>7, <1>8, <1>9, <1>10, <1>11,
     <1>12, <1>13, <1>14, <1>15, <1>16, <1>17, <1>18, <1>19, <1>20, <1>21,
     <1>22, <1>23, <1>24, <1>25, <1>26, <1>27, <1>28, <1>29, <1>30
     DEF Next, Live, Headless, Local, ReadBack, Remote

\* A step agrees on a file only when the file is whole.
LEMMA AgreedStep ==
  IInv /\ [Next]_vars => AgreedIsWhole'
<1> SUFFICES ASSUME IInv, [Next]_vars PROVE AgreedIsWhole'
  OBVIOUS
<1> USE DispatchAssumption
     DEF IInv, TypeOK, ReadsInv, AgreedIsWhole, attempt, terminals, mount,
         reading
<1>1. CASE OpenTerminal
  BY <1>1 DEF OpenTerminal, Goto
<1>2. CASE TerminalReady
  BY <1>2 DEF TerminalReady, Goto
<1>3. CASE TerminalNotReady
  BY <1>3 DEF TerminalNotReady, Retry
<1>4. CASE TypeTurn
  BY <1>4 DEF TypeTurn, Goto
<1>5. CASE TurnIdle
  BY <1>5 DEF TurnIdle, Goto
<1>6. CASE TurnTimesOut
  BY <1>6 DEF TurnTimesOut, Retry
<1>7. CASE StartCli
  BY <1>7 DEF StartCli, Goto
<1>8. CASE CliSucceeds
  BY <1>8 DEF CliSucceeds, Goto
<1>9. CASE CliFails
  BY <1>9 DEF CliFails, Retry
<1>10. CASE CliTimesOut
  BY <1>10 DEF CliTimesOut, Retry
<1>11. CASE Post
  BY <1>11 DEF Post, Goto
<1>12. CASE Posted
  BY <1>12 DEF Posted, Goto
<1>13. CASE PostFails
  BY <1>13 DEF PostFails, Retry
<1>14. CASE LocalRead
  BY <1>14 DEF LocalRead, Return, Leave
<1>15. CASE LocalReadAgain
  BY <1>15 DEF LocalReadAgain
<1>16. CASE LocalNothing
  BY <1>16 DEF LocalNothing, Leave, Retry
<1>17. CASE ReadAgrees
  <2>1. ~cut => file.part = Parts
    BY <1>17, FileFacts DEF ReadAgrees, HalfReadInv, Outgrown
  <2> QED
    BY <1>17, <2>1 DEF ReadAgrees, Return, Leave
<1>18. CASE ReadDiffers
  BY <1>18 DEF ReadDiffers, Goto
<1>19. CASE LastRead
  BY <1>19 DEF LastRead, Return, Leave, Retry
<1>20. CASE ReadTimesOut
  BY <1>20 DEF ReadTimesOut, Leave, Retry
<1>21. CASE Pause
  BY <1>21 DEF Pause, Goto
<1>22. CASE ShellBreaks
  BY <1>22 DEF ShellBreaks, Leave
<1>23. CASE NextRound
  BY <1>23 DEF NextRound, Goto
<1>24. CASE Connect
  BY <1>24 DEF Connect
<1>25. CASE Die
  BY <1>25 DEF Die
<1>26. CASE Settle
  BY <1>26 DEF Settle
<1>27. CASE \E t \in Turns : AgentWrites(t)
  BY <1>27 DEF AgentWrites
<1>28. CASE \E t \in Turns : AgentEnds(t)
  BY <1>28 DEF AgentEnds
<1>29. CASE UNCHANGED vars
  BY <1>29 DEF vars
<1>30. CASE \E t \in Turns : Prompt(t)
  BY <1>30 DEF Prompt
<1> QED
  BY <1>1, <1>2, <1>3, <1>4, <1>5, <1>6, <1>7, <1>8, <1>9, <1>10, <1>11,
     <1>12, <1>13, <1>14, <1>15, <1>16, <1>17, <1>18, <1>19, <1>20, <1>21,
     <1>22, <1>23, <1>24, <1>25, <1>26, <1>27, <1>28, <1>29, <1>30
     DEF Next, Live, Headless, Local, ReadBack, Remote

\* IInv is an invariant of the dispatch.
LEMMA Inductive ==
  Spec => []IInv
<1>1. Init => IInv
  <2> SUFFICES ASSUME Init PROVE IInv
    OBVIOUS
  <2> USE DispatchAssumption DEF Init
  <2>1. IsInjective(<<>>) /\ <<>> \in Seq(Turns)
    BY DEF IsInjective
  <2>2. TypeOK
    <3>1. 0 \in 0 .. (1 - 1) * Tries + 1 /\ 0 \in 0 .. Max({Reads, LocalReads}) - 1
      BY MaxReads, TurnBound
    <3>2. {agreed, cut} \subseteq BOOLEAN
      OBVIOUS
    <3>3. {file, prev, artifact} \subseteq Files
      BY DEF Files
    <3> QED
      BY <2>1, <3>1, <3>2, <3>3 DEF TypeOK
  <2>3. TurnInv /\ ReadsInv /\ AgentInv /\ MountInv /\ HalfReadInv /\ AgreedIsWhole
    BY DEF TurnInv, ReadsInv, AgentInv, MountInv, HalfReadInv, AgreedIsWhole
  <2> QED
    BY <2>2, <2>3 DEF IInv
<1>2. IInv /\ [Next]_vars => IInv'
  BY TurnStep, TypeStep, ReadsStep, AgentStep, MountStep, HalfReadStep,
     AgreedStep DEF IInv
<1> QED
  BY <1>1, <1>2, PTL DEF Spec

\* Every variable keeps its type, so a role is dispatched no more often and an
\* artifact read no more often than the code allows (_runtime_cli,
\* _read_artifact_from_runtime).
THEOREM TypeCorrect ==
  Spec => []TypeOK
<1>1. IInv => TypeOK
  BY DEF IInv
<1> QED
  BY <1>1, Inductive, PTL

\* What two reads agree on is a whole file (_read_artifact_from_runtime).
THEOREM AgreedIsAlwaysWhole ==
  Spec => []AgreedIsWhole
<1>1. IInv => AgreedIsWhole
  BY DEF IInv
<1> QED
  BY <1>1, Inductive, PTL

---------------------------------------------------------------------------
\* THE SHELL

\* The last w chunks of the b that were emitted.
Newest(b, w) == [i \in 1 .. w |-> b - w + i]

\* What waits for a subscriber is the end of the output, and what it was sent
\* the beginning; nothing waits for any other client, and one that has been
\* told the buffer has missed nothing as long as nothing is emitted.
StreamInv == \A c \in Clients :
  /\ Subscribed(c) =>
       \E waiting \in 0 .. buffer :
         /\ queue[c] = Newest(buffer, waiting)
         /\ shown[c] + waiting <= buffer
         /\ ~missed[c] => shown[c] + waiting = buffer
  /\ ~Subscribed(c) => queue[c] = <<>>
  /\ stream[c] = "told" /\ ~missed[c] => shown[c] = buffer

\* A resize is recorded, passed on to the loop of a session that has a shell,
\* and served; the last one is never overtaken by an earlier one, nor by the
\* launch.
SizeInv ==
  /\ ~lost => size = asked
  /\ resizing \in {0, asked}
  /\ ~shell => calls = <<>>
  /\ conn \in {"opened", "gate", "launch", "running"} => shell
  /\ Len(calls) + (IF resizing = 0 THEN 0 ELSE 1) <= asked
  /\ alive /\ calls # <<>> /\ resizing = 0 => calls[Len(calls)] = asked
  /\ conn \in {"launch", "running"} /\ alive /\ ~lost /\ resizing = 0 /\ calls = <<>> =>
       pty = asked

ShellInv ==
  /\ ShellTypeOK
  /\ StreamInv
  /\ SizeInv

---------------------------------------------------------------------------
\* What is emitted next goes to the end of the newest chunks.
LEMMA NewestAppend ==
  ASSUME NEW b \in Nat, NEW w \in 0 .. b
  PROVE  /\ Newest(b, w) \in Seq(1 .. b)
         /\ Len(Newest(b, w)) = w
         /\ Append(Newest(b, w), b + 1) = Newest(b + 1, w + 1)
<1> DEFINE s == Newest(b, w)
<1>1. s \in Seq(1 .. b) /\ Len(s) = w /\ \A i \in 1 .. w : s[i] = b - w + i
  BY DEF Newest
<1> DEFINE a == Append(s, b + 1)
<1>2. a \in [1 .. w + 1 -> Nat]
  <2>1. s \in Seq(Nat) /\ Len(s) + 1 = w + 1
    BY <1>1
  <2> HIDE DEF s
  <2>2. a \in Seq(Nat) /\ Len(a) = w + 1
    BY <2>1
  <2> HIDE DEF a
  <2> QED
    BY <2>2
<1>3. ASSUME NEW i \in 1 .. w + 1
      PROVE  a[i] = (b + 1) - (w + 1) + i
  <2> HIDE DEF s
  <2>1. a[i] = IF i = w + 1 THEN b + 1 ELSE s[i]
    BY <1>1
  <2> HIDE DEF a
  <2> QED
    BY <1>1, <2>1
<1>4. a = [i \in 1 .. w + 1 |-> (b + 1) - (w + 1) + i]
  <2> HIDE DEF a
  <2> QED
    BY <1>2, <1>3
<1> QED
  BY <1>1, <1>4 DEF Newest

\* The first of the newest chunks is the oldest of them, the others stay.
LEMMA NewestTail ==
  ASSUME NEW b \in Nat, NEW w \in 0 .. b, Newest(b, w) # <<>>
  PROVE  /\ w # 0
         /\ Head(Newest(b, w)) = b - (w - 1)
         /\ Tail(Newest(b, w)) = Newest(b, w - 1)
<1> DEFINE s == Newest(b, w)
<1>1. s \in Seq(1 .. b) /\ Len(s) = w /\ \A i \in 1 .. w : s[i] = b - w + i
  BY DEF Newest
<1>2. w # 0
  BY <1>1
<1> DEFINE t == Tail(s)
<1>3. t \in [1 .. w - 1 -> Nat]
  <2>1. s \in Seq(Nat) /\ Len(s) - 1 = w - 1 /\ s # <<>>
    BY <1>1, <1>2
  <2> HIDE DEF s
  <2>2. t \in Seq(Nat) /\ Len(t) = w - 1
    BY <2>1
  <2> HIDE DEF t
  <2> QED
    BY <2>2
<1>4. \A i \in 1 .. w - 1 : t[i] = b - (w - 1) + i
  <2> HIDE DEF s
  <2> QED
    BY <1>1, <1>2
<1>5. t = [i \in 1 .. w - 1 |-> b - (w - 1) + i]
  <2> HIDE DEF t
  <2> QED
    BY <1>3, <1>4
<1>6. Head(s) = b - (w - 1)
  <2> HIDE DEF s
  <2> QED
    BY <1>1, <1>2
<1> QED
  BY <1>2, <1>5, <1>6 DEF Newest

\* An emission is the end of the output of every subscriber.
LEMMA EmitStep ==
  ASSUME ShellTypeOK, StreamInv, Emit, UNCHANGED clients
  PROVE  /\ StreamInv'
         /\ buffer' \in Nat
         /\ queue' \in [Clients -> Seq(1 .. buffer')]
         /\ shown' \in [Clients -> 0 .. buffer']
         /\ missed' \in [Clients -> BOOLEAN]
<1>1. /\ buffer' = buffer + 1 /\ buffer \in Nat
      /\ stream' = stream /\ shown' = shown
  BY DEF ShellTypeOK, Emit, clients
<1>2. ASSUME NEW c \in Clients
      PROVE  /\ queue'[c] = IF Subscribed(c) THEN Append(queue[c], buffer') ELSE queue[c]
             /\ missed'[c] = (missed[c] \/ stream[c] = "told")
             /\ Subscribed(c)' = Subscribed(c)
             /\ shown[c] \in 0 .. buffer
  BY DEF ShellTypeOK, Emit, clients, Subscribed
<1>3. ASSUME NEW c \in Clients, Subscribed(c)
      PROVE  \E waiting \in 0 .. buffer' :
               /\ queue'[c] = Newest(buffer', waiting)
               /\ shown[c] + waiting <= buffer'
               /\ ~missed'[c] => shown[c] + waiting = buffer'
  <2>1. PICK w \in 0 .. buffer :
          /\ queue[c] = Newest(buffer, w)
          /\ shown[c] + w <= buffer
          /\ ~missed[c] => shown[c] + w = buffer
    BY <1>3 DEF StreamInv
  <2>2. queue'[c] = Newest(buffer', w + 1)
    BY <1>1, <1>2, <1>3, <2>1, NewestAppend
  <2>3. w + 1 \in 0 .. buffer' /\ shown[c] + (w + 1) <= buffer'
    BY <1>1, <1>2, <2>1
  <2>4. ~missed'[c] => ~missed[c]
    BY <1>2
  <2>5. ~missed'[c] => shown[c] + (w + 1) = buffer'
    <3> SUFFICES ASSUME ~missed'[c] PROVE shown[c] + (w + 1) = buffer'
      OBVIOUS
    <3>1. shown[c] + w = buffer
      BY <2>1, <2>4
    <3> QED
      BY <1>1, <1>2, <2>1, <3>1
  <2> QED
    BY <2>2, <2>3, <2>5
<1>4. StreamInv'
  <2> SUFFICES ASSUME NEW c \in Clients
               PROVE  /\ Subscribed(c)' =>
                           \E waiting \in 0 .. buffer' :
                             /\ queue'[c] = Newest(buffer', waiting)
                             /\ shown'[c] + waiting <= buffer'
                             /\ ~missed'[c] => shown'[c] + waiting = buffer'
                      /\ ~Subscribed(c)' => queue'[c] = <<>>
                      /\ stream'[c] = "told" /\ ~missed'[c] => shown'[c] = buffer'
    BY DEF StreamInv, Newest
  <2>1. stream'[c] = "told" => missed'[c]
    BY <1>1, <1>2
  <2> QED
    BY <1>1, <1>2, <1>3, <2>1 DEF StreamInv
<1>5. ASSUME NEW c \in Clients PROVE queue'[c] \in Seq(1 .. buffer')
  <2>1. CASE Subscribed(c)
    <3>1. PICK w \in 0 .. buffer' : queue'[c] = Newest(buffer', w)
      BY <1>3, <2>1
    <3> QED
      BY <1>1, <3>1, NewestAppend
  <2>2. CASE ~Subscribed(c)
    <3>1. queue'[c] = <<>>
      BY <1>2, <2>2 DEF StreamInv
    <3> QED
      BY <3>1
  <2> QED
    BY <2>1, <2>2
<1>6. queue' \in [Clients -> Seq(1 .. buffer')] /\ missed' \in [Clients -> BOOLEAN]
  <2>1. DOMAIN queue' = Clients /\ queue' = [c \in Clients |-> queue'[c]]
    BY DEF Emit
  <2>2. missed' = [c \in Clients |-> missed[c] \/ stream[c] = "told"]
    BY DEF Emit
  <2> QED
    BY <1>5, <2>1, <2>2
<1>7. shown' \in [Clients -> 0 .. buffer']
  BY <1>1 DEF ShellTypeOK
<1> QED
  BY <1>1, <1>4, <1>6, <1>7

\* A step sends each subscriber the output in order.
LEMMA StreamStep ==
  ShellInv /\ [ShellNext]_shellVars => StreamInv'
<1> SUFFICES ASSUME ShellInv, [ShellNext]_shellVars PROVE StreamInv'
  OBVIOUS
<1>1. CASE RunLoop
  <2>1. UNCHANGED <<buffer, queue, missed, stream, shown>>
    BY <1>1 DEF RunLoop, ShellGoto, output, clients
  <2> QED
    BY <2>1 DEF ShellInv, StreamInv, Subscribed
<1>2. CASE RetryOpen
  BY <1>2, EmitStep DEF ShellInv, RetryOpen
<1>3. CASE OpenShell
  <2>1. UNCHANGED <<buffer, queue, missed, stream, shown>>
    BY <1>3 DEF OpenShell, ShellGoto, output, clients
  <2> QED
    BY <2>1 DEF ShellInv, StreamInv, Subscribed
<1>4. CASE TakeSize
  <2>1. UNCHANGED <<buffer, queue, missed, stream, shown>>
    BY <1>4 DEF TakeSize, ShellGoto, output, clients
  <2> QED
    BY <2>1 DEF ShellInv, StreamInv, Subscribed
<1>5. CASE PassGate
  <2>1. UNCHANGED <<buffer, queue, missed, stream, shown>>
    BY <1>5 DEF PassGate, ShellGoto, output, clients
  <2> QED
    BY <2>1 DEF ShellInv, StreamInv, Subscribed
<1>6. CASE Launch
  <2>1. UNCHANGED <<buffer, queue, missed, stream, shown>>
    BY <1>6 DEF Launch, ShellGoto, output, clients
  <2> QED
    BY <2>1 DEF ShellInv, StreamInv, Subscribed
<1>7. CASE LeaveShell
  <2>1. UNCHANGED <<buffer, queue, missed, stream, shown>>
    BY <1>7 DEF LeaveShell, ShellGoto, output, clients
  <2> QED
    BY <2>1 DEF ShellInv, StreamInv, Subscribed
<1>8. CASE LastWord
  BY <1>8, EmitStep DEF ShellInv, LastWord
<1>9. CASE ReportError
  BY <1>9, EmitStep DEF ShellInv, ReportError
<1>10. CASE ShellDies
  <2>1. UNCHANGED <<buffer, queue, missed, stream, shown>>
    BY <1>10 DEF ShellDies, ShellGoto, output, clients
  <2> QED
    BY <2>1 DEF ShellInv, StreamInv, Subscribed
<1>11. CASE Frame
  BY <1>11, EmitStep DEF ShellInv, Frame
<1>12. CASE Hangup
  <2>1. UNCHANGED <<buffer, queue, missed, stream, shown>>
    BY <1>12 DEF Hangup, ShellGoto, output, clients
  <2> QED
    BY <2>1 DEF ShellInv, StreamInv, Subscribed
<1>13. CASE Raise
  <2>1. UNCHANGED <<buffer, queue, missed, stream, shown>>
    BY <1>13 DEF Raise, output, clients
  <2> QED
    BY <2>1 DEF ShellInv, StreamInv, Subscribed
<1>14. CASE ServeCall
  <2>1. UNCHANGED <<buffer, queue, missed, stream, shown>>
    BY <1>14 DEF ServeCall, output, clients
  <2> QED
    BY <2>1 DEF ShellInv, StreamInv, Subscribed
<1>15. CASE Register
  <2>1. UNCHANGED <<buffer, queue, missed, stream, shown>>
    BY <1>15 DEF Register, output, clients
  <2> QED
    BY <2>1 DEF ShellInv, StreamInv, Subscribed
<1>16. CASE Close
  <2>1. UNCHANGED <<buffer, queue, missed, stream, shown>>
    BY <1>16 DEF Close, output, clients
  <2> QED
    BY <2>1 DEF ShellInv, StreamInv, Subscribed
<1>17. CASE RecordSize
  <2>1. UNCHANGED <<buffer, queue, missed, stream, shown>>
    BY <1>17 DEF RecordSize, output, clients
  <2> QED
    BY <2>1 DEF ShellInv, StreamInv, Subscribed
<1>18. CASE PassOnSize
  <2>1. UNCHANGED <<buffer, queue, missed, stream, shown>>
    BY <1>18 DEF PassOnSize, output, clients
  <2> QED
    BY <2>1 DEF ShellInv, StreamInv, Subscribed
<1>19. CASE \E c \in Clients : TellBuffer(c)
  <2>1. PICK c \in Clients : TellBuffer(c)
    BY <1>19
  <2> SUFFICES ASSUME NEW d \in Clients
               PROVE  /\ Subscribed(d)' =>
                           \E waiting \in 0 .. buffer' :
                             /\ queue'[d] = Newest(buffer', waiting)
                             /\ shown'[d] + waiting <= buffer'
                             /\ ~missed'[d] => shown'[d] + waiting = buffer'
                      /\ ~Subscribed(d)' => queue'[d] = <<>>
                      /\ stream'[d] = "told" /\ ~missed'[d] => shown'[d] = buffer'
    BY DEF StreamInv, Newest
  <2>2. CASE d # c
    BY <2>1, <2>2 DEF ShellInv, ShellTypeOK, StreamInv, Subscribed, TellBuffer, Move, output, clients, session
  <2>3. CASE d = c
    BY <2>1, <2>3 DEF ShellInv, ShellTypeOK, StreamInv, Subscribed, TellBuffer, Move, output, clients, session
  <2> QED
    BY <2>2, <2>3
<1>20. CASE \E c \in Clients : Subscribe(c)
  <2>1. PICK c \in Clients : Subscribe(c)
    BY <1>20
  <2> SUFFICES ASSUME NEW d \in Clients
               PROVE  /\ Subscribed(d)' =>
                           \E waiting \in 0 .. buffer' :
                             /\ queue'[d] = Newest(buffer', waiting)
                             /\ shown'[d] + waiting <= buffer'
                             /\ ~missed'[d] => shown'[d] + waiting = buffer'
                      /\ ~Subscribed(d)' => queue'[d] = <<>>
                      /\ stream'[d] = "told" /\ ~missed'[d] => shown'[d] = buffer'
    BY DEF StreamInv, Newest
  <2>2. CASE d # c
    BY <2>1, <2>2 DEF ShellInv, ShellTypeOK, StreamInv, Subscribed, Subscribe, Move, output, clients, session
  <2>3. CASE d = c
    <3>1. Newest(buffer, 0) = <<>>
      BY DEF Newest
    <3>2. /\ buffer' = buffer /\ buffer \in Nat
          /\ queue' = queue /\ shown' = shown /\ missed' = missed
          /\ stream[c] = "told" /\ stream'[c] = "on"
          /\ shown[c] \in 0 .. buffer
      BY <2>1 DEF ShellInv, ShellTypeOK, Subscribe, Move, output, clients, session
    <3>4. queue[c] = <<>> /\ (~missed[c] => shown[c] = buffer)
      BY <3>2 DEF ShellInv, StreamInv, Subscribed
    <3>5. shown[c] + 0 = shown[c]
      BY <3>2
    <3>3. 0 \in 0 .. buffer
      BY <3>2
    <3> QED
      BY <2>3, <3>1, <3>2, <3>3, <3>4, <3>5 DEF Subscribed
  <2> QED
    BY <2>2, <2>3
<1>21. CASE \E c \in Clients : Wait(c)
  <2>1. PICK c \in Clients : Wait(c)
    BY <1>21
  <2> SUFFICES ASSUME NEW d \in Clients
               PROVE  /\ Subscribed(d)' =>
                           \E waiting \in 0 .. buffer' :
                             /\ queue'[d] = Newest(buffer', waiting)
                             /\ shown'[d] + waiting <= buffer'
                             /\ ~missed'[d] => shown'[d] + waiting = buffer'
                      /\ ~Subscribed(d)' => queue'[d] = <<>>
                      /\ stream'[d] = "told" /\ ~missed'[d] => shown'[d] = buffer'
    BY DEF StreamInv, Newest
  <2>2. CASE d # c
    BY <2>1, <2>2 DEF ShellInv, ShellTypeOK, StreamInv, Subscribed, Wait, Move, output, clients, session
  <2>3. CASE d = c
    BY <2>1, <2>3 DEF ShellInv, ShellTypeOK, StreamInv, Subscribed, Wait, Move, output, clients, session
  <2> QED
    BY <2>2, <2>3
<1>22. CASE \E c \in Clients : Deliver(c)
  <2>1. PICK c \in Clients : Deliver(c)
    BY <1>22
  <2> SUFFICES ASSUME NEW d \in Clients
               PROVE  /\ Subscribed(d)' =>
                           \E waiting \in 0 .. buffer' :
                             /\ queue'[d] = Newest(buffer', waiting)
                             /\ shown'[d] + waiting <= buffer'
                             /\ ~missed'[d] => shown'[d] + waiting = buffer'
                      /\ ~Subscribed(d)' => queue'[d] = <<>>
                      /\ stream'[d] = "told" /\ ~missed'[d] => shown'[d] = buffer'
    BY DEF StreamInv, Newest
  <2>2. CASE d # c
    BY <2>1, <2>2 DEF ShellInv, ShellTypeOK, StreamInv, Subscribed, Deliver, Move, output, clients, session
  <2>3. CASE d = c
    <3>1. PICK w \in 0 .. buffer :
            /\ queue[c] = Newest(buffer, w)
            /\ shown[c] + w <= buffer
            /\ ~missed[c] => shown[c] + w = buffer
      BY <2>1 DEF ShellInv, StreamInv, Subscribed, Deliver, Move
    <3>2. buffer \in Nat /\ shown[c] \in Nat
      BY DEF ShellInv, ShellTypeOK
    <3>3. /\ w - 1 \in 0 .. buffer
          /\ Head(queue[c]) = buffer - (w - 1)
          /\ Tail(queue[c]) = Newest(buffer, w - 1)
      BY <2>1, <3>1, <3>2, NewestTail DEF Deliver
    <3>4. /\ queue'[c] = Newest(buffer, w - 1)
          /\ shown'[c] = buffer - (w - 1)
          /\ stream'[c] = "on"
          /\ buffer' = buffer
      BY <2>1, <3>3 DEF ShellInv, ShellTypeOK, Deliver, Move
    <3>5. shown'[c] + (w - 1) = buffer
      BY <3>2, <3>3, <3>4
    <3> QED
      BY <2>3, <3>2, <3>3, <3>4, <3>5 DEF Subscribed
  <2> QED
    BY <2>2, <2>3
<1>23. CASE \E c \in Clients : KeepAlive(c)
  <2>1. PICK c \in Clients : KeepAlive(c)
    BY <1>23
  <2> SUFFICES ASSUME NEW d \in Clients
               PROVE  /\ Subscribed(d)' =>
                           \E waiting \in 0 .. buffer' :
                             /\ queue'[d] = Newest(buffer', waiting)
                             /\ shown'[d] + waiting <= buffer'
                             /\ ~missed'[d] => shown'[d] + waiting = buffer'
                      /\ ~Subscribed(d)' => queue'[d] = <<>>
                      /\ stream'[d] = "told" /\ ~missed'[d] => shown'[d] = buffer'
    BY DEF StreamInv, Newest
  <2>2. CASE d # c
    BY <2>1, <2>2 DEF ShellInv, ShellTypeOK, StreamInv, Subscribed, KeepAlive, Move, output, clients, session
  <2>3. CASE d = c
    BY <2>1, <2>3 DEF ShellInv, ShellTypeOK, StreamInv, Subscribed, KeepAlive, Move, output, clients, session
  <2> QED
    BY <2>2, <2>3
<1>24. CASE \E c \in Clients : EndStream(c)
  <2>1. PICK c \in Clients : EndStream(c)
    BY <1>24
  <2> SUFFICES ASSUME NEW d \in Clients
               PROVE  /\ Subscribed(d)' =>
                           \E waiting \in 0 .. buffer' :
                             /\ queue'[d] = Newest(buffer', waiting)
                             /\ shown'[d] + waiting <= buffer'
                             /\ ~missed'[d] => shown'[d] + waiting = buffer'
                      /\ ~Subscribed(d)' => queue'[d] = <<>>
                      /\ stream'[d] = "told" /\ ~missed'[d] => shown'[d] = buffer'
    BY DEF StreamInv, Newest
  <2>2. CASE d # c
    BY <2>1, <2>2 DEF ShellInv, ShellTypeOK, StreamInv, Subscribed, EndStream, Move, Unsubscribe, output, clients, session
  <2>3. CASE d = c
    BY <2>1, <2>3 DEF ShellInv, ShellTypeOK, StreamInv, Subscribed, EndStream, Move, Unsubscribe, output, clients, session
  <2> QED
    BY <2>2, <2>3
<1>25. CASE \E c \in Clients : Disconnect(c)
  <2>1. PICK c \in Clients : Disconnect(c)
    BY <1>25
  <2> SUFFICES ASSUME NEW d \in Clients
               PROVE  /\ Subscribed(d)' =>
                           \E waiting \in 0 .. buffer' :
                             /\ queue'[d] = Newest(buffer', waiting)
                             /\ shown'[d] + waiting <= buffer'
                             /\ ~missed'[d] => shown'[d] + waiting = buffer'
                      /\ ~Subscribed(d)' => queue'[d] = <<>>
                      /\ stream'[d] = "told" /\ ~missed'[d] => shown'[d] = buffer'
    BY DEF StreamInv, Newest
  <2>2. CASE d # c
    BY <2>1, <2>2 DEF ShellInv, ShellTypeOK, StreamInv, Subscribed, Disconnect, Unsubscribe, output, clients, session
  <2>3. CASE d = c
    BY <2>1, <2>3 DEF ShellInv, ShellTypeOK, StreamInv, Subscribed, Disconnect, Unsubscribe, output, clients, session
  <2> QED
    BY <2>2, <2>3
<1>26. CASE UNCHANGED shellVars
  <2>1. UNCHANGED <<buffer, queue, missed, stream, shown>>
    BY <1>26 DEF shellVars
  <2> QED
    BY <2>1 DEF ShellInv, StreamInv, Subscribed
<1> QED
  BY <1>1, <1>2, <1>3, <1>4, <1>5, <1>6, <1>7, <1>8, <1>9, <1>10, <1>11,
     <1>12, <1>13, <1>14, <1>15, <1>16, <1>17, <1>18, <1>19, <1>20, <1>21,
     <1>22, <1>23, <1>24, <1>25, <1>26
     DEF ShellNext, Connection, RemoteShell, LoopStops, Handler, Streaming

\* A step keeps the types.
LEMMA ShellTypeStep ==
  ShellInv /\ [ShellNext]_shellVars => ShellTypeOK'
<1> SUFFICES ASSUME ShellInv, [ShellNext]_shellVars PROVE ShellTypeOK'
  OBVIOUS
<1> USE RuntimeShellAssumption
     DEF ShellInv, ShellTypeOK, SizeInv, Looping, output, clients, sizing, ending,
         session
<1>1. CASE RunLoop
  BY <1>1 DEF RunLoop, ShellGoto
<1>2. CASE RetryOpen
  BY <1>2, EmitStep DEF RetryOpen, output, clients
<1>3. CASE OpenShell
  BY <1>3 DEF OpenShell, ShellGoto
<1>4. CASE TakeSize
  BY <1>4 DEF TakeSize, ShellGoto
<1>5. CASE PassGate
  BY <1>5 DEF PassGate, ShellGoto
<1>6. CASE Launch
  BY <1>6 DEF Launch, ShellGoto
<1>7. CASE LeaveShell
  BY <1>7 DEF LeaveShell, ShellGoto
<1>8. CASE LastWord
  BY <1>8, EmitStep DEF LastWord, ShellGoto, output, clients
<1>9. CASE ReportError
  BY <1>9, EmitStep DEF ReportError, ShellGoto, output, clients
<1>10. CASE ShellDies
  BY <1>10 DEF ShellDies, ShellGoto
<1>11. CASE Frame
  BY <1>11, EmitStep DEF Frame, output, clients
<1>12. CASE Hangup
  BY <1>12 DEF Hangup, ShellGoto
<1>13. CASE Raise
  BY <1>13 DEF Raise
<1>14. CASE ServeCall
  BY <1>14 DEF ServeCall
<1>15. CASE Register
  BY <1>15 DEF Register
<1>16. CASE Close
  <2>1. stopping' \in BOOLEAN
    BY <1>16 DEF Close
  <2>2. deaf' \in BOOLEAN
    BY <1>16 DEF Close
  <2>3. alive' \in BOOLEAN
    BY <1>16 DEF Close
  <2> QED
    BY <1>16, <2>1, <2>2, <2>3 DEF Close
<1>17. CASE RecordSize
  <2>1. {event', lost'} \subseteq BOOLEAN
    BY <1>17 DEF RecordSize
  <2>2. {size', asked', resizing'} \subseteq 0 .. MaxResizes /\ Len(calls) <= asked'
    BY <1>17 DEF RecordSize
  <2> QED
    BY <1>17, <2>1, <2>2 DEF RecordSize
<1>18. CASE PassOnSize
  <2>1. calls \in Seq(1 .. MaxResizes) /\ resizing \in 1 .. MaxResizes
    BY <1>18 DEF PassOnSize
  <2>2. /\ Append(calls, resizing) \in Seq(1 .. MaxResizes)
        /\ Len(Append(calls, resizing)) = Len(calls) + 1
    BY <2>1
  <2>3. calls' \in Seq(1 .. MaxResizes) /\ Len(calls') <= asked'
    BY <1>18, <2>2 DEF PassOnSize
  <2> QED
    BY <1>18, <2>3 DEF PassOnSize
<1>19. CASE \E c \in Clients : TellBuffer(c)
  <2>1. PICK c \in Clients : TellBuffer(c)
    BY <1>19
  <2> QED
    BY <2>1 DEF TellBuffer, Move
<1>20. CASE \E c \in Clients : Subscribe(c)
  <2>1. PICK c \in Clients : Subscribe(c)
    BY <1>20
  <2> QED
    BY <2>1 DEF Subscribe, Move
<1>21. CASE \E c \in Clients : Wait(c)
  <2>1. PICK c \in Clients : Wait(c)
    BY <1>21
  <2> QED
    BY <2>1 DEF Wait, Move
<1>22. CASE \E c \in Clients : Deliver(c)
  <2>1. PICK c \in Clients : Deliver(c)
    BY <1>22
  <2>2. queue[c] \in Seq(1 .. buffer) /\ queue[c] # <<>>
    BY <2>1 DEF Deliver, ShellInv, ShellTypeOK
  <2>3. Head(queue[c]) \in 1 .. buffer /\ Tail(queue[c]) \in Seq(1 .. buffer)
    BY <2>2, HeadTailProperties
  <2>4. UNCHANGED <<session, buffer, missed>>
    BY <2>1 DEF Deliver
  <2>5. stream' \in [Clients -> {"off", "told", "on", "wait", "ended"}]
    BY <2>1 DEF Deliver, Move
  <2>6. queue' \in [Clients -> Seq(1 .. buffer)] /\ shown' \in [Clients -> 0 .. buffer]
    BY <2>1, <2>3 DEF Deliver
  <2> QED
    BY <2>4, <2>5, <2>6
<1>23. CASE \E c \in Clients : KeepAlive(c)
  <2>1. PICK c \in Clients : KeepAlive(c)
    BY <1>23
  <2> QED
    BY <2>1 DEF KeepAlive, Move
<1>24. CASE \E c \in Clients : EndStream(c)
  <2>1. PICK c \in Clients : EndStream(c)
    BY <1>24
  <2> QED
    BY <2>1 DEF EndStream, Move, Unsubscribe
<1>25. CASE \E c \in Clients : Disconnect(c)
  <2>1. PICK c \in Clients : Disconnect(c)
    BY <1>25
  <2> QED
    BY <2>1 DEF Disconnect, Unsubscribe
<1>26. CASE UNCHANGED shellVars
  BY <1>26 DEF shellVars
<1> QED
  BY <1>1, <1>2, <1>3, <1>4, <1>5, <1>6, <1>7, <1>8, <1>9, <1>10, <1>11,
     <1>12, <1>13, <1>14, <1>15, <1>16, <1>17, <1>18, <1>19, <1>20, <1>21,
     <1>22, <1>23, <1>24, <1>25, <1>26
     DEF ShellNext, Connection, RemoteShell, LoopStops, Handler, Streaming

\* A step passes the width asked for last on, or leaves it recorded.
LEMMA SizeStep ==
  ShellInv /\ [ShellNext]_shellVars => SizeInv'
<1> SUFFICES ASSUME ShellInv, [ShellNext]_shellVars PROVE SizeInv'
  OBVIOUS
<1> USE RuntimeShellAssumption
     DEF ShellInv, ShellTypeOK, SizeInv, Looping, output, clients, sizing, ending,
         session
<1>1. CASE RunLoop
  BY <1>1 DEF RunLoop, ShellGoto
<1>2. CASE RetryOpen
  BY <1>2 DEF RetryOpen
<1>3. CASE OpenShell
  BY <1>3 DEF OpenShell, ShellGoto
<1>4. CASE TakeSize
  <2>1. lost' <=> asked > 0
    BY <1>4 DEF TakeSize
  <2>2. ~lost' => asked = 0
    BY <2>1
  <2> QED
    BY <1>4, <2>2 DEF TakeSize, ShellGoto
<1>5. CASE PassGate
  BY <1>5 DEF PassGate, ShellGoto
<1>6. CASE Launch
  BY <1>6 DEF Launch, ShellGoto
<1>7. CASE LeaveShell
  BY <1>7 DEF LeaveShell, ShellGoto
<1>8. CASE LastWord
  BY <1>8 DEF LastWord, ShellGoto
<1>9. CASE ReportError
  BY <1>9 DEF ReportError, ShellGoto
<1>10. CASE ShellDies
  BY <1>10 DEF ShellDies, ShellGoto
<1>11. CASE Frame
  BY <1>11 DEF Frame
<1>12. CASE Hangup
  BY <1>12 DEF Hangup, ShellGoto
<1>13. CASE Raise
  BY <1>13 DEF Raise
<1>14. CASE ServeCall
  <2>1. calls \in Seq(1 .. MaxResizes) /\ calls # <<>> /\ Len(calls) \in Nat \ {0}
    BY <1>14 DEF ServeCall
  <2>2. /\ calls' = Tail(calls) /\ pty' = Head(calls)
        /\ UNCHANGED <<conn, shell, size, resizing, asked, lost, alive>>
    BY <1>14 DEF ServeCall
  <2>3. /\ Len(calls') = Len(calls) - 1
        /\ calls' # <<>> => calls'[Len(calls')] = calls[Len(calls)]
        /\ calls' = <<>> => pty' = calls[Len(calls)]
    <3>1. Len(Tail(calls)) = Len(calls) - 1 /\ Head(calls) = calls[1]
      BY <2>1
    <3>2. Tail(calls) # <<>> => Len(calls) - 1 \in 1 .. Len(Tail(calls))
      BY <2>1, <3>1
    <3>3. \A i \in 1 .. Len(Tail(calls)) : Tail(calls)[i] = calls[i + 1]
      BY <2>1
    <3>4. Tail(calls) # <<>> => Tail(calls)[Len(calls) - 1] = calls[(Len(calls) - 1) + 1]
      BY <3>2, <3>3
    <3>5. (Len(calls) - 1) + 1 = Len(calls)
      BY <2>1
    <3>6. Tail(calls) = <<>> => Len(calls) = 1
      <4>1. Len(<<>>) = 0
        OBVIOUS
      <4>2. Tail(calls) = <<>> => Len(calls) - 1 = 0
        BY <3>1, <4>1
      <4> QED
        BY <2>1, <4>2
    <3> QED
      BY <2>2, <3>1, <3>4, <3>5, <3>6
  <2> QED
    BY <2>1, <2>2, <2>3
<1>15. CASE Register
  BY <1>15 DEF Register
<1>16. CASE Close
  BY <1>16 DEF Close
<1>17. CASE RecordSize
  BY <1>17 DEF RecordSize
<1>18. CASE PassOnSize
  <2>1. /\ resizing # 0 /\ resizing' = 0 /\ resizing = asked
        /\ UNCHANGED <<conn, alive, shell, size, pty, asked, lost>>
    BY <1>18 DEF PassOnSize
  <2>2. CASE shell /\ alive
    <3>1. calls' = Append(calls, resizing)
      BY <1>18, <2>2 DEF PassOnSize
    <3>2. /\ Len(calls') = Len(calls) + 1
          /\ calls'[Len(calls')] = resizing
          /\ calls' # <<>>
      <4>1. calls \in Seq(1 .. MaxResizes) /\ resizing \in 1 .. MaxResizes
        BY <2>1
      <4> HIDE DEF ShellInv, ShellTypeOK, SizeInv
      <4>2. /\ Append(calls, resizing) \in Seq(1 .. MaxResizes)
            /\ Len(Append(calls, resizing)) = Len(calls) + 1
            /\ Append(calls, resizing)[Len(calls) + 1] = resizing
        BY <4>1
      <4>3. Len(calls) \in Nat
        BY <4>1
      <4> QED
        BY <3>1, <4>2, <4>3
    <3> QED
      BY <2>1, <2>2, <3>2
  <2>3. CASE ~(shell /\ alive)
    <3>1. calls' = calls
      BY <1>18, <2>3 DEF PassOnSize
    <3> QED
      BY <2>1, <2>3, <3>1
  <2> QED
    BY <2>2, <2>3
<1>19. CASE \E c \in Clients : TellBuffer(c)
  BY <1>19 DEF TellBuffer, Move
<1>20. CASE \E c \in Clients : Subscribe(c)
  BY <1>20 DEF Subscribe, Move
<1>21. CASE \E c \in Clients : Wait(c)
  BY <1>21 DEF Wait, Move
<1>22. CASE \E c \in Clients : Deliver(c)
  BY <1>22 DEF Deliver, Move
<1>23. CASE \E c \in Clients : KeepAlive(c)
  BY <1>23 DEF KeepAlive, Move
<1>24. CASE \E c \in Clients : EndStream(c)
  BY <1>24 DEF EndStream, Move, Unsubscribe
<1>25. CASE \E c \in Clients : Disconnect(c)
  BY <1>25 DEF Disconnect, Unsubscribe
<1>26. CASE UNCHANGED shellVars
  BY <1>26 DEF shellVars
<1> QED
  BY <1>1, <1>2, <1>3, <1>4, <1>5, <1>6, <1>7, <1>8, <1>9, <1>10, <1>11,
     <1>12, <1>13, <1>14, <1>15, <1>16, <1>17, <1>18, <1>19, <1>20, <1>21,
     <1>22, <1>23, <1>24, <1>25, <1>26
     DEF ShellNext, Connection, RemoteShell, LoopStops, Handler, Streaming

\* IInv is an invariant of the session.
LEMMA ShellInductive ==
  ShellSpec => []ShellInv
<1>1. ShellInit => ShellInv
  <2> SUFFICES ASSUME ShellInit PROVE ShellInv
    OBVIOUS
  <2> USE RuntimeShellAssumption DEF ShellInit
  <2>1. {alive, shell, event, stopping, lost, deaf} \subseteq BOOLEAN
    OBVIOUS
  <2>2. ShellTypeOK
    BY <2>1 DEF ShellTypeOK, Looping
  <2>3. StreamInv /\ SizeInv
    BY DEF StreamInv, SizeInv, Subscribed
  <2> QED
    BY <2>2, <2>3 DEF ShellInv
<1>2. ShellInv /\ [ShellNext]_shellVars => ShellInv'
  BY ShellTypeStep, StreamStep, SizeStep DEF ShellInv
<1> QED
  BY <1>1, <1>2, PTL DEF ShellSpec

\* Every browser that is subscribed is sent the output in order, no chunk
\* twice and none left out but those emitted before it had subscribed (_emit,
\* stream_output).
THEOREM StreamsAreAlwaysFaithful ==
  ShellSpec => []StreamsAreFaithful
<1>1. ShellInv => StreamsAreFaithful
  <2> SUFFICES ASSUME ShellInv, NEW c \in Clients, Subscribed(c)
               PROVE  LET waiting == Len(queue[c]) IN
                        /\ queue[c] = [i \in 1 .. waiting |-> buffer - waiting + i]
                        /\ shown[c] + waiting <= buffer
                        /\ ~missed[c] => shown[c] + waiting = buffer
    BY DEF StreamsAreFaithful
  <2>1. PICK w \in 0 .. buffer :
          /\ queue[c] = Newest(buffer, w)
          /\ shown[c] + w <= buffer
          /\ ~missed[c] => shown[c] + w = buffer
    BY DEF ShellInv, StreamInv
  <2>2. Len(queue[c]) = w
    BY <2>1, NewestAppend DEF ShellInv, ShellTypeOK
  <2> QED
    BY <2>1, <2>2 DEF Newest
<1> QED
  BY <1>1, ShellInductive, PTL

\* Whichever of the launch and a resize comes first, the CLI has the width
\* asked for last once every request is served (resize, _connect).
THEOREM SizeIsAlwaysHonoured ==
  ShellSpec => []SizeIsHonoured
<1>1. ShellInv => SizeIsHonoured
  BY DEF ShellInv, SizeInv, SizeIsHonoured
<1> QED
  BY <1>1, ShellInductive, PTL

---------------------------------------------------------------------------
\* THE FLEET

\* What becomes of the instances f and the descriptions d by one operation.
Becomes(f, d, e) ==
  \/ e = Empty
  \/ \E r \in Roles :
       /\ e.fleets = [f EXCEPT ![r] = <<>>] /\ e.fleets # Empty.fleets
       /\ e.described = d
  \/ e.fleets = f /\ \E a \in Arns : e.described = d \cup {a} \/ e.described = d \ {a}
  \/ e.described = d /\ \E r \in Roles, a \in Arns, g \in Fleets :
       /\ e.fleets = [f EXCEPT ![r] = g]
       /\ \/ g = <<a>> \/ g = RemoveFirst(f[r], a)
          \/ IsPrefix(f[r], g) /\ ToSet(g) = ToSet(f[r]) \cup {a}

\* What a request has still to write is the settings as they are, after one
\* operation.
JobOk(j) ==
  /\ j.at \notin {"mangle", "lost"}
  /\ j.at = "merge" =>
       Becomes(Loaded.fleets, Loaded.described, [j.edit EXCEPT !.described = Loaded.described])
  /\ j.at = "reload" =>
       Becomes(Loaded.fleets, Loaded.described, [j.edit EXCEPT !.fleets = Loaded.fleets])
  /\ j.at = "open" => Becomes(Loaded.fleets, Loaded.described, j.edit)
  /\ j.at = "dump" => settings = Cut

CalmInv ==
  calm =>
    /\ \A s, t \in Busy : s = t
    /\ \A t \in Threads : JobOk(job[t])

\* A description is for an instance of a role.
AskOk(j) == j.at \in {"check", "describe"} => j.then \in Roles \X Arns \X BOOLEAN

AskInv == \A t \in Threads : AskOk(job[t])

\* How many picks ago the cursor, now behind the place c of n, was behind k.
Ago(n, c, k) == IF k <= c THEN c - k ELSE c - k + n

\* The cursor of a role is behind the instance that was picked last, and none
\* was passed over more often than the cursor has moved since it was there.
WaitsOk(fleet, c, w) ==
  /\ c \in 1 .. Len(fleet)
  /\ \A k \in 1 .. Len(fleet) : w[fleet[k]] <= Ago(Len(fleet), c, k)

CursorInv ==
  \A r \in Roles : last[r] # <<>> => WaitsOk(last[r], cursor[r], waits[r])

FleetInv == FleetTypeOK /\ CalmInv /\ AskInv /\ CursorInv

\* What the settings hold is what a request is about to dump while it is the
\* only one, else what the file has.
HeldInv ==
  /\ Held \in Stores
  /\ ~calm \/ (\A t \in Threads : job[t].at # "dump") => Held = Loaded
  /\ \A t \in Threads : calm /\ job[t].at = "dump" => Held = job[t].edit

---------------------------------------------------------------------------
\* A set of numbers has a least one.
LEMMA LeastNumber ==
  ASSUME NEW S \in SUBSET Nat, S # {}
  PROVE  Min(S) \in S /\ \A n \in S : Min(S) <= n
<1>1. PICK x \in S : \A y \in S : <<y, x>> \notin OpToRel(<, Nat)
  BY NatLessThanWellFounded, WFMin
<1>2. \A y \in S : ~ (y < x)
  BY <1>1, Zenon DEF OpToRel
<1>3. \A y \in S : x <= y
  BY <1>2
<1> QED
  BY <1>3 DEF Min

---------------------------------------------------------------------------
\* Fleets of instances.

\* A sequence that has no instance twice is no longer than there are instances.
LEMMA FleetIs ==
  ASSUME NEW f
  PROVE  f \in Fleets <=> f \in Seq(Arns) /\ IsInjective(f)
<1>0. Cardinality(Arns) \in Nat
  BY FleetAssumption, FS_CardinalityType
<1>1. ASSUME f \in Fleets
      PROVE  f \in Seq(Arns) /\ IsInjective(f)
  <2>1. PICK n \in 0 .. Cardinality(Arns) : f \in [1 .. n -> Arns]
    BY <1>1 DEF Fleets, BoundedSeq, SeqOf
  <2>2. n \in Nat
    BY <1>0
  <2> QED
    BY <1>1, <2>1, <2>2, SeqDef DEF Fleets
<1>2. ASSUME f \in Seq(Arns), IsInjective(f)
      PROVE  f \in Fleets
  <2>1. PICK n \in Nat : n = Len(f)
    BY <1>2
  <2>2. f \in [1 .. n -> Arns]
    BY <1>2, <2>1
  <2>3. f \in Injection(1 .. n, Arns)
    BY <1>2, <2>2 DEF Injection
  <2>4. Cardinality(1 .. n) <= Cardinality(Arns)
    BY <2>3, FS_Injection, FleetAssumption
  <2>5. Cardinality(1 .. n) = n
    <3>1. 1 \in Int /\ n \in Int /\ n - 1 + 1 = n /\ (1 > n => n = 0)
      BY <2>1
    <3>2. Cardinality(1 .. n) = IF 1 > n THEN 0 ELSE n - 1 + 1
      BY <3>1, FS_Interval
    <3> QED
      BY <3>1, <3>2
  <2>6. n \in 0 .. Cardinality(Arns)
    BY <1>0, <2>4, <2>5
  <2> QED
    BY <1>2, <2>2, <2>6 DEF Fleets, BoundedSeq, SeqOf
<1> QED
  BY <1>1, <1>2

\* No instance is a fleet, and so is each instance.
LEMMA SmallFleets ==
  <<>> \in Fleets /\ \A a \in Arns : <<a>> \in Fleets
<1>1. <<>> \in Fleets
  <2>1. <<>> \in Seq(Arns) /\ IsInjective(<<>>)
    BY DEF IsInjective
  <2> QED
    BY <2>1, FleetIs
<1>2. ASSUME NEW a \in Arns
      PROVE  <<a>> \in Fleets
  <2>1. <<a>> \in Seq(Arns) /\ IsInjective(<<a>>)
    BY DEF IsInjective
  <2> QED
    BY <2>1, FleetIs
<1> QED
  BY <1>1, <1>2

\* An instance that is added comes last, and only if it is not there.
LEMMA LongerFleet ==
  ASSUME NEW f \in Fleets, NEW a \in Arns, NEW g,
         g = IF a \in ToSet(f) THEN f ELSE Append(f, a)
  PROVE  g \in Fleets /\ IsPrefix(f, g) /\ ToSet(g) = ToSet(f) \cup {a}
<1>0. /\ f \in Seq(Arns) /\ IsInjective(f) /\ Len(f) \in Nat
      /\ DOMAIN f = 1 .. Len(f)
  BY FleetIs
<1>1. CASE a \in ToSet(f)
  <2>1. g = f
    BY <1>1
  <2>2. IsPrefix(f, f)
    BY <1>0 DEF IsPrefix
  <2> QED
    BY <1>1, <2>1, <2>2
<1>2. CASE a \notin ToSet(f)
  <2>0. g = Append(f, a)
    BY <1>2
  <2>1. g \in Seq(Arns) /\ IsInjective(g)
    BY <1>0, <1>2, <2>0, AppendFacts
  <2>2. /\ Len(g) = Len(f) + 1 /\ DOMAIN g = 1 .. Len(f) + 1
        /\ \A i \in 1 .. Len(f) : g[i] = f[i]
        /\ g[Len(f) + 1] = a
    BY <1>0, <2>0
  <2>3. ToSet(g) = ToSet(f) \cup {a}
    <3>1. ASSUME NEW i \in DOMAIN g
          PROVE  g[i] \in ToSet(f) \cup {a}
      BY <1>0, <2>2 DEF ToSet
    <3>2. ASSUME NEW i \in DOMAIN f
          PROVE  f[i] \in ToSet(g)
      BY <1>0, <2>2 DEF ToSet
    <3>3. a \in ToSet(g)
      BY <1>0, <2>2 DEF ToSet
    <3> QED
      BY <3>1, <3>2, <3>3 DEF ToSet
  <2>4. SubSeq(g, 1, Len(f)) = SubSeq(f, 1, Len(f))
    <3> DEFINE x == SubSeq(g, 1, Len(f))
               y == SubSeq(f, 1, Len(f))
    <3>1. /\ x \in Seq(Arns) /\ Len(x) = Len(f)
          /\ \A i \in 1 .. Len(f) : x[i] = g[i]
      BY <1>0, <2>1, <2>2
    <3>2. /\ y \in Seq(Arns) /\ Len(y) = Len(f)
          /\ \A i \in 1 .. Len(f) : y[i] = f[i]
      BY <1>0
    <3> HIDE DEF x, y
    <3>3. x = y
      BY <2>2, <3>1, <3>2, SeqEqual
    <3> QED
      BY <3>3 DEF x, y
  <2>5. IsPrefix(f, g)
    BY <1>0, <2>2, <2>4 DEF IsPrefix
  <2> QED
    BY <2>1, <2>3, <2>5, FleetIs
<1> QED
  BY <1>1, <1>2

\* A fleet without one of its instances is a fleet.
LEMMA ShorterFleet ==
  ASSUME NEW f \in Fleets, NEW e
  PROVE  RemoveFirst(f, e) \in Fleets
<1>0. f \in Seq(Arns) /\ Len(f) \in Nat
  BY FleetIs
<1>3. \A x, y \in 1 .. Len(f) : f[x] = f[y] => x = y
  BY <1>0, FleetIs DEF IsInjective
<1>1. CASE ~ \E i \in 1 .. Len(f) : f[i] = e
  BY <1>1 DEF RemoveFirst
<1>2. CASE \E i \in 1 .. Len(f) : f[i] = e
  <2> DEFINE I == {i \in 1 .. Len(f) : f[i] = e}
             n == Min(I)
             a == SubSeq(f, 1, n - 1)
             b == SubSeq(f, n + 1, Len(f))
             r == a \o b
  <2>1. I \in SUBSET Nat /\ I # {}
    BY <1>2
  <2>2. RemoveFirst(f, e) = r
    BY <1>2, <2>1 DEF RemoveFirst, RemoveAt, SelectInSeq
  <2>3. n \in I
    BY <2>1, LeastNumber
  <2> HIDE DEF n
  <2>4. n \in 1 .. Len(f)
    BY <2>3
  <2>5. /\ a \in Seq(Arns) /\ Len(a) = n - 1
        /\ \A i \in 1 .. n - 1 : a[i] = f[i]
    BY <1>0, <2>4
  <2>6. /\ b \in Seq(Arns) /\ Len(b) = Len(f) - n
        /\ \A i \in 1 .. Len(f) - n : b[i] = f[i + n]
    BY <1>0, <2>4
  <2> HIDE DEF I, a, b
  <2>7. /\ r \in Seq(Arns) /\ Len(r) = Len(a) + Len(b)
        /\ \A i \in 1 .. Len(a) + Len(b) :
             r[i] = IF i <= Len(a) THEN a[i] ELSE b[i - Len(a)]
    BY <2>5, <2>6, ConcatProperties
  <2> HIDE DEF r
  <2>8. DOMAIN r = 1 .. Len(f) - 1
    BY <1>0, <2>4, <2>5, <2>6, <2>7
  <2>9. \A i \in 1 .. Len(f) - 1 : r[i] = IF i < n THEN f[i] ELSE f[i + 1]
    <3>1. \A i \in 1 .. Len(f) - 1 : r[i] = IF i <= n - 1 THEN a[i] ELSE b[i - (n - 1)]
      BY <1>0, <2>4, <2>5, <2>6, <2>7
    <3> QED
      BY <1>0, <2>4, <2>5, <2>6, <3>1
  <2>10. ASSUME NEW i \in 1 .. Len(f) - 1, NEW j \in 1 .. Len(f) - 1, r[i] = r[j]
         PROVE  i = j
    <3>1. PICK x \in 1 .. Len(f) : x = (IF i < n THEN i ELSE i + 1) /\ r[i] = f[x]
      BY <1>0, <2>4, <2>9
    <3>2. PICK y \in 1 .. Len(f) : y = (IF j < n THEN j ELSE j + 1) /\ r[j] = f[y]
      BY <1>0, <2>4, <2>9
    <3>3. x = y
      BY <1>3, <2>10, <3>1, <3>2
    <3> QED
      BY <2>4, <3>1, <3>2, <3>3
  <2>11. IsInjective(r)
    BY <2>8, <2>10 DEF IsInjective
  <2> QED
    BY <2>2, <2>7, <2>11, FleetIs
<1> QED
  BY <1>1, <1>2

---------------------------------------------------------------------------
\* Requests and their jobs.

\* What is read from the file is settings, even when it is cut.
LEMMA LoadedIs ==
  ASSUME FleetTypeOK
  PROVE  Empty \in Stores /\ Loaded \in Stores
<1>1. Empty \in Stores
  BY SmallFleets DEF Empty, Stores
<1> QED
  BY <1>1 DEF FleetTypeOK, Loaded

\* Settings and their two parts.
LEMMA StoreIs ==
  ASSUME NEW s \in Stores
  PROVE  /\ s.fleets \in [Roles -> Fleets] /\ s.described \in SUBSET Arns
         /\ s = [fleets |-> s.fleets, described |-> s.described]
  BY DEF Stores

\* What replaces one part of the settings leaves the other.
LEMMA PutParts ==
  ASSUME NEW s \in Stores, NEW x
  PROVE  /\ [s EXCEPT !.fleets = x] = [fleets |-> x, described |-> s.described]
         /\ [s EXCEPT !.described = x] = [fleets |-> s.fleets, described |-> x]
  BY DEF Stores

\* A role resolves to instances, wherever they are looked up.
LEMMA InstancesAre ==
  ASSUME FleetTypeOK, NEW r \in Roles
  PROVE  Instances(r) \in Seq(Arns)
<1>1. Loaded.fleets[r] \in Seq(Arns)
  BY LoadedIs, StoreIs, FleetIs
<1>2. Environ[r] \in Seq(Arns)
  BY FleetAssumption
<1>3. r \in deployed => <<Deployable[r]>> \in Seq(Arns)
  BY FleetAssumption DEF FleetTypeOK
<1>4. <<>> \in Seq(Arns)
  OBVIOUS
<1> QED
  BY <1>1, <1>2, <1>3, <1>4 DEF Instances

\* The jobs with which a request begins that edits nothing at once.
LEMMA IdleJobs ==
  /\ Idle \in Jobs /\ Idle.at = "idle"
  /\ \A then \in {<<>>} \cup Roles \X Arns \X BOOLEAN :
       LET j == [Idle EXCEPT !.at = "check", !.then = then] IN
       j \in Jobs /\ j.at = "check" /\ j.then = then
  /\ LET j == [Idle EXCEPT !.at = "drop"] IN j \in Jobs /\ j.at = "drop"
<1>1. Empty \in Stores
  BY SmallFleets DEF Empty, Stores
<1> QED
  BY <1>1 DEF Idle, Jobs

\* The job of a request that has edited the fleets.
LEMMA MergeJob ==
  ASSUME FleetTypeOK, NEW fleets \in [Roles -> Fleets],
         NEW then \in {<<>>} \cup Roles \X Arns \X BOOLEAN, NEW e,
         e = [fleets |-> fleets, described |-> Loaded.described],
         Becomes(Loaded.fleets, Loaded.described, e)
  PROVE  LET j == Edited(fleets, then) IN
         j \in Jobs /\ j.at = "merge" /\ JobOk(j)
<1>1. Edited(fleets, then)
        = [at |-> "merge", edit |-> [fleets |-> fleets, described |-> {}], then |-> then]
  <2>1. [Empty EXCEPT !.fleets = fleets] = [fleets |-> fleets, described |-> {}]
    <3>1. PICK s \in Stores : s = Empty /\ s.described = {}
      BY LoadedIs DEF Empty
    <3>2. [s EXCEPT !.fleets = fleets] = [fleets |-> fleets, described |-> s.described]
      BY PutParts
    <3> QED
      BY <3>1, <3>2
  <2> QED
    BY <2>1 DEF Edited
<1>2. PICK edit \in Stores : edit = [fleets |-> fleets, described |-> {}]
  BY DEF Stores
<1>3. PICK j \in Jobs : /\ j = Edited(fleets, then)
                        /\ j.at = "merge" /\ j.edit = edit /\ j.then = then
  <2>1. PICK j : j = [at |-> "merge", edit |-> edit, then |-> then]
    OBVIOUS
  <2>2. j \in Jobs /\ j.at = "merge" /\ j.edit = edit /\ j.then = then
    BY <2>1 DEF Jobs
  <2>3. j = Edited(fleets, then)
    BY <1>1, <1>2, <2>1
  <2> QED
    BY <2>2, <2>3
<1>4. [j.edit EXCEPT !.described = Loaded.described] = e
  BY <1>2, <1>3
<1>5. JobOk(j)
  BY <1>3, <1>4 DEF JobOk
<1> QED
  BY <1>3, <1>5

\* The description that comes with an instance.
LEMMA ThenIs ==
  ASSUME NEW r \in Roles, NEW a \in Arns
  PROVE  <<r, a, TRUE>> \in Roles \X Arns \X BOOLEAN
<1>1. PICK text \in BOOLEAN : text = TRUE
  OBVIOUS
<1>2. <<r, a, text>> \in Roles \X Arns \X BOOLEAN
  OBVIOUS
<1> QED
  BY <1>1, <1>2, Zenon

\* Every request begins with a job of its kind, which may be carried out.
LEMMA RequestBegins ==
  ASSUME FleetTypeOK, NEW t \in Threads, Request(t)
  PROVE  \E j \in Jobs : /\ Begin(t, j) /\ JobOk(j) /\ AskOk(j)
                         /\ j.at \in {"drop", "check", "merge"}
<1>1. PICK f \in [Roles -> Fleets], d \in SUBSET Arns : f = Loaded.fleets /\ d = Loaded.described
  BY LoadedIs, StoreIs
<1> DEFINE Triple == {<<>>} \cup Roles \X Arns \X BOOLEAN
<1>2. ASSUME NEW fleets \in [Roles -> Fleets], NEW then \in Triple,
             Begin(t, Edited(fleets, then)),
             Becomes(f, d, [fleets |-> fleets, described |-> d])
      PROVE  \E j \in Jobs : /\ Begin(t, j) /\ JobOk(j) /\ AskOk(j)
                             /\ j.at \in {"drop", "check", "merge"}
  <2>1. PICK e : e = [fleets |-> fleets, described |-> Loaded.described]
    OBVIOUS
  <2>2. Becomes(Loaded.fleets, Loaded.described, e)
    BY <1>1, <1>2, <2>1
  <2>3. PICK j : j = Edited(fleets, then)
    OBVIOUS
  <2>4. j \in Jobs /\ j.at = "merge" /\ JobOk(j)
    BY <2>1, <2>2, <2>3, MergeJob
  <2> QED
    BY <1>2, <2>3, <2>4 DEF AskOk
<1>3. ASSUME Begin(t, [Idle EXCEPT !.at = "drop"])
      PROVE  \E j \in Jobs : /\ Begin(t, j) /\ JobOk(j) /\ AskOk(j)
                             /\ j.at \in {"drop", "check", "merge"}
  <2>1. PICK j \in Jobs : j = [Idle EXCEPT !.at = "drop"] /\ j.at = "drop"
    BY IdleJobs
  <2> QED
    BY <1>3, <2>1 DEF JobOk, AskOk
<1>4. CASE ClearEverything(t)
  BY <1>3, <1>4 DEF ClearEverything
<1>5. ASSUME NEW r \in Roles, NEW g \in Fleets, NEW then \in Triple, NEW a \in Arns,
             Begin(t, Edited([f EXCEPT ![r] = g], then)),
             \/ g = <<a>> \/ g = RemoveFirst(f[r], a)
             \/ IsPrefix(f[r], g) /\ ToSet(g) = ToSet(f[r]) \cup {a}
      PROVE  \E j \in Jobs : /\ Begin(t, j) /\ JobOk(j) /\ AskOk(j)
                             /\ j.at \in {"drop", "check", "merge"}
  <2>1. PICK fleets \in [Roles -> Fleets] : fleets = [f EXCEPT ![r] = g]
    OBVIOUS
  <2>2. Becomes(f, d, [fleets |-> fleets, described |-> d])
    BY <1>5, <2>1 DEF Becomes
  <2> QED
    BY <1>2, <1>5, <2>1, <2>2
<1>6. ASSUME NEW r \in Roles, ClearRuntime(t, r)
      PROVE  \E j \in Jobs : /\ Begin(t, j) /\ JobOk(j) /\ AskOk(j)
                             /\ j.at \in {"drop", "check", "merge"}
  <2>1. PICK fleets \in [Roles -> Fleets] : fleets = [f EXCEPT ![r] = <<>>]
    BY SmallFleets
  <2>2. CASE fleets = Empty.fleets
    BY <1>1, <1>3, <1>6, <2>1, <2>2 DEF ClearRuntime
  <2>3. CASE fleets # Empty.fleets
    <3>1. Begin(t, Edited(fleets, <<>>))
      BY <1>1, <1>6, <2>1, <2>3 DEF ClearRuntime
    <3>2. Becomes(f, d, [fleets |-> fleets, described |-> d])
      BY <2>1, <2>3 DEF Becomes
    <3> QED
      BY <1>2, <3>1, <3>2
  <2> QED
    BY <2>2, <2>3
<1>7. ASSUME NEW r \in Roles, NEW a \in Arns, RemoveRuntime(t, r, a)
      PROVE  \E j \in Jobs : /\ Begin(t, j) /\ JobOk(j) /\ AskOk(j)
                             /\ j.at \in {"drop", "check", "merge"}
  <2>1. PICK g \in Fleets : g = RemoveFirst(f[r], a)
    BY ShorterFleet
  <2>2. Begin(t, Edited([f EXCEPT ![r] = g], <<>>))
    BY <1>1, <1>7, <2>1 DEF RemoveRuntime
  <2> QED
    BY <1>5, <2>1, <2>2
<1>8. ASSUME NEW r \in Roles, NEW a \in Arns, NEW then \in {<<>>, <<r, a, TRUE>>},
             SaveRuntime(t, r, a, then)
      PROVE  \E j \in Jobs : /\ Begin(t, j) /\ JobOk(j) /\ AskOk(j)
                             /\ j.at \in {"drop", "check", "merge"}
  <2>1. <<a>> \in Fleets /\ then \in Triple
    BY SmallFleets, ThenIs
  <2>2. Begin(t, Edited([f EXCEPT ![r] = <<a>>], then))
    BY <1>1, <1>8 DEF SaveRuntime
  <2> QED
    BY <1>5, <2>1, <2>2
<1>9. ASSUME NEW r \in Roles, NEW a \in Arns, NEW then \in {<<>>, <<r, a, TRUE>>},
             AddRuntime(t, r, a, then)
      PROVE  \E j \in Jobs : /\ Begin(t, j) /\ JobOk(j) /\ AskOk(j)
                             /\ j.at \in {"drop", "check", "merge"}
  <2>0. then \in Triple
    BY ThenIs
  <2>1. PICK g : g = IF a \in ToSet(f[r]) THEN f[r] ELSE Append(f[r], a)
    OBVIOUS
  <2>2. g \in Fleets /\ IsPrefix(f[r], g) /\ ToSet(g) = ToSet(f[r]) \cup {a}
    BY <2>1, LongerFleet
  <2>3. Begin(t, Edited([f EXCEPT ![r] = g], then))
    BY <1>1, <1>9, <2>1 DEF AddRuntime
  <2> QED
    BY <1>5, <2>0, <2>2, <2>3
<1>10. ASSUME NEW r \in Roles, NEW a \in Arns, NEW text \in BOOLEAN, SaveDescription(t, r, a, text)
       PROVE  \E j \in Jobs : /\ Begin(t, j) /\ JobOk(j) /\ AskOk(j)
                              /\ j.at \in {"drop", "check", "merge"}
  <2>1. PICK then \in Roles \X Arns \X BOOLEAN : then = <<r, a, text>>
    OBVIOUS
  <2>2. PICK j \in Jobs : /\ j = [Idle EXCEPT !.at = "check", !.then = then]
                          /\ j.at = "check" /\ j.then = then
    BY IdleJobs
  <2>3. Begin(t, j)
    BY <1>10, <2>1, <2>2 DEF SaveDescription
  <2> QED
    BY <2>1, <2>2, <2>3 DEF JobOk, AskOk
<1> QED
  BY <1>4, <1>6, <1>7, <1>8, <1>9, <1>10 DEF Request

\* The steps of a request.
LEMMA FleetMoves ==
  ASSUME FleetTypeOK, [FleetNext]_fleetVars
  PROVE  \/ UNCHANGED <<settings, job, calm>>
         \/ \E t \in Threads, j \in Jobs :
              Begin(t, j) /\ JobOk(j) /\ AskOk(j) /\ j.at \in {"drop", "check", "merge"}
         \/ \E t \in Threads : Step(t)
         \/ Restart
<1>1. CASE \E t \in Threads : Request(t)
  BY <1>1, RequestBegins
<1>2. CASE \E p \in Pickers : Pick(p) \/ \E r \in Roles : LookUp(p, r)
  BY <1>2 DEF Pick, LookUp
<1>3. CASE \E r \in DOMAIN Deployable : Deploy(r)
  BY <1>3 DEF Deploy
<1>4. CASE UNCHANGED fleetVars
  BY <1>4 DEF fleetVars
<1> QED
  BY <1>1, <1>2, <1>3, <1>4 DEF FleetNext

\* Jobs go on,
LEMMA JobAt ==
  ASSUME NEW j \in Jobs, NEW at \in {"describe", "dump", "mangle", "lost"}
  PROVE  LET k == [j EXCEPT !.at = at] IN
         k \in Jobs /\ k.at = at /\ k.edit = j.edit /\ k.then = j.then
  BY DEF Jobs

\* ... have edited the descriptions,
LEMMA JobReloads ==
  ASSUME NEW e \in Stores
  PROVE  LET k == [at |-> "reload", edit |-> e, then |-> <<>>] IN
         k \in Jobs /\ k.at = "reload" /\ k.edit = e
  BY DEF Jobs

\* ... have all of what they write,
LEMMA JobOpens ==
  ASSUME NEW j \in Jobs, NEW e \in Stores
  PROVE  LET k == [j EXCEPT !.at = "open", !.edit = e] IN
         k \in Jobs /\ k.at = "open" /\ k.edit = e
  BY DEF Jobs

\* ... which is one part of their own and one that they have read.
LEMMA JobMerges ==
  ASSUME NEW j \in Jobs, NEW e \in Stores
  PROVE  /\ LET k == [j EXCEPT !.at = "open", !.edit.fleets = e.fleets] IN
            k \in Jobs /\ k.at = "open" /\ k.edit = [j.edit EXCEPT !.fleets = e.fleets]
         /\ LET k == [j EXCEPT !.at = "open", !.edit.described = e.described] IN
            k \in Jobs /\ k.at = "open" /\ k.edit = [j.edit EXCEPT !.described = e.described]
<1>1. j.edit \in Stores
  BY DEF Jobs
<1>2. PICK x \in Stores : x = [j.edit EXCEPT !.fleets = e.fleets]
  BY <1>1, StoreIs DEF Stores
<1>3. PICK y \in Stores : y = [j.edit EXCEPT !.described = e.described]
  BY <1>1, StoreIs DEF Stores
<1>4. /\ [j EXCEPT !.at = "open", !.edit.fleets = e.fleets] = [j EXCEPT !.at = "open", !.edit = x]
      /\ [j EXCEPT !.at = "open", !.edit.described = e.described]
           = [j EXCEPT !.at = "open", !.edit = y]
  BY <1>2, <1>3 DEF Jobs
<1>5. /\ LET k == [j EXCEPT !.at = "open", !.edit = x] IN
         k \in Jobs /\ k.at = "open" /\ k.edit = x
      /\ LET k == [j EXCEPT !.at = "open", !.edit = y] IN
         k \in Jobs /\ k.at = "open" /\ k.edit = y
  BY JobOpens
<1> QED
  BY <1>2, <1>3, <1>4, <1>5

\* What a step of t does to the jobs: t gets another one.
LEMMA GoOnJobs ==
  ASSUME FleetTypeOK, NEW t \in Threads, NEW j \in Jobs, job' = [job EXCEPT ![t] = j]
  PROVE  /\ job' \in [Threads -> Jobs] /\ job'[t] = j
         /\ \A s \in Threads : s # t => job'[s] = job[s]
  BY DEF FleetTypeOK

\* The jobs as t leaves them where it goes on by itself.
LEMMA SmallSteps ==
  ASSUME FleetTypeOK, AskInv, NEW t \in Threads,
         CheckWired(t) \/ EditDescriptions(t) \/ Reload(t) \/ MergeDescriptions(t) \/ Truncate(t)
  PROVE  \E j \in Jobs :
           /\ GoOn(t, j) /\ AskOk(j) /\ j.at \in {"idle", "describe", "reload", "open", "dump"}
           /\ \/ UNCHANGED settings /\ j.at # "dump"
              \/ settings' = Cut /\ job[t].at = "open" /\ j.at = "dump" /\ j.edit = job[t].edit
           /\ j.at = "reload" => Becomes(Loaded.fleets, Loaded.described,
                                         [j.edit EXCEPT !.fleets = Loaded.fleets])
           /\ j.at = "open" =>
                \/ job[t].at = "merge" /\ j.edit = [job[t].edit EXCEPT !.described = Loaded.described]
                \/ job[t].at = "reload" /\ j.edit = [job[t].edit EXCEPT !.fleets = Loaded.fleets]
<1>0. PICK i \in Jobs, e \in Stores : i = job[t] /\ e = Loaded
  BY LoadedIs DEF FleetTypeOK
<1>1. CASE CheckWired(t)
  <2>1. i.then \in Roles \X Arns \X BOOLEAN
    BY <1>0, <1>1 DEF CheckWired, AskInv, AskOk
  <2>2. PICK j \in Jobs : j = [i EXCEPT !.at = "describe"] /\ j.at = "describe" /\ j.then = i.then
    BY JobAt
  <2>3. PICK k \in Jobs : k = Idle /\ k.at = "idle"
    BY IdleJobs
  <2>4. (GoOn(t, j) \/ GoOn(t, k)) /\ UNCHANGED settings
    BY <1>0, <1>1, <2>2, <2>3 DEF CheckWired
  <2> QED
    BY <2>1, <2>2, <2>3, <2>4 DEF AskOk
<1>2. CASE EditDescriptions(t)
  <2>1. i.then \in Roles \X Arns \X BOOLEAN
    BY <1>0, <1>2 DEF EditDescriptions, AskInv, AskOk
  <2>2. PICK a \in Arns : a = i.then[2]
    BY <2>1
  <2>3. PICK d \in SUBSET Arns : d = IF i.then[3] THEN e.described \cup {a} ELSE e.described \ {a}
    BY StoreIs
  <2>4. PICK x \in Stores : x = [Empty EXCEPT !.described = d]
    BY LoadedIs DEF Stores
  <2>5. PICK j \in Jobs : /\ j = [at |-> "reload", edit |-> x, then |-> <<>>]
                          /\ j.at = "reload" /\ j.edit = x
    BY JobReloads
  <2>6. GoOn(t, j) /\ UNCHANGED settings
    BY <1>0, <1>2, <2>2, <2>3, <2>4, <2>5 DEF EditDescriptions
  <2>7. PICK y : y = [x EXCEPT !.fleets = e.fleets]
    OBVIOUS
  <2>8. y.fleets = e.fleets /\ y.described = d
    BY <2>4, <2>7, LoadedIs DEF Stores
  <2>9. Becomes(e.fleets, e.described, y)
    BY <2>3, <2>8 DEF Becomes
  <2> QED
    BY <1>0, <2>5, <2>6, <2>7, <2>9 DEF AskOk
<1>3. CASE Reload(t)
  <2>1. PICK j \in Jobs : /\ j = [i EXCEPT !.at = "open", !.edit.fleets = e.fleets]
                          /\ j.at = "open" /\ j.edit = [i.edit EXCEPT !.fleets = e.fleets]
    BY JobMerges
  <2>2. GoOn(t, j) /\ UNCHANGED settings /\ job[t].at = "reload"
    BY <1>0, <1>3, <2>1 DEF Reload
  <2> QED
    BY <1>0, <2>1, <2>2 DEF AskOk
<1>4. CASE MergeDescriptions(t)
  <2>1. PICK j \in Jobs : /\ j = [i EXCEPT !.at = "open", !.edit.described = e.described]
                          /\ j.at = "open" /\ j.edit = [i.edit EXCEPT !.described = e.described]
    BY JobMerges
  <2>2. GoOn(t, j) /\ UNCHANGED settings /\ job[t].at = "merge"
    BY <1>0, <1>4, <2>1 DEF MergeDescriptions
  <2> QED
    BY <1>0, <2>1, <2>2 DEF AskOk
<1>5. CASE Truncate(t)
  <2>1. PICK j \in Jobs : j = [i EXCEPT !.at = "dump"] /\ j.at = "dump" /\ j.edit = i.edit
    BY JobAt
  <2>2. GoOn(t, j) /\ settings' = Cut /\ job[t].at = "open"
    BY <1>0, <1>5, <2>1 DEF Truncate
  <2> QED
    BY <1>0, <2>1, <2>2 DEF AskOk
<1> QED
  BY <1>1, <1>2, <1>3, <1>4, <1>5

\* Dumping and dropping, and a restart, leave jobs that have begun no edit.
LEMMA LargeSteps ==
  ASSUME FleetTypeOK, AskInv, NEW t \in Threads, Drop(t) \/ Dump(t)
  PROVE  /\ settings' \in Stores \cup {Cut}
         /\ job' \in [Threads -> Jobs]
         /\ calm' \in BOOLEAN
         /\ AskInv'
         /\ job'[t].at \in {"idle", "check"}
         /\ \A s \in Threads : s # t /\ job[s].at = "idle" => job'[s].at = "idle"
         /\ Drop(t) => settings' = Empty /\ job'[t].at = "idle"
         /\ Dump(t) /\ job[t].at = "dump" => settings' = job[t].edit
<1>0. /\ job \in [Threads -> Jobs] /\ calm \in BOOLEAN /\ settings \in Stores \cup {Cut}
      /\ \A s \in Threads : job[s] \in Jobs /\ job[s].edit \in Stores
                            /\ job[s].then \in {<<>>} \cup Roles \X Arns \X BOOLEAN
                            /\ AskOk(job[s])
  <2>1. /\ job \in [Threads -> Jobs] /\ calm \in BOOLEAN /\ settings \in Stores \cup {Cut}
        /\ \A s \in Threads : job[s] \in Jobs /\ AskOk(job[s])
    BY DEF FleetTypeOK, AskInv
  <2> QED
    BY <2>1 DEF Jobs
<1>1. PICK idle \in Jobs : idle = Idle /\ idle.at = "idle"
  BY IdleJobs
<1>2. CASE Drop(t)
  <2>1. settings' = Empty /\ Empty \in Stores /\ calm' \in BOOLEAN
    BY <1>0, <1>2, LoadedIs DEF Drop
  <2>2. job' = [s \in Threads |->
                  IF s = t THEN idle
                  ELSE IF job[s].at \in {"dump", "mangle"} THEN [job[s] EXCEPT !.at = "lost"]
                  ELSE job[s]]
    BY <1>1, <1>2 DEF Drop
  <2>3. ASSUME NEW s \in Threads
        PROVE  /\ job'[s] \in Jobs /\ AskOk(job'[s])
               /\ s # t /\ job[s].at = "idle" => job'[s].at = "idle"
    <3>1. PICK k \in Jobs : k = [job[s] EXCEPT !.at = "lost"] /\ k.at = "lost"
      BY <1>0, JobAt
    <3>2. AskOk(k) /\ AskOk(idle)
      BY <1>1, <3>1 DEF AskOk
    <3> QED
      BY <1>0, <2>2, <3>1, <3>2
  <2>4. job' \in [Threads -> Jobs] /\ AskInv'
    BY <2>2, <2>3 DEF AskInv
  <2>5. job'[t] = idle /\ job[t].at # "dump"
    BY <1>2, <2>2 DEF Drop
  <2> QED
    BY <1>1, <2>1, <2>3, <2>4, <2>5 DEF Dump
<1>3. CASE Dump(t)
  <2>1. /\ settings' \in Stores \cup {Cut} /\ calm' \in BOOLEAN
        /\ job[t].at = "dump" => settings' = job[t].edit
    <3>1. /\ job[t].at \in {"dump", "mangle", "lost"}
          /\ settings' \in CASE job[t].at = "dump" -> {job[t].edit}
                             [] job[t].at = "mangle" -> {job[t].edit, Cut}
                             [] job[t].at = "lost" -> {settings}
      BY <1>3 DEF Dump
    <3>2. calm' \in BOOLEAN
      BY <1>0, <1>3 DEF Dump
    <3> QED
      BY <1>0, <3>1, <3>2
  <2>2. PICK k \in Jobs : /\ k = IF job[t].then = <<>> THEN idle
                                 ELSE [Idle EXCEPT !.at = "check", !.then = job[t].then]
                          /\ k.at \in {"idle", "check"} /\ AskOk(k)
    <3>1. CASE job[t].then = <<>>
      BY <1>1, <3>1 DEF AskOk
    <3>2. CASE job[t].then # <<>>
      <4>1. PICK x \in Roles \X Arns \X BOOLEAN : x = job[t].then
        BY <1>0, <3>2
      <4>2. PICK j \in Jobs : /\ j = [Idle EXCEPT !.at = "check", !.then = x]
                              /\ j.at = "check" /\ j.then = x
        BY IdleJobs
      <4> QED
        BY <3>2, <4>1, <4>2 DEF AskOk
    <3> QED
      BY <3>1, <3>2
  <2>3. job' = [s \in Threads |->
                  IF s = t THEN k
                  ELSE IF job[s].at = "dump" /\ job[t].at # "lost"
                  THEN [job[s] EXCEPT !.at = "mangle"] ELSE job[s]]
    BY <1>1, <1>3, <2>2 DEF Dump
  <2>4. ASSUME NEW s \in Threads
        PROVE  /\ job'[s] \in Jobs /\ AskOk(job'[s])
               /\ s # t /\ job[s].at = "idle" => job'[s].at = "idle"
    <3>1. PICK m \in Jobs : m = [job[s] EXCEPT !.at = "mangle"] /\ m.at = "mangle"
      BY <1>0, JobAt
    <3>2. AskOk(m)
      BY <3>1 DEF AskOk
    <3> QED
      BY <1>0, <2>2, <2>3, <3>1, <3>2
  <2>5. job' \in [Threads -> Jobs] /\ AskInv'
    BY <2>3, <2>4 DEF AskInv
  <2>6. job'[t] = k /\ ~Drop(t)
    BY <1>3, <2>3 DEF Drop, Dump
  <2> QED
    BY <2>1, <2>2, <2>4, <2>5, <2>6
<1> QED
  BY <1>2, <1>3

\* A step of t that leaves nobody else disturbed.
LEMMA JobStep ==
  ASSUME FleetTypeOK, AskInv, CalmInv, [FleetNext]_fleetVars
  PROVE  /\ settings' \in Stores \cup {Cut}
         /\ job' \in [Threads -> Jobs]
         /\ calm' \in BOOLEAN
         /\ AskInv' /\ CalmInv'
<1>0. /\ job \in [Threads -> Jobs] /\ calm \in BOOLEAN /\ settings \in Stores \cup {Cut}
      /\ \A s \in Threads : job[s] \in Jobs
  BY DEF FleetTypeOK
<1>r. ASSUME \A s \in Threads : job'[s].at = "idle"
      PROVE  CalmInv'
  BY <1>r DEF CalmInv, Busy, JobOk
<1>t. ASSUME NEW t \in Threads, calm' => \A s \in Threads : s # t => job'[s].at = "idle",
             calm' => JobOk(job[t])'
      PROVE  CalmInv'
  BY <1>t DEF CalmInv, Busy, JobOk
<1>c. ASSUME NEW t \in Threads, calm, job[t].at # "idle"
      PROVE  \A s \in Threads : s # t => job[s].at = "idle"
  BY <1>c DEF CalmInv, Busy
<1>1. CASE UNCHANGED <<settings, job, calm>>
  BY <1>0, <1>1 DEF AskInv, CalmInv, JobOk, Busy, Loaded
<1>2. ASSUME NEW t \in Threads, NEW j \in Jobs,
             Begin(t, j), JobOk(j), AskOk(j), j.at \in {"drop", "check", "merge"}
      PROVE  /\ settings' \in Stores \cup {Cut} /\ job' \in [Threads -> Jobs]
             /\ calm' \in BOOLEAN /\ AskInv' /\ CalmInv'
  <2>1. /\ job' = [job EXCEPT ![t] = j] /\ calm' = (calm /\ Busy = {})
        /\ UNCHANGED settings
    BY <1>2 DEF Begin
  <2>2. /\ job' \in [Threads -> Jobs] /\ job'[t] = j
        /\ \A s \in Threads : s # t => job'[s] = job[s]
    BY <2>1, GoOnJobs
  <2>3. AskInv'
    BY <1>2, <2>2 DEF AskInv
  <2>4. calm' => \A s \in Threads : s # t => job'[s].at = "idle"
    BY <2>1, <2>2 DEF Busy
  <2>5. JobOk(job[t])'
    BY <1>2, <2>1, <2>2 DEF JobOk, Loaded
  <2> QED
    BY <1>0, <1>t, <2>1, <2>2, <2>3, <2>4, <2>5
<1>3. ASSUME NEW t \in Threads, NEW j \in Jobs,
             GoOn(t, j), AskOk(j), j.at \in {"idle", "describe", "reload", "open", "dump"},
             job[t].at # "idle",
             \/ UNCHANGED settings /\ j.at # "dump"
             \/ settings' = Cut /\ job[t].at = "open" /\ j.at = "dump",
             j.at = "reload" => Becomes(Loaded.fleets, Loaded.described,
                                        [j.edit EXCEPT !.fleets = Loaded.fleets]),
             j.at = "open" =>
               \/ job[t].at = "merge" /\ j.edit = [job[t].edit EXCEPT !.described = Loaded.described]
               \/ job[t].at = "reload" /\ j.edit = [job[t].edit EXCEPT !.fleets = Loaded.fleets]
      PROVE  /\ settings' \in Stores \cup {Cut} /\ job' \in [Threads -> Jobs]
             /\ calm' \in BOOLEAN /\ AskInv' /\ CalmInv'
  <2>1. /\ job' = [job EXCEPT ![t] = j]
        /\ calm' = (calm \/ \A s \in Threads : job'[s].at = "idle")
    BY <1>3 DEF GoOn
  <2>2. /\ job' \in [Threads -> Jobs] /\ job'[t] = j
        /\ \A s \in Threads : s # t => job'[s] = job[s]
    BY <2>1, GoOnJobs
  <2>3. AskInv'
    BY <1>3, <2>2 DEF AskInv
  <2>4. CASE ~calm
    <3>1. ASSUME calm'
          PROVE  CalmInv'
      BY <1>r, <2>1, <2>4, <3>1
    <3>2. ASSUME ~calm'
          PROVE  CalmInv'
      BY <3>2 DEF CalmInv
    <3>3. CalmInv' /\ calm' \in BOOLEAN
      BY <2>1, <2>4, <3>1, <3>2
    <3> QED
      BY <1>0, <1>3, <2>2, <2>3, <3>3
  <2>5. CASE calm
    <3>1. \A s \in Threads : s # t => job'[s].at = "idle"
      BY <1>3, <1>c, <2>2, <2>5
    <3>2. JobOk(job[t])
      BY <2>5 DEF CalmInv
    <3>3. CASE UNCHANGED settings /\ j.at # "dump"
      <4>1. Loaded' = Loaded
        BY <3>3 DEF Loaded
      <4>2. j.at = "open" => Becomes(Loaded.fleets, Loaded.described, j.edit)
        BY <1>3, <3>2 DEF JobOk
      <4>3. j.at \notin {"merge", "mangle", "lost"}
        BY <1>3
      <4>4. JobOk(job[t])'
        BY <1>3, <2>2, <3>3, <4>1, <4>2, <4>3 DEF JobOk
      <4> QED
        BY <1>0, <1>t, <2>1, <2>2, <2>3, <2>5, <3>1, <3>3, <4>4
    <3>4. CASE settings' = Cut /\ job[t].at = "open" /\ j.at = "dump"
      <4>1. JobOk(job[t])'
        BY <2>2, <3>4 DEF JobOk
      <4> QED
        BY <1>0, <1>t, <2>1, <2>2, <2>3, <2>5, <3>1, <3>4, <4>1
    <3> QED
      BY <1>3, <3>3, <3>4
  <2> QED
    BY <1>0, <2>4, <2>5
<1>4. ASSUME NEW t \in Threads, Drop(t) \/ Dump(t)
      PROVE  /\ settings' \in Stores \cup {Cut} /\ job' \in [Threads -> Jobs]
             /\ calm' \in BOOLEAN /\ AskInv' /\ CalmInv'
  <2>1. /\ settings' \in Stores \cup {Cut}
        /\ job' \in [Threads -> Jobs]
        /\ calm' \in BOOLEAN
        /\ AskInv'
        /\ job'[t].at \in {"idle", "check"}
        /\ \A s \in Threads : s # t /\ job[s].at = "idle" => job'[s].at = "idle"
    BY <1>4, LargeSteps
  <2>2. calm' => \A s \in Threads : s # t => job[s].at = "idle"
    <3>1. job[t].at # "idle" /\ (calm' => calm \/ Busy = {t})
      BY <1>4 DEF Drop, Dump
    <3>2. CASE calm
      BY <1>c, <3>1, <3>2
    <3>3. CASE Busy = {t}
      BY <3>3 DEF Busy
    <3> QED
      BY <3>1, <3>2, <3>3
  <2>3. JobOk(job[t])'
    BY <2>1 DEF JobOk
  <2> QED
    BY <1>t, <2>1, <2>2, <2>3
<1>5. CASE Restart
  <2>1. /\ job' = [t \in Threads |-> Idle] /\ calm' = TRUE /\ UNCHANGED settings
        /\ Idle \in Jobs /\ Idle.at = "idle"
    BY <1>5, IdleJobs DEF Restart
  <2>2. AskInv' /\ \A s \in Threads : job'[s].at = "idle"
    BY <2>1 DEF AskInv, AskOk
  <2> QED
    BY <1>0, <1>r, <2>1, <2>2
<1>6. ASSUME NEW t \in Threads, Step(t)
      PROVE  /\ settings' \in Stores \cup {Cut} /\ job' \in [Threads -> Jobs]
             /\ calm' \in BOOLEAN /\ AskInv' /\ CalmInv'
  <2>1. CASE Drop(t) \/ Dump(t)
    BY <1>4, <2>1
  <2>2. CASE CheckWired(t) \/ EditDescriptions(t) \/ Reload(t) \/ MergeDescriptions(t) \/ Truncate(t)
    <3>1. job[t].at # "idle"
      BY <2>2 DEF CheckWired, EditDescriptions, Reload, MergeDescriptions, Truncate
    <3> QED
      BY <1>3, <2>2, <3>1, SmallSteps
  <2> QED
    BY <1>6, <2>1, <2>2 DEF Step
<1> QED
  BY <1>1, <1>2, <1>5, <1>6, FleetMoves

---------------------------------------------------------------------------
\* The picks.

\* The place behind the place c, and how long ago the cursor was behind each.
LEMMA NextOfCycle ==
  ASSUME NEW n \in Nat, NEW c \in Nat, n # 0, NEW i \in Nat, i = (c % n) + 1
  PROVE  /\ i \in 1 .. n
         /\ \A k \in 1 .. n :
              /\ k # i => Ago(n, i, k) >= 1
              /\ c \in 1 .. n /\ k # i => Ago(n, i, k) = Ago(n, c, k) + 1
              /\ Ago(n, i, k) \in 0 .. n - 1
<1>1. c % n \in 0 .. n - 1
  OBVIOUS
<1>2. i \in 1 .. n
  BY <1>1
<1>3. c \in 1 .. n => i = IF c = n THEN 1 ELSE c + 1
  <2>1. CASE c = n
    <3>1. c % n = 0
      BY <2>1
    <3> QED
      BY <2>1, <3>1
  <2>2. CASE c \in 1 .. n /\ c # n
    <3>1. c % n = c
      BY <2>2
    <3> QED
      BY <2>2, <3>1
  <2> QED
    BY <2>1, <2>2
<1> QED
  BY <1>2, <1>3 DEF Ago

\* One pick: the instance behind the cursor, and the cursor behind it.
LEMMA PickMoves ==
  ASSUME FleetTypeOK, NEW p \in Pickers, Pick(p)
  PROVE  \E r \in Roles, fleet \in Seq(Arns) \ {<<>>}, i \in Nat :
           /\ hits[p] = <<r, fleet>> /\ i = (cursor[r] % Len(fleet)) + 1 /\ i \in 1 .. Len(fleet)
           /\ hits' = [hits EXCEPT ![p] = <<>>]
           /\ cursor' = [cursor EXCEPT ![r] = i]
           /\ last' = [last EXCEPT ![r] = fleet]
           /\ waits' = [waits EXCEPT ![r] = Passed(r, fleet, fleet[i])]
<1>1. hits[p] # <<>> /\ hits[p] \in {<<>>} \cup Roles \X (Seq(Arns) \ {<<>>})
  BY DEF Pick, FleetTypeOK
<1>2. PICK r \in Roles, fleet \in Seq(Arns) \ {<<>>} : hits[p] = <<r, fleet>>
  BY <1>1
<1>3. PICK n \in Nat, c \in Nat : n = Len(fleet) /\ c = cursor[r] /\ n # 0
  BY <1>2 DEF FleetTypeOK
<1>4. PICK k \in 0 .. n - 1 : k = c % n
  BY <1>3
<1>5. PICK i \in Nat : i = k + 1 /\ i \in 1 .. n
  BY <1>3, <1>4
<1>6. /\ hits' = [hits EXCEPT ![p] = <<>>]
      /\ cursor' = [cursor EXCEPT ![r] = i]
      /\ last' = [last EXCEPT ![r] = fleet]
      /\ waits' = [waits EXCEPT ![r] = Passed(r, fleet, fleet[i])]
  BY <1>2, <1>3, <1>4, <1>5 DEF Pick
<1> QED
  BY <1>2, <1>3, <1>4, <1>5, <1>6

\* A pick passes each of the others over once more.
LEMMA PassedOk ==
  ASSUME FleetTypeOK, CursorInv, NEW r \in Roles, NEW fleet \in Seq(Arns) \ {<<>>},
         NEW i \in Nat, i = (cursor[r] % Len(fleet)) + 1, i \in 1 .. Len(fleet)
  PROVE  /\ Passed(r, fleet, fleet[i]) \in [Arns -> Nat]
         /\ WaitsOk(fleet, i, Passed(r, fleet, fleet[i]))
<1>1. PICK n \in Nat, c \in Nat : n = Len(fleet) /\ n # 0 /\ c = cursor[r]
  BY DEF FleetTypeOK
<1>2. PICK w \in [Arns -> Nat] : w = waits[r]
  BY DEF FleetTypeOK
<1>3. PICK q : q = Passed(r, fleet, fleet[i])
  OBVIOUS
<1>4. q = [a \in Arns |-> IF a = fleet[i] \/ a \notin ToSet(fleet) THEN 0
                          ELSE 1 + IF last[r] = fleet THEN w[a] ELSE 0]
  BY <1>2, <1>3 DEF Passed
<1>5. q \in [Arns -> Nat]
  BY <1>4
<1>6. i = (c % n) + 1
  BY <1>1
<1>7. \A k \in 1 .. n :
        /\ k # i => Ago(n, i, k) >= 1
        /\ c \in 1 .. n /\ k # i => Ago(n, i, k) = Ago(n, c, k) + 1
        /\ Ago(n, i, k) \in 0 .. n - 1
  <2> HIDE DEF FleetTypeOK, CursorInv
  <2>1. n \in Nat /\ c \in Nat /\ n # 0
    BY <1>1
  <2> QED
    BY <2>1, <1>6, NextOfCycle, Zenon
<1>8. ASSUME NEW k \in 1 .. n
      PROVE  q[fleet[k]] <= Ago(n, i, k)
  <2>1. fleet[k] \in Arns /\ Ago(n, i, k) \in 0 .. n - 1
    BY <1>1, <1>8, <1>7
  <2>2. CASE fleet[k] = fleet[i]
    <3>1. q[fleet[k]] = 0
      BY <1>4, <2>1, <2>2
    <3> QED
      BY <2>1, <3>1
  <2>3. CASE fleet[k] # fleet[i] /\ last[r] = fleet
    <3>1. k # i
      BY <2>3
    <3>2. WaitsOk(fleet, c, w)
      BY <1>1, <1>2, <2>3 DEF CursorInv
    <3>3. c \in 1 .. n /\ w[fleet[k]] <= Ago(n, c, k)
      BY <1>1, <1>8, <3>2 DEF WaitsOk
    <3>4. Ago(n, i, k) = Ago(n, c, k) + 1
      BY <1>8, <1>7, <3>1, <3>3
    <3>5. PICK a \in Arns : a = fleet[k]
      BY <2>1
    <3>6. w[a] \in Nat /\ q[a] \in {0, 1 + w[a]}
      BY <1>2, <1>4, <2>3
    <3>7. w[a] <= Ago(n, c, k) /\ Ago(n, c, k) \in Int
      BY <1>8, <3>3, <3>5 DEF Ago
    <3> QED
      BY <3>4, <3>7, <3>5, <3>6
  <2>4. CASE fleet[k] # fleet[i] /\ last[r] # fleet
    <3>1. k # i
      BY <2>4
    <3>2. Ago(n, i, k) >= 1
      BY <1>8, <1>7, <3>1
    <3>3. q[fleet[k]] <= 1
      BY <1>4, <2>1, <2>4
    <3> QED
      BY <1>5, <2>1, <3>2, <3>3
  <2> QED
    BY <2>2, <2>3, <2>4
<1> QED
  BY <1>1, <1>3, <1>5, <1>8 DEF WaitsOk

\* Who picks, looks up, or forgets.
LEMMA PickersMove ==
  ASSUME [FleetNext]_fleetVars
  PROVE  \/ UNCHANGED picking
         \/ \E p \in Pickers : Pick(p) \/ \E r \in Roles : LookUp(p, r)
         \/ Restart
<1>1. ASSUME NEW t \in Threads, Request(t)
      PROVE  UNCHANGED picking
  BY <1>1 DEF Request, ClearEverything, ClearRuntime, RemoveRuntime, SaveRuntime, AddRuntime,
              SaveDescription, Begin
<1>2. ASSUME NEW t \in Threads, Step(t)
      PROVE  UNCHANGED picking
  BY <1>2 DEF Step, Drop, CheckWired, EditDescriptions, Reload, MergeDescriptions, Truncate, Dump
<1>3. ASSUME NEW r \in DOMAIN Deployable, Deploy(r)
      PROVE  UNCHANGED picking
  BY <1>3 DEF Deploy
<1>4. CASE UNCHANGED fleetVars
  BY <1>4 DEF fleetVars, picking
<1> QED
  BY <1>1, <1>2, <1>3, <1>4 DEF FleetNext

\* A step keeps what is known of the picks.
LEMMA PickStep ==
  ASSUME FleetTypeOK, CursorInv, [FleetNext]_fleetVars
  PROVE  /\ hits' \in [Pickers -> {<<>>} \cup Roles \X (Seq(Arns) \ {<<>>})]
         /\ cursor' \in [Roles -> Nat]
         /\ last' \in [Roles -> Seq(Arns)]
         /\ waits' \in [Roles -> [Arns -> Nat]]
         /\ CursorInv'
<1>0. /\ hits \in [Pickers -> {<<>>} \cup Roles \X (Seq(Arns) \ {<<>>})]
      /\ cursor \in [Roles -> Nat]
      /\ last \in [Roles -> Seq(Arns)]
      /\ waits \in [Roles -> [Arns -> Nat]]
  BY DEF FleetTypeOK
<1>1. CASE UNCHANGED picking
  BY <1>0, <1>1 DEF picking, CursorInv, WaitsOk
<1>2. ASSUME NEW p \in Pickers, Pick(p)
      PROVE  /\ hits' \in [Pickers -> {<<>>} \cup Roles \X (Seq(Arns) \ {<<>>})]
             /\ cursor' \in [Roles -> Nat]
             /\ last' \in [Roles -> Seq(Arns)]
             /\ waits' \in [Roles -> [Arns -> Nat]]
             /\ CursorInv'
  <2>1. PICK r \in Roles, fleet \in Seq(Arns) \ {<<>>}, i \in Nat :
          /\ i = (cursor[r] % Len(fleet)) + 1 /\ i \in 1 .. Len(fleet)
          /\ hits' = [hits EXCEPT ![p] = <<>>]
          /\ cursor' = [cursor EXCEPT ![r] = i]
          /\ last' = [last EXCEPT ![r] = fleet]
          /\ waits' = [waits EXCEPT ![r] = Passed(r, fleet, fleet[i])]
    BY <1>2, PickMoves
  <2>2. PICK q \in [Arns -> Nat] : q = Passed(r, fleet, fleet[i]) /\ WaitsOk(fleet, i, q)
    BY <2>1, PassedOk
  <2>3. /\ hits' \in [Pickers -> {<<>>} \cup Roles \X (Seq(Arns) \ {<<>>})]
        /\ cursor' \in [Roles -> Nat]
        /\ last' \in [Roles -> Seq(Arns)]
        /\ waits' \in [Roles -> [Arns -> Nat]]
    BY <1>0, <2>1, <2>2
  <2>4. /\ last'[r] = fleet /\ cursor'[r] = i /\ waits'[r] = q
        /\ \A x \in Roles : x # r =>
             last'[x] = last[x] /\ cursor'[x] = cursor[x] /\ waits'[x] = waits[x]
    BY <1>0, <2>1, <2>2
  <2>5. CursorInv'
    BY <2>2, <2>4 DEF CursorInv, WaitsOk
  <2> QED
    BY <2>3, <2>5
<1>3. ASSUME NEW p \in Pickers, NEW r \in Roles, LookUp(p, r)
      PROVE  /\ hits' \in [Pickers -> {<<>>} \cup Roles \X (Seq(Arns) \ {<<>>})]
             /\ cursor' \in [Roles -> Nat]
             /\ last' \in [Roles -> Seq(Arns)]
             /\ waits' \in [Roles -> [Arns -> Nat]]
             /\ CursorInv'
  <2>1. PICK fleet \in Seq(Arns) \ {<<>>} : fleet = Instances(r)
    BY <1>3, InstancesAre DEF LookUp
  <2>2. hits' = [hits EXCEPT ![p] = <<r, fleet>>] /\ UNCHANGED <<cursor, last, waits>>
    BY <1>3, <2>1 DEF LookUp
  <2>3. hits' \in [Pickers -> {<<>>} \cup Roles \X (Seq(Arns) \ {<<>>})]
    BY <1>0, <2>2
  <2> QED
    BY <1>0, <2>2, <2>3 DEF CursorInv, WaitsOk
<1>4. CASE Restart
  <2>1. /\ hits' = [p \in Pickers |-> <<>>] /\ cursor' = [r \in Roles |-> 0]
        /\ last' = [r \in Roles |-> <<>>]
        /\ waits' = [r \in Roles |-> [a \in Arns |-> 0]]
    BY <1>4 DEF Restart
  <2> QED
    BY <2>1 DEF CursorInv
<1> QED
  BY <1>1, <1>2, <1>3, <1>4, PickersMove

\* Only roles with a harness are deployed.
LEMMA DeployedKept ==
  ASSUME FleetTypeOK, [FleetNext]_fleetVars
  PROVE  deployed' \subseteq DOMAIN Deployable
<1>0. deployed \subseteq DOMAIN Deployable
  BY DEF FleetTypeOK
<1>1. ASSUME NEW r \in DOMAIN Deployable, Deploy(r)
      PROVE  deployed' \subseteq DOMAIN Deployable
  BY <1>0, <1>1 DEF Deploy
<1>2. ASSUME NEW t \in Threads, Request(t)
      PROVE  UNCHANGED deployed
  BY <1>2 DEF Request, ClearEverything, ClearRuntime, RemoveRuntime, SaveRuntime, AddRuntime,
              SaveDescription, Begin
<1>3. ASSUME NEW t \in Threads, Step(t)
      PROVE  UNCHANGED deployed
  BY <1>3 DEF Step, Drop, CheckWired, EditDescriptions, Reload, MergeDescriptions, Truncate, Dump
<1>4. ASSUME NEW p \in Pickers, Pick(p) \/ \E r \in Roles : LookUp(p, r)
      PROVE  UNCHANGED deployed
  BY <1>4 DEF Pick, LookUp
<1>5. CASE Restart
  BY <1>0, <1>5 DEF Restart
<1>6. CASE UNCHANGED fleetVars
  BY <1>0, <1>6 DEF fleetVars
<1> QED
  BY <1>0, <1>1, <1>2, <1>3, <1>4, <1>5, <1>6 DEF FleetNext

\* FleetInv is an inductive invariant of the fleet.
LEMMA FleetInductive ==
  /\ FleetInit => FleetInv
  /\ FleetInv /\ [FleetNext]_fleetVars => FleetInv'
<1>1. FleetInit => FleetInv
  <2> SUFFICES ASSUME FleetInit PROVE FleetInv
    OBVIOUS
  <2> USE DEF FleetInit
  <2>0. Empty \in Stores
    BY SmallFleets DEF Empty, Stores
  <2>1. \A t \in Threads : job[t] = Idle
    OBVIOUS
  <2>2. FleetTypeOK
    <3>1. /\ waits \in [Roles -> [Arns -> Nat]]
          /\ last \in [Roles -> Seq(Arns)]
          /\ cursor \in [Roles -> Nat]
      OBVIOUS
    <3>2. hits \in [Pickers -> {<<>>} \cup Roles \X (Seq(Arns) \ {<<>>})]
      OBVIOUS
    <3>3. /\ settings \in Stores \cup {Cut}
          /\ job \in [Threads -> Jobs]
          /\ calm \in BOOLEAN
          /\ deployed \subseteq DOMAIN Deployable
      BY <2>0, IdleJobs
    <3> QED
      BY <3>1, <3>2, <3>3 DEF FleetTypeOK
  <2>3. AskInv
    BY <2>1, IdleJobs DEF AskInv, AskOk
  <2>4. CalmInv
    BY <2>1, IdleJobs DEF CalmInv, Busy, JobOk
  <2>5. CursorInv
    BY DEF CursorInv
  <2> QED
    BY <2>2, <2>3, <2>4, <2>5 DEF FleetInv
<1>2. ASSUME FleetInv, [FleetNext]_fleetVars
      PROVE  FleetInv'
  <2>1. /\ settings' \in Stores \cup {Cut}
        /\ job' \in [Threads -> Jobs]
        /\ calm' \in BOOLEAN
        /\ AskInv' /\ CalmInv'
    BY <1>2, JobStep DEF FleetInv
  <2>2. /\ hits' \in [Pickers -> {<<>>} \cup Roles \X (Seq(Arns) \ {<<>>})]
        /\ cursor' \in [Roles -> Nat]
        /\ last' \in [Roles -> Seq(Arns)]
        /\ waits' \in [Roles -> [Arns -> Nat]]
        /\ CursorInv'
    BY <1>2, PickStep DEF FleetInv
  <2>3. deployed' \subseteq DOMAIN Deployable
    BY <1>2, DeployedKept DEF FleetInv
  <2>4. FleetTypeOK'
    BY <2>1, <2>2, <2>3 DEF FleetTypeOK
  <2> QED
    BY <2>1, <2>2, <2>4 DEF FleetInv
<1> QED
  BY <1>1, <1>2

\* No instance is passed over as often in a row as there are instances (pick,
\* _RR_LOCK).
THEOREM NoInstanceEverStarves == FleetSpec => []NoInstanceStarves
<1>1. FleetInv => NoInstanceStarves
  <2> SUFFICES ASSUME FleetInv, NEW r \in Roles, NEW a \in ToSet(last[r])
               PROVE  waits[r][a] < Len(last[r])
    BY DEF NoInstanceStarves
  <2>1. PICK fleet \in Seq(Arns) : fleet = last[r]
    BY DEF FleetInv, FleetTypeOK
  <2>2. PICK k \in 1 .. Len(fleet) : fleet[k] = a
    BY <2>1 DEF ToSet
  <2>3. a \in Arns /\ fleet # <<>>
    BY <2>2
  <2>4. cursor[r] \in 1 .. Len(fleet) /\ waits[r][a] <= Ago(Len(fleet), cursor[r], k)
    BY <2>1, <2>2, <2>3 DEF FleetInv, CursorInv, WaitsOk
  <2>5. waits[r][a] \in Nat
    BY <2>3 DEF FleetInv, FleetTypeOK
  <2>6. Ago(Len(fleet), cursor[r], k) < Len(fleet)
    BY <2>2, <2>4 DEF Ago
  <2>7. Ago(Len(fleet), cursor[r], k) \in Int /\ Len(fleet) \in Nat
    BY <2>2, <2>4 DEF Ago
  <2> QED
    BY <2>1, <2>4, <2>5, <2>6, <2>7
<1> QED
  BY <1>1, FleetInductive, PTL DEF FleetSpec

---------------------------------------------------------------------------
\* The settings implement their promise.

\* What the settings hold is what a request is about to dump, or what the file
\* has.
LEMMA HeldIs == FleetInv => HeldInv
<1> SUFFICES ASSUME FleetInv
             PROVE  HeldInv
  OBVIOUS
<1>0. FleetTypeOK /\ CalmInv /\ Loaded \in Stores /\ \A t \in Threads : job[t].edit \in Stores
  <2>1. FleetTypeOK /\ CalmInv /\ \A t \in Threads : job[t] \in Jobs
    BY DEF FleetInv, FleetTypeOK
  <2> QED
    BY <2>1, LoadedIs DEF Jobs
<1>1. ASSUME ~calm \/ \A t \in Threads : job[t].at # "dump"
      PROVE  Held = Loaded
  BY <1>1 DEF Held
<1>2. ASSUME NEW t \in Threads, calm, job[t].at = "dump"
      PROVE  Held = job[t].edit
  <2> DEFINE dumping == {s \in Threads : job[s].at = "dump"}
  <2>1. \A s \in dumping : s = t
    BY <1>0, <1>2 DEF CalmInv, Busy
  <2>2. t \in dumping
    BY <1>2
  <2> HIDE DEF dumping
  <2>3. (CHOOSE s \in dumping : TRUE) = t
    BY <2>1, <2>2
  <2>4. Held = IF calm /\ dumping # {} THEN job[CHOOSE s \in dumping : TRUE].edit ELSE Loaded
    BY DEF Held, dumping
  <2> QED
    BY <1>2, <2>2, <2>3, <2>4
<1>3. Held \in Stores
  <2>1. CASE calm /\ \E t \in Threads : job[t].at = "dump"
    BY <1>0, <1>2, <2>1
  <2> QED
    BY <1>0, <1>1, <2>1
<1> QED
  BY <1>1, <1>2, <1>3 DEF HeldInv

\* The same after a step.
LEMMA HeldIsThen == FleetInv' => HeldInv'
  BY HeldIs, PTL

\* The promise speaks of the same settings.
LEMMA StoreTypes ==
  /\ Store!Empty = Empty /\ Store!Fleets = Fleets /\ Store!Stores = Stores
  /\ \A s : Store!ToSet(s) = ToSet(s)
  /\ \A s, t : Store!IsPrefix(s, t) = IsPrefix(s, t)
  /\ \A s, a : Store!RemoveFirst(s, a) = RemoveFirst(s, a)
<1>1. Store!Empty = Empty
  BY DEF Store!Empty, Empty
<1>2. Store!Fleets = Fleets
  <2>1. \A f : Store!IsInjective(f) = IsInjective(f)
    BY DEF Store!IsInjective, IsInjective
  <2> QED
    BY <2>1, FleetIs DEF Store!Fleets
<1>3. Store!Stores = Stores
  BY <1>2 DEF Store!Stores, Stores
<1>4. \A s : Store!ToSet(s) = ToSet(s)
  BY DEF Store!ToSet, ToSet
<1>5. \A s, t : Store!IsPrefix(s, t) = IsPrefix(s, t)
  BY DEF Store!IsPrefix, IsPrefix
<1>6. \A s, a : Store!RemoveFirst(s, a) = RemoveFirst(s, a)
  BY DEF Store!RemoveFirst, RemoveFirst, Store!RemoveAt, RemoveAt,
     Store!SelectInSeq, SelectInSeq, Store!Min, Min
<1> QED
  BY <1>1, <1>2, <1>3, <1>4, <1>5, <1>6

\* An operation of the promise.
LEMMA OperationIs ==
  ASSUME FleetInv, FleetInv', calm, calm',
         Becomes(Held.fleets, Held.described, Held')
  PROVE  Store!Operation
<1>1. PICK s \in Stores, e \in Stores : s = Held /\ e = Held'
  BY HeldIs, HeldIsThen DEF HeldInv
<1>2. /\ s.fleets \in [Roles -> Fleets] /\ s.described \in SUBSET Arns
      /\ s = [fleets |-> s.fleets, described |-> s.described]
      /\ e.fleets \in [Roles -> Fleets] /\ e.described \in SUBSET Arns
      /\ e = [fleets |-> e.fleets, described |-> e.described]
      /\ \A x : [s EXCEPT !.fleets = x] = [fleets |-> x, described |-> s.described]
      /\ \A x : [s EXCEPT !.described = x] = [fleets |-> s.fleets, described |-> x]
  BY StoreIs, PutParts
<1>3. /\ Becomes(s.fleets, s.described, e)
      /\ calm /\ calm' /\ Held = s /\ Held' = e
  BY <1>1
<1>4. Store!Empty = Empty /\ Store!Fleets = Fleets
  BY StoreTypes
<1>5. CASE e = Empty
  BY <1>3, <1>4, <1>5 DEF Store!Operation, Store!ClearAll
<1>6. ASSUME NEW r \in Roles, e.fleets = [s.fleets EXCEPT ![r] = <<>>],
             e.fleets # Empty.fleets, e.described = s.described
      PROVE  Store!Operation
  <2>1. Store!Clear(r)
    BY <1>2, <1>3, <1>4, <1>6 DEF Store!Clear
  <2> QED
    BY <1>3, <2>1 DEF Store!Operation
<1>7. ASSUME NEW a \in Arns, e.fleets = s.fleets,
             e.described = s.described \cup {a} \/ e.described = s.described \ {a}
      PROVE  Store!Operation
  <2>1. Store!Describe(a) \/ Store!Undescribe(a)
    BY <1>2, <1>3, <1>7 DEF Store!Describe, Store!Undescribe
  <2> QED
    BY <1>3, <2>1 DEF Store!Operation
<1>8. ASSUME NEW r \in Roles, NEW a \in Arns, NEW g \in Fleets, e.described = s.described,
             e.fleets = [s.fleets EXCEPT ![r] = g],
             \/ g = <<a>> \/ g = RemoveFirst(s.fleets[r], a)
             \/ IsPrefix(s.fleets[r], g) /\ ToSet(g) = ToSet(s.fleets[r]) \cup {a}
      PROVE  Store!Operation
  <2>1. e = [s EXCEPT !.fleets[r] = g]
    <3>1. [s EXCEPT !.fleets[r] = g] = [s EXCEPT !.fleets = [s.fleets EXCEPT ![r] = g]]
      BY DEF Stores
    <3> QED
      BY <1>2, <1>8, <3>1
  <2>2. CASE g = <<a>>
    <3>1. Store!Save(r, a)
      BY <1>3, <2>1, <2>2 DEF Store!Save
    <3> QED
      BY <1>3, <3>1 DEF Store!Operation
  <2>3. CASE g = RemoveFirst(s.fleets[r], a)
    <3>1. Store!Unwire(r, a)
      BY <1>3, <2>1, <2>3, StoreTypes DEF Store!Unwire
    <3> QED
      BY <1>3, <3>1 DEF Store!Operation
  <2>4. CASE IsPrefix(s.fleets[r], g) /\ ToSet(g) = ToSet(s.fleets[r]) \cup {a}
    <3>1. Store!Add(r, a)
      BY <1>2, <1>3, <1>4, <1>8, <2>1, <2>4, StoreTypes DEF Store!Add
    <3> QED
      BY <1>3, <3>1 DEF Store!Operation
  <2> QED
    BY <1>8, <2>2, <2>3, <2>4
<1> QED
  BY <1>3, <1>5, <1>6, <1>7, <1>8 DEF Becomes

\* A step of the fleet is a step of the promise, or none.
LEMMA SettingsStep ==
  FleetInv /\ FleetInv' /\ [FleetNext]_fleetVars => [Store!Next]_<<Held, calm>>
<1> SUFFICES ASSUME FleetInv, FleetInv', [FleetNext]_fleetVars
             PROVE  Store!Next \/ UNCHANGED <<Held, calm>>
  BY DEF Store!Next
<1>0. /\ FleetTypeOK /\ AskInv /\ CalmInv /\ calm \in BOOLEAN /\ calm' \in BOOLEAN
      /\ Store!Stores = Stores /\ Store!Empty = Empty
      /\ Held \in Stores /\ Held' \in Stores
  BY HeldIs, HeldIsThen, StoreTypes DEF FleetInv, FleetTypeOK, HeldInv
<1>1. CASE ~calm'
  BY <1>0, <1>1 DEF Store!Next, Store!Disturb
<1>2. CASE ~calm /\ calm'
  BY <1>0, <1>2 DEF Store!Next, Store!Settle
<1>3. ASSUME calm, calm'
      PROVE  Store!Next \/ UNCHANGED <<Held, calm>>
  <2>0. calm' = calm
    BY <1>0, <1>3
  <2>a. ASSUME NEW t \in Threads, job[t].at # "idle"
        PROVE  \A s \in Threads : s # t => job[s].at = "idle"
    BY <1>0, <1>3, <2>a DEF CalmInv, Busy
  <2>1. CASE UNCHANGED <<settings, job, calm>>
    BY <2>1 DEF Held, Loaded
  <2>2. ASSUME NEW t \in Threads, NEW j \in Jobs,
               Begin(t, j), j.at \in {"drop", "check", "merge"}
        PROVE  UNCHANGED <<Held, calm>>
    <3>1. /\ job' = [job EXCEPT ![t] = j] /\ calm' = (calm /\ Busy = {}) /\ UNCHANGED settings
      BY <2>2 DEF Begin
    <3>2. \A s \in Threads : job[s].at = "idle"
      BY <1>3, <3>1 DEF Busy
    <3>3. job'[t] = j /\ \A s \in Threads : s # t => job'[s] = job[s]
      BY <1>0, <3>1, GoOnJobs
    <3>4. \A s \in Threads : job[s].at # "dump" /\ job'[s].at # "dump"
      BY <2>2, <3>2, <3>3
    <3>5. Held = Loaded /\ Held' = Loaded'
      BY <3>4, HeldIs, HeldIsThen DEF HeldInv
    <3>6. Loaded' = Loaded
      BY <3>1 DEF Loaded
    <3> QED
      BY <2>0, <3>5, <3>6
  <2>3. ASSUME NEW t \in Threads, Drop(t)
        PROVE  Store!Next
    <3>1. settings' = Empty /\ job[t].at = "drop" /\ job'[t].at = "idle"
      BY <1>0, <2>3, LargeSteps DEF Drop
    <3>2. \A s \in Threads : s # t => job[s].at = "idle" /\ job'[s].at = "idle"
      BY <1>0, <2>3, <2>a, <3>1, LargeSteps
    <3>3. \A s \in Threads : job'[s].at # "dump"
      BY <3>1, <3>2
    <3>4. Held' = Loaded'
      BY <3>3, HeldIsThen DEF HeldInv
    <3>5. Loaded' = Empty
      BY <3>1 DEF Loaded
    <3>6. Store!ClearAll
      BY <1>0, <3>4, <3>5 DEF Store!ClearAll
    <3> QED
      BY <1>3, <3>6 DEF Store!Next, Store!Operation
  <2>4. ASSUME NEW t \in Threads, Dump(t)
        PROVE  UNCHANGED <<Held, calm>>
    <3>1. job[t].at = "dump"
      BY <1>0, <1>3, <2>4 DEF Dump, CalmInv, JobOk
    <3>2. settings' = job[t].edit /\ job'[t].at \in {"idle", "check"}
      BY <1>0, <2>4, <3>1, LargeSteps
    <3>3. \A s \in Threads : s # t => job[s].at = "idle" /\ job'[s].at = "idle"
      BY <1>0, <2>4, <2>a, <3>1, LargeSteps
    <3>4. \A s \in Threads : job'[s].at # "dump"
      BY <3>2, <3>3
    <3>5. Held' = Loaded' /\ Held = job[t].edit
      BY <1>3, <3>1, <3>4, HeldIs, HeldIsThen DEF HeldInv
    <3>6. PICK e \in Stores : e = job[t].edit
      BY <1>0, <3>5
    <3>7. e # Cut
      <4>1. DOMAIN e = {"fleets", "described"}
        BY DEF Stores
      <4>2. DOMAIN Cut = {"cut"}
        BY DEF Cut
      <4> QED
        BY <4>1, <4>2
    <3>8. Loaded' = e
      BY <3>2, <3>6, <3>7 DEF Loaded
    <3> QED
      BY <2>0, <3>5, <3>6, <3>8
  <2>5. ASSUME NEW t \in Threads,
               CheckWired(t) \/ EditDescriptions(t) \/ Reload(t) \/ MergeDescriptions(t) \/ Truncate(t)
        PROVE  Store!Next \/ UNCHANGED <<Held, calm>>
    <3>1. PICK j \in Jobs :
            /\ GoOn(t, j)
            /\ \/ UNCHANGED settings /\ j.at # "dump"
               \/ settings' = Cut /\ job[t].at = "open" /\ j.at = "dump" /\ j.edit = job[t].edit
      BY <1>0, <2>5, SmallSteps, Zenon
    <3>2. job[t].at \notin {"idle", "dump"}
      BY <2>5 DEF CheckWired, EditDescriptions, Reload, MergeDescriptions, Truncate
    <3>3. job'[t] = j /\ \A s \in Threads : s # t => job'[s] = job[s] /\ job[s].at = "idle"
      BY <1>0, <2>a, <3>1, <3>2, GoOnJobs DEF GoOn
    <3>4. Held = Loaded
      <4>1. \A s \in Threads : job[s].at # "dump"
        BY <3>2, <3>3
      <4> QED
        BY <4>1, HeldIs DEF HeldInv
    <3>5. CASE UNCHANGED settings /\ j.at # "dump"
      <4>1. \A s \in Threads : job'[s].at # "dump"
        BY <3>3, <3>5
      <4>2. Held' = Loaded'
        BY <4>1, HeldIsThen DEF HeldInv
      <4>3. Loaded' = Loaded
        BY <3>5 DEF Loaded
      <4> QED
        BY <2>0, <3>4, <4>2, <4>3
    <3>6. CASE settings' = Cut /\ job[t].at = "open" /\ j.at = "dump" /\ j.edit = job[t].edit
      <4>1. Held' = job[t].edit
        BY <1>3, <3>3, <3>6, HeldIsThen DEF HeldInv
      <4>2. Becomes(Loaded.fleets, Loaded.described, job[t].edit)
        BY <1>0, <1>3, <3>6 DEF CalmInv, JobOk
      <4>3. Becomes(Held.fleets, Held.described, Held')
        BY <3>4, <4>1, <4>2
      <4> QED
        BY <1>3, <4>3, OperationIs DEF Store!Next
    <3> QED
      BY <3>1, <3>5, <3>6
  <2>6. CASE Restart
    <3>1. /\ job' = [t \in Threads |-> Idle] /\ UNCHANGED settings /\ Idle.at = "idle"
      BY <2>6, IdleJobs DEF Restart
    <3>2. \A t \in Threads : job'[t].at # "dump"
      BY <3>1
    <3>3. Held' = Loaded'
      BY <3>2, HeldIsThen DEF HeldInv
    <3>4. CASE \A t \in Threads : job[t].at # "dump"
      <4>1. Held = Loaded
        BY <3>4, HeldIs DEF HeldInv
      <4>2. Loaded' = Loaded
        BY <3>1 DEF Loaded
      <4> QED
        BY <2>0, <3>3, <4>1, <4>2
    <3>5. CASE ~ \A t \in Threads : job[t].at # "dump"
      <4>1. settings = Cut
        BY <1>0, <1>3, <3>5 DEF CalmInv, JobOk
      <4>2. Loaded' = Empty
        BY <3>1, <4>1 DEF Loaded
      <4> QED
        BY <1>0, <1>3, <3>3, <4>2 DEF Store!Next, Store!Lose
    <3> QED
      BY <3>4, <3>5
  <2>7. ASSUME NEW t \in Threads, Step(t)
        PROVE  Store!Next \/ UNCHANGED <<Held, calm>>
    BY <2>3, <2>4, <2>5, <2>7 DEF Step
  <2> QED
    BY <1>0, <2>1, <2>2, <2>6, <2>7, FleetMoves
<1> QED
  BY <1>0, <1>1, <1>2, <1>3

\* The settings implement the store of Settings: a step of a request is one
\* operation of it or none, while requests do not overlap.
THEOREM FleetImplementsSettings == FleetSpec => OperationsAreAtomic
<1>1. FleetInit => Store!Init
  <2> SUFFICES ASSUME FleetInit PROVE Store!Init
    OBVIOUS
  <2>1. FleetInv /\ calm = TRUE /\ settings = Empty /\ \A t \in Threads : job[t] = Idle
    BY FleetInductive DEF FleetInit
  <2>2. \A t \in Threads : job[t].at # "dump"
    BY <2>1, IdleJobs
  <2>3. Held = Loaded
    BY <2>1, <2>2, HeldIs DEF HeldInv
  <2>4. Loaded = Empty
    BY <2>1 DEF Loaded
  <2> QED
    BY <2>1, <2>3, <2>4 DEF Store!Init, Store!Empty, Empty
<1>2. FleetInv /\ FleetInv' /\ [FleetNext]_fleetVars => [Store!Next]_<<Held, calm>>
  BY SettingsStep
<1> QED
  BY <1>1, <1>2, FleetInductive, PTL DEF FleetSpec, OperationsAreAtomic, Store!Spec
=============================================================================

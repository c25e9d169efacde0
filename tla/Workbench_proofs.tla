--------------------------- MODULE Workbench_proofs --------------------------
(***************************************************************************)
(* Theorems about Workbench for every set of sessions, browsers, views and *)
(* paths, and any bounds: no preview server is left alone, streams are     *)
(* faithful and reads of the ledger are fresh.                             *)
(***************************************************************************)
EXTENDS Workbench, FiniteSetTheorems, SequenceTheorems, TLAPS

Chunk == Nat \X (Nat \ {0})

Term ==
  [session : Sessions, fd : Nat, open : BOOLEAN, shell : BOOLEAN, reader : BOOLEAN,
   out : Nat, taken : Nat, buf : Seq(Chunk)]

Stream == [on : BOOLEAN, session : Sessions \cup {0}, sent : Nat, got : Seq(Chunk)]

Server == [state : ProcStates, session : Sessions, child : BOOLEAN]

Read ==
  [at : {"rest", "hit", "parse", "store", "store rows", "answer"},
   stop : Sessions \cup {0}, sig : Int, rows : Int, lone : BOOLEAN]

Session ==
  [status : {"none", "open", "closed", "lost"}, agent : Agents \cup {"none"},
   folder : Folders \cup {NoFolder}, server : Nat, tools : BOOLEAN, packed : BOOLEAN]

\* What a request that holds the lock still has to do.
Task ==
  {<<>>, <<"open">>, <<"closed">>, <<"conversion">>, <<"verify">>}
    \cup {<<"folder", f>> : f \in Folders \cup {NoFolder}}

Holder ==
  [op : {"none", "close", "open", "boot"}, session : Sessions \cup {0}, then : Task, pid : Nat]

Kinds == {"session", "harness", "deploy", "verify", "conversion", "run"}

Event == [kind : Kinds, session : Nat, pid : Nat]

TermsTyped ==
  /\ terms \in Seq(Term)
  /\ pty \in [Sessions -> Nat]
  /\ streams \in [Clients -> Stream]

MetricsTyped ==
  /\ ledger \in Seq(Event)
  /\ procs \in Seq(Server)
  /\ cache \in [sig : Int, rows : Int]
  /\ reads \in [Readers -> Read]
  /\ calm \in BOOLEAN

SessTyped ==
  /\ sess \in [Sessions -> Session]
  /\ doing \in Holder

\* A request that holds the lock.
DoingInv ==
  /\ doing.op # "none" => doing.session \in Sessions
  /\ doing.op = "boot" =>
       /\ doing.then[1] \in {"conversion", "verify"}
       /\ doing.pid \in DOMAIN procs
       /\ procs[doing.pid].session = doing.session
       /\ sess[doing.session].status = "open"
       /\ sess[doing.session].server = NoServer
  /\ doing.op = "close" =>
       \/ doing.then = <<"open">>
       \/ \E f \in Folders \cup {NoFolder} : doing.then = <<"folder", f>>
       \/ doing.then = <<"closed">> /\ sess[doing.session].server = NoServer

\* A refresh that overlaps another is neither lone nor calm.
Solo ==
  \A m, o \in Readers :
    m # o /\ reads[m].at # "rest" /\ reads[o].at # "rest" => ~reads[m].lone /\ ~calm

\* What the cache holds when nobody has written half of it.
CacheInv ==
  calm /\ (\A m \in Readers : reads[m].at # "store rows") => cache.rows >= cache.sig

\* What a refresh has found so far.
ReadOk(m) ==
  /\ reads[m].at = "parse" => reads[m].sig <= Len(ledger)
  /\ reads[m].at \in {"store", "store rows"} => reads[m].rows >= reads[m].sig
  /\ calm /\ reads[m].at = "answer" => reads[m].rows >= reads[m].sig
  /\ calm /\ reads[m].at = "hit" => cache.sig = reads[m].sig
  /\ (calm \/ reads[m].lone) /\ reads[m].at = "store rows" => cache.sig = reads[m].sig

ReadInv == Solo /\ CacheInv /\ \A m \in Readers : ReadOk(m)

\* Which terminal a descriptor and a session stand for.
FdInv ==
  /\ \A j, k \in OpenTerms : terms[j].fd = terms[k].fd => j = k
  /\ \A s \in Sessions : pty[s] # NoTerm => pty[s] \in OpenTerms /\ terms[pty[s]].session = s

\* Nobody else has taken from terminal k, and it has not outgrown the buffer.
Whole(k) == k \notin robbed /\ terms[k].taken <= Cap

\* What is in the buffer of an open terminal.
BufferInv ==
  \A k \in OpenTerms :
    LET buf == terms[k].buf IN
    /\ \A i \in DOMAIN buf : buf[i][1] = k /\ buf[i][2] <= terms[k].taken
    /\ \A i, j \in DOMAIN buf : i < j => buf[i][2] < buf[j][2]
    /\ Whole(k) => Len(buf) = terms[k].taken /\ \A i \in DOMAIN buf : buf[i][2] = i

Follows(c, k) ==
  /\ streams[c].session \in Sessions
  /\ pty[streams[c].session] = k /\ k # NoTerm

\* What a stream has got.
Heard(c) ==
  LET got == streams[c].got IN
  /\ streams[c].on => streams[c].session \in Sessions
  /\ got = <<>> => streams[c].sent = 0
  /\ \A i \in DOMAIN got :
       /\ got[i][1] \in DOMAIN terms
       /\ terms[got[i][1]].session = streams[c].session
       /\ got[i][2] <= terms[got[i][1]].taken
  /\ \A i, j \in DOMAIN got : i < j /\ got[i][1] = got[j][1] => got[i][2] < got[j][2]

\* What it is to get next of terminal k is new, and follows what it has got.
Ahead(c, k) ==
  LET got == streams[c].got
      sent == streams[c].sent
      buf == terms[k].buf IN
  /\ \A i \in DOMAIN got, j \in DOMAIN buf :
       got[i][1] = k /\ j > sent => got[i][2] < buf[j][2]
  /\ got # <<>> /\ got[1][1] = k /\ Whole(k) =>
       \A n \in 1 .. sent : <<k, n>> \in ToSet(got)

\* Of the first terminal it shows it has left nothing out.
Complete(c) ==
  LET got == streams[c].got
      first == got[1][1] IN
  got # <<>> /\ Whole(first) =>
    \A i \in DOMAIN got : got[i][1] = first =>
      \A n \in 1 .. got[i][2] : <<first, n>> \in ToSet(got)

StreamInv ==
  \A c \in Clients :
    /\ Heard(c) /\ Complete(c)
    /\ \A k \in DOMAIN terms : Follows(c, k) => Ahead(c, k)

IInv ==
  /\ TermsTyped /\ MetricsTyped /\ SessTyped
  /\ DoingInv /\ ReadInv /\ FdInv /\ BufferInv /\ StreamInv
  /\ ServersAreOwned

---------------------------------------------------------------------------
\* Numbers and sequences.

\* A set of numbers has a least one.
LEMMA LeastNumber ==
  ASSUME NEW S \in SUBSET Nat, S # {}
  PROVE  Min(S) \in S /\ \A n \in S : Min(S) <= n
<1>1. PICK x \in S : \A y \in S : <<y, x>> \notin OpToRel(<, Nat)
  BY NatLessThanWellFounded, WFMin
<1>2. \A y \in S : ~ (y < x)
  BY <1>1, Zenon DEF OpToRel
<1>3. \A y \in S : x <= y
  BY <1>2
<1> QED
  BY <1>3 DEF Min

LEMMA SmallerOfTwo ==
  ASSUME NEW m \in Nat, NEW n \in Nat
  PROVE  Min({m, n}) = IF m <= n THEN m ELSE n
<1>1. Min({m, n}) \in {m, n} /\ Min({m, n}) <= m /\ Min({m, n}) <= n
  BY LeastNumber
<1> QED
  BY <1>1

LEMMA GreaterOfTwo ==
  ASSUME NEW m \in Nat, NEW n \in Nat
  PROVE  Max({m, n}) = IF m <= n THEN n ELSE m
<1>1. \E x \in {m, n} : \A y \in {m, n} : x >= y
  <2>1. CASE m <= n
    BY <2>1
  <2>2. CASE n <= m
    BY <2>2
  <2> QED
    BY <2>1, <2>2
<1>2. Max({m, n}) \in {m, n} /\ \A y \in {m, n} : Max({m, n}) >= y
  BY <1>1 DEF Max
<1> QED
  BY <1>2

\* Sessions are numbered from one.
LEMMA SessionsAreNumbers ==
  Sessions \subseteq Nat \ {0}
<1>1. Cardinality(Sessions) \in Nat
  BY TerminalsAssumption, FS_CardinalityType
<1> QED
  BY <1>1, TerminalsAssumption

---------------------------------------------------------------------------
\* The governance view.

\* What a step of the workbench does to what the views read.
LEMMA ReadMoves ==
  ASSUME SessTyped, MetricsTyped, DoingInv, [Next]_vars
  PROVE  \/ /\ UNCHANGED <<cache, reads, calm>>
            /\ ledger' = ledger \/ \E row \in Event : ledger' = Append(ledger, row)
         \/ /\ UNCHANGED ledger
            /\ \/ Refresh
               \/ \E m \in Readers, stop \in {0} \cup Sessions : Sign(m, stop)
               \/ MetricsDie
<1> USE SessionsAreNumbers
<1>1. \A s \in Sessions, pid \in Nat, kind \in Kinds : Row(kind, s, pid) \in Event
  BY DEF Row, Event, Kinds
<1>2. Row("run", 0, 0) \in Event
  BY DEF Row, Event, Kinds
<1>3. ASSUME NEW s \in Sessions, Request(s)
      PROVE  /\ UNCHANGED <<cache, reads, calm>>
             /\ ledger' = ledger \/ \E row \in Event : ledger' = Append(ledger, row)
  <2>1. CASE \E agent \in Agents : NewSession(s, agent)
    BY <1>1, <2>1 DEF NewSession, Log, Kinds
  <2>2. CASE AskTerminal(s) \/ Delete(s)
    BY <2>2 DEF AskTerminal, Delete, mvars
  <2>3. CASE \E f \in {NoFolder, Mount} : OpenFolder(s, f)
    BY <2>3 DEF OpenFolder, mvars
  <2>4. CASE EditFiles(s) \/ Command(s)
    BY <2>4 DEF EditFiles, Command, mvars
  <2>5. CASE Upload(s) \/ Scaffold(s, <<"AGENTS.md">>)
    BY <1>1, <2>5 DEF Upload, Scaffold, Log, Kinds
  <2>6. CASE Convert(s) \/ VerifyServer(s) \/ VerifyFile(s)
    BY <1>1, <2>6 DEF Convert, VerifyServer, VerifyFile, Boot, Log, Kinds
  <2> QED
    BY <1>3, <2>1, <2>2, <2>3, <2>4, <2>5, <2>6 DEF Request
<1>4. CASE Closed \/ Opened \/ BootFails \/ (Shells /\ UNCHANGED <<mvars, wvars>>)
        \/ \E k \in DOMAIN terms : AgentWrites(k)
  BY <1>4 DEF Closed, Opened, BootFails, AgentWrites, mvars
<1>5. CASE Booted
  <2>1. doing.session \in Sessions /\ doing.pid \in Nat
    BY <1>5 DEF Booted, DoingInv, MetricsTyped
  <2> DEFINE conversion == doing.then[1] = "conversion"
             row == Row(doing.then[1], doing.session, IF conversion THEN doing.pid ELSE 0)
  <2>2. /\ ledger' = Append(ledger, row) \/ ledger' = ledger
        /\ UNCHANGED <<cache, reads, calm>>
    BY <1>5 DEF Booted, Log
  <2>3. doing.then[1] \in Kinds
    BY <1>5 DEF Booted, DoingInv, Kinds
  <2> QED
    BY <1>1, <2>1, <2>2, <2>3
<1>6. CASE \/ (Refresh /\ UNCHANGED <<tvars, wvars>>)
           \/ \E m \in Readers, stop \in {0} \cup Sessions : Look(m, stop)
  BY <1>6 DEF Refresh, Look, Sign, Hit, Parse, StoreSig, StoreRows, Answer, StopSession
<1>7. CASE \/ (\E p \in DOMAIN procs : ServerDies(p)) /\ UNCHANGED <<tvars, wvars>>
           \/ \E c \in Clients, s \in Sessions : AttachTerminal(c, s)
           \/ RecordRun
  BY <1>2, <1>7 DEF ServerDies, AttachTerminal, RecordRun, Log, mvars
<1>8. CASE Exit \/ Crash
  BY <1>8 DEF Exit, Crash, Die
<1>9. CASE UNCHANGED vars
  BY <1>9 DEF vars, mvars
<1> QED
  BY <1>3, <1>4, <1>5, <1>6, <1>7, <1>8, <1>9 DEF Next

\* The ledger only grows.
LEMMA LedgerGrows ==
  ASSUME MetricsTyped, NEW row \in Event, ledger' = Append(ledger, row)
  PROVE  ledger' \in Seq(Event) /\ Len(ledger') = Len(ledger) + 1
  BY DEF MetricsTyped

\* How the refresh of a view may go on, and what its record is then.
LEMMA ReadMember ==
  ASSUME reads \in [Readers -> Read], NEW m \in Readers
  PROVE  /\ reads[m].at \in {"rest", "hit", "parse", "store", "store rows", "answer"}
         /\ reads[m].sig \in Int /\ reads[m].rows \in Int /\ reads[m].lone \in BOOLEAN
         /\ reads[m] \in Read
  BY DEF Read

\* One refresh goes on, and the others do not get in its way.
LEMMA OneReadMoves ==
  ASSUME reads \in [Readers -> Read], ReadInv,
         NEW m \in Readers, NEW rec \in Read, reads' = [reads EXCEPT ![m] = rec],
         UNCHANGED <<ledger, calm>>,
         rec.at # "rest" => reads[m].at # "rest",
         rec.lone => reads[m].lone \/ rec.at = "rest",
         CacheInv', ReadOk(m)',
         \/ UNCHANGED cache
         \/ \A o \in Readers \ {m} : (~calm /\ ~reads[o].lone) \/ reads[o].at = "rest"
  PROVE  reads' \in [Readers -> Read] /\ ReadInv'
<1>1. /\ reads' \in [Readers -> Read] /\ reads'[m] = rec
      /\ \A o \in Readers \ {m} : reads'[o] = reads[o]
  OBVIOUS
<1>2. \A o \in Readers \ {m} : ReadOk(o)'
  BY <1>1 DEF ReadInv, ReadOk
<1>3. Solo'
  BY <1>1 DEF ReadInv, Solo
<1> QED
  BY <1>1, <1>2, <1>3 DEF ReadInv

LEMMA ReadWith ==
  ASSUME NEW r \in Read, NEW n \in Int
  PROVE  /\ [r EXCEPT !.at = "store", !.rows = n] \in Read
         /\ [r EXCEPT !.at = "store", !.rows = n].at = "store"
         /\ [r EXCEPT !.at = "store", !.rows = n].rows = n
         /\ [r EXCEPT !.at = "store", !.rows = n].sig = r.sig
         /\ [r EXCEPT !.at = "store", !.rows = n].lone = r.lone
  BY DEF Read

LEMMA ReadStep ==
  ASSUME MetricsTyped, SessTyped, DoingInv, ReadInv, [Next]_vars
  PROVE  /\ cache' \in [sig : Int, rows : Int]
         /\ reads' \in [Readers -> Read]
         /\ calm' \in BOOLEAN
         /\ ledger' \in Seq(Event)
         /\ ReadInv'
<1>0. /\ Len(ledger) \in Nat /\ ledger \in Seq(Event)
      /\ cache \in [sig : Int, rows : Int]
      /\ reads \in [Readers -> Read]
      /\ calm \in BOOLEAN
  BY DEF MetricsTyped
<1>l. Len(ledger) \in Nat
  BY <1>0
<1>m. \A m \in Readers :
         /\ reads[m].at \in {"rest", "hit", "parse", "store", "store rows", "answer"}
         /\ reads[m].sig \in Int /\ reads[m].rows \in Int /\ reads[m].lone \in BOOLEAN
         /\ reads[m] \in Read
  BY <1>0, ReadMember
<1>c. cache.sig \in Int /\ cache.rows \in Int
  BY <1>0
<1>1. CASE /\ UNCHANGED <<cache, reads, calm>>
           /\ ledger' = ledger \/ \E row \in Event : ledger' = Append(ledger, row)
  <2>1. Len(ledger') >= Len(ledger) /\ Len(ledger') \in Nat /\ ledger' \in Seq(Event)
    <3>1. CASE ledger' = ledger
      BY <1>0, <3>1
    <3>2. CASE \E row \in Event : ledger' = Append(ledger, row)
      BY <1>0, <3>2, LedgerGrows
    <3> QED
      BY <1>1, <3>1, <3>2
  <2>2. ASSUME NEW m \in Readers
        PROVE  ReadOk(m)'
    <3>1. reads[m].at = "parse" => reads[m].sig <= Len(ledger')
      <4>1. reads[m].at = "parse" => reads[m].sig <= Len(ledger)
        BY DEF ReadInv, ReadOk
      <4>2. PICK sig \in Int : sig = reads[m].sig
        BY <1>m
      <4>3. PICK old \in Nat, new \in Nat : old = Len(ledger) /\ new = Len(ledger')
        BY <1>l, <2>1
      <4>4. old <= new /\ (reads[m].at = "parse" => sig <= old)
        BY <2>1, <4>1, <4>2, <4>3
      <4> QED
        BY <4>2, <4>3, <4>4
    <3> QED
      BY <1>1, <3>1 DEF ReadInv, ReadOk
  <2>3. Solo' /\ CacheInv'
    BY <1>1 DEF ReadInv, Solo, CacheInv
  <2> QED
    BY <1>0, <1>1, <2>1, <2>2, <2>3 DEF ReadInv
<1>2. ASSUME UNCHANGED ledger, NEW m \in Readers, Hit(m)
      PROVE  reads' \in [Readers -> Read] /\ ReadInv'
  <2> DEFINE rec == [reads[m] EXCEPT !.at = "answer", !.rows = cache.rows]
  <2>1. /\ reads' = [reads EXCEPT ![m] = rec] /\ UNCHANGED <<cache, calm>>
        /\ reads[m].at = "hit"
    BY <1>0, <1>2, <1>m DEF Hit, Read
  <2>2. /\ rec \in Read /\ rec.at = "answer" /\ rec.rows = cache.rows
        /\ rec.sig = reads[m].sig /\ rec.lone = reads[m].lone
    BY <1>c, <1>m DEF Read
  <2> HIDE DEF rec
  <2>3. reads'[m] = rec /\ \A o \in Readers \ {m} : reads'[o] = reads[o]
    BY <1>0, <2>1
  <2>4. calm => \A o \in Readers : reads[o].at # "store rows"
    BY <2>1 DEF ReadInv, Solo
  <2>5. calm => cache.rows >= cache.sig
    BY <2>4 DEF ReadInv, CacheInv
  <2>6. CacheInv' /\ ReadOk(m)'
    BY <1>m, <2>1, <2>2, <2>3, <2>5 DEF ReadInv, CacheInv, ReadOk
  <2> QED
    BY <1>0, <1>2, <2>1, <2>2, <2>6, OneReadMoves
<1>3. ASSUME UNCHANGED ledger, NEW m \in Readers, Parse(m)
      PROVE  reads' \in [Readers -> Read] /\ ReadInv'
  <2> DEFINE rec == [reads[m] EXCEPT !.at = "store", !.rows = Len(ledger)]
  <2>1. /\ reads' = [reads EXCEPT ![m] = rec] /\ UNCHANGED <<cache, calm>>
        /\ reads[m].at = "parse"
    BY <1>0, <1>3, <1>m DEF Parse, Read
  <2>2. /\ rec \in Read /\ rec.at = "store" /\ rec.rows = Len(ledger)
        /\ rec.sig = reads[m].sig /\ rec.lone = reads[m].lone
    <3>1. PICK n \in Int : n = Len(ledger)
      BY <1>l
    <3>2. PICK r \in Read : r = reads[m]
      BY <1>m
    <3>3. rec = [r EXCEPT !.at = "store", !.rows = n]
      BY <3>1, <3>2
    <3> QED
      BY <3>1, <3>2, <3>3, ReadWith
  <2> HIDE DEF rec
  <2>3. reads'[m] = rec /\ \A o \in Readers \ {m} : reads'[o] = reads[o]
    BY <1>0, <2>1
  <2>4. rec.rows >= rec.sig
    BY <1>0, <1>m, <2>1, <2>2 DEF ReadInv, ReadOk
  <2>5. CacheInv' /\ ReadOk(m)'
    BY <2>1, <2>2, <2>3, <2>4 DEF ReadInv, CacheInv, ReadOk
  <2> QED
    BY <1>0, <1>3, <2>1, <2>2, <2>5, OneReadMoves
<1>4. ASSUME UNCHANGED ledger, NEW m \in Readers, StoreSig(m)
      PROVE  /\ reads' \in [Readers -> Read] /\ ReadInv' /\ UNCHANGED calm
             /\ cache' \in [sig : Int, rows : Int]
  <2> DEFINE rec == [reads[m] EXCEPT !.at = "store rows"]
  <2>1. /\ reads' = [reads EXCEPT ![m] = rec] /\ UNCHANGED calm
        /\ reads[m].at = "store"
    BY <1>0, <1>4, <1>m DEF StoreSig, Read
  <2>2. /\ rec \in Read /\ rec.at = "store rows" /\ rec.rows = reads[m].rows
        /\ rec.sig = reads[m].sig /\ rec.lone = reads[m].lone
    BY <1>m DEF Read
  <2> HIDE DEF rec
  <2>3. reads'[m] = rec /\ \A o \in Readers \ {m} : reads'[o] = reads[o]
    BY <1>0, <2>1
  <2>4. cache' \in [sig : Int, rows : Int] /\ cache'.sig = reads[m].sig
    BY <1>0, <1>4, <1>m DEF StoreSig
  <2>5. rec.rows >= rec.sig
    BY <1>m, <2>1, <2>2 DEF ReadInv, ReadOk
  <2>6. CacheInv' /\ ReadOk(m)'
    BY <2>1, <2>2, <2>3, <2>4, <2>5 DEF CacheInv, ReadOk
  <2>7. \A o \in Readers \ {m} : (~calm /\ ~reads[o].lone) \/ reads[o].at = "rest"
    BY <2>1 DEF ReadInv, Solo
  <2> QED
    BY <1>0, <1>4, <2>1, <2>2, <2>4, <2>6, <2>7, OneReadMoves
<1>5. ASSUME UNCHANGED ledger, NEW m \in Readers, StoreRows(m)
      PROVE  /\ reads' \in [Readers -> Read] /\ ReadInv' /\ calm' \in BOOLEAN
             /\ cache' \in [sig : Int, rows : Int]
  <2> DEFINE rec == [reads[m] EXCEPT !.at = "answer"]
  <2>1. /\ reads' = [reads EXCEPT ![m] = rec] /\ calm' = (calm \/ reads[m].lone)
        /\ reads[m].at = "store rows"
    BY <1>0, <1>5, <1>m DEF StoreRows, Read
  <2>2. /\ rec \in Read /\ rec.at = "answer" /\ rec.rows = reads[m].rows
        /\ rec.sig = reads[m].sig /\ rec.lone = reads[m].lone
    BY <1>m DEF Read
  <2> HIDE DEF rec
  <2>3. reads'[m] = rec /\ \A o \in Readers \ {m} : reads'[o] = reads[o]
    BY <1>0, <2>1
  <2>4. /\ cache' \in [sig : Int, rows : Int]
        /\ cache'.sig = cache.sig /\ cache'.rows = reads[m].rows
    BY <1>0, <1>5, <1>m DEF StoreRows
  <2>5. calm' => \A o \in Readers \ {m} : reads[o].at = "rest"
    BY <1>m, <2>1 DEF ReadInv, Solo
  <2>6. reads[m].rows >= reads[m].sig /\ (calm' => cache.sig = reads[m].sig)
    BY <1>m, <2>1 DEF ReadInv, ReadOk
  <2>7. CacheInv' /\ ReadOk(m)'
    BY <1>c, <1>m, <2>2, <2>3, <2>4, <2>6 DEF CacheInv, ReadOk
  <2>8. \A o \in Readers \ {m} : ReadOk(o)'
    <3> SUFFICES ASSUME NEW o \in Readers \ {m} PROVE ReadOk(o)'
      OBVIOUS
    <3>1. ReadOk(o) /\ reads'[o] = reads[o] /\ (calm' => reads[o].at = "rest")
      BY <2>3, <2>5 DEF ReadInv
    <3> QED
      BY <1>5, <2>4, <3>1 DEF ReadOk
  <2>9. Solo'
    BY <1>m, <2>1, <2>2, <2>3, <2>5 DEF ReadInv, Solo
  <2>10. reads' \in [Readers -> Read]
    BY <1>0, <2>1, <2>2
  <2> QED
    BY <1>0, <1>m, <2>1, <2>3, <2>4, <2>7, <2>8, <2>9, <2>10 DEF ReadInv
<1>6. ASSUME UNCHANGED ledger, NEW m \in Readers, Answer(m) \/ StopSession(m)
      PROVE  reads' \in [Readers -> Read] /\ ReadInv' /\ UNCHANGED <<cache, calm>>
  <2>1. /\ reads' = [reads EXCEPT ![m] = Resting]
        /\ UNCHANGED <<cache, calm>> /\ reads[m].at = "answer"
    BY <1>6 DEF Answer, StopSession
  <2>2. Resting \in Read /\ Resting.at = "rest"
    BY DEF Resting, Read
  <2>3. reads'[m] = Resting /\ \A o \in Readers \ {m} : reads'[o] = reads[o]
    BY <1>0, <2>1
  <2>4. CacheInv' /\ ReadOk(m)'
    BY <2>1, <2>2, <2>3 DEF ReadInv, CacheInv, ReadOk
  <2> QED
    BY <1>0, <1>6, <2>1, <2>2, <2>4, OneReadMoves
<1>7. ASSUME UNCHANGED ledger, NEW m \in Readers, NEW stop \in {0} \cup Sessions, Sign(m, stop)
      PROVE  reads' \in [Readers -> Read] /\ ReadInv' /\ calm' \in BOOLEAN /\ UNCHANGED cache
  <2> DEFINE alone == \A o \in Readers : reads[o].at = "rest"
             rec == [at |-> IF Len(ledger) = cache.sig THEN "hit" ELSE "parse",
                     stop |-> stop, sig |-> Len(ledger), rows |-> 0, lone |-> alone]
             other(o) == [reads[o] EXCEPT !.lone = reads[o].at = "rest"]
  <2>1. /\ reads[m].at = "rest"
        /\ reads' = [o \in Readers |-> IF o = m THEN rec ELSE other(o)]
        /\ calm' = (calm /\ alone) /\ UNCHANGED cache
    BY <1>7 DEF Sign
  <2>2. rec \in Read
    <3>1. alone \in BOOLEAN
      OBVIOUS
    <3>2. (IF Len(ledger) = cache.sig THEN "hit" ELSE "parse")
            \in {"rest", "hit", "parse", "store", "store rows", "answer"}
      OBVIOUS
    <3> HIDE DEF alone
    <3> QED
      BY <1>l, <3>1, <3>2 DEF Read
  <2>3. \A o \in Readers :
          /\ other(o) \in Read
          /\ other(o).at = reads[o].at /\ other(o).sig = reads[o].sig
          /\ other(o).rows = reads[o].rows /\ other(o).lone = (reads[o].at = "rest")
    BY <1>m DEF Read
  <2>4. /\ rec.at = (IF Len(ledger) = cache.sig THEN "hit" ELSE "parse")
        /\ rec.sig = Len(ledger) /\ rec.lone = alone
    OBVIOUS
  <2> HIDE DEF rec, other
  <2>5. /\ reads' \in [Readers -> Read] /\ reads'[m] = rec
        /\ \A o \in Readers \ {m} : reads'[o] = other(o)
    BY <2>1, <2>2, <2>3
  <2>6. Solo'
    BY <1>m, <2>1, <2>3, <2>4, <2>5 DEF ReadInv, Solo
  <2>7. CacheInv'
    BY <1>m, <2>1, <2>3, <2>4, <2>5 DEF ReadInv, CacheInv
  <2>8. ASSUME NEW o \in Readers \ {m}
        PROVE  ReadOk(o)'
    <3>1. /\ reads'[o].at = reads[o].at /\ reads'[o].sig = reads[o].sig
          /\ reads'[o].rows = reads[o].rows /\ (reads'[o].lone = (reads[o].at = "rest"))
      BY <2>3, <2>5
    <3>2. ReadOk(o) /\ (calm' => calm) /\ cache' = cache /\ ledger' = ledger
      BY <1>7, <2>1 DEF ReadInv
    <3> QED
      BY <3>1, <3>2 DEF ReadOk
  <2>9. ReadOk(m)'
    <3>1. \/ rec.at = "hit" /\ Len(ledger) = cache.sig
          \/ rec.at = "parse"
      BY <2>4
    <3>2. PICK n \in Nat : n = Len(ledger)
      BY <1>l
    <3>3. rec.sig <= Len(ledger)
      BY <2>4, <3>2
    <3> QED
      BY <1>7, <2>1, <2>4, <2>5, <3>1, <3>3 DEF ReadOk
  <2>10. calm' \in BOOLEAN
    BY <2>1
  <2> QED
    BY <2>1, <2>5, <2>6, <2>7, <2>8, <2>9, <2>10 DEF ReadInv
<1>8. CASE UNCHANGED ledger /\ MetricsDie
  <2>1. Resting \in Read /\ Resting.at = "rest"
    BY DEF Resting, Read
  <2>2. NoCache \in [sig : Int, rows : Int] /\ NoCache.rows >= NoCache.sig
    BY DEF NoCache
  <2>3. /\ reads' \in [Readers -> Read] /\ \A m \in Readers : reads'[m] = Resting
        /\ cache' = NoCache /\ calm' = TRUE
    BY <1>8, <2>1 DEF MetricsDie
  <2> QED
    BY <1>0, <1>8, <2>1, <2>2, <2>3 DEF ReadInv, Solo, CacheInv, ReadOk
<1>9. CASE UNCHANGED ledger /\ Refresh
  <2>1. PICK m \in Readers :
          Hit(m) \/ Parse(m) \/ StoreSig(m) \/ StoreRows(m) \/ Answer(m) \/ StopSession(m)
    BY <1>9 DEF Refresh
  <2>2. CASE Hit(m)
    BY <1>0, <1>2, <1>9, <2>2 DEF Hit
  <2>3. CASE Parse(m)
    BY <1>0, <1>3, <1>9, <2>3 DEF Parse
  <2> QED
    BY <1>0, <1>4, <1>5, <1>6, <1>9, <2>1, <2>2, <2>3
<1> QED
  BY <1>0, <1>1, <1>7, <1>8, <1>9, ReadMoves

---------------------------------------------------------------------------
\* The requests and the preview servers.

\* What a signal does to the list of servers.
LEMMA Kills ==
  ASSUME procs \in Seq(Server), NEW p, NEW waited
  PROVE  /\ Kill(p, waited) \in Seq(Server)
         /\ DOMAIN Kill(p, waited) = DOMAIN procs
         /\ \A q \in DOMAIN procs :
              /\ Kill(p, waited)[q].session = procs[q].session
              /\ q # p => Kill(p, waited)[q] = procs[q]
              /\ q = p => Kill(p, waited)[q].state # "live"
<1>1. CASE p \in DOMAIN procs
  <2> DEFINE to == IF waited \/ ~procs[p].child \/ procs[p].state = "gone" THEN "gone" ELSE "zombie"
             r == [procs[p] EXCEPT !.state = to]
  <2>1. Kill(p, waited) = [procs EXCEPT ![p] = r]
    BY <1>1 DEF Kill
  <2>2. procs[p] \in Server /\ to \in ProcStates /\ to # "live"
    BY <1>1 DEF ProcStates
  <2> HIDE DEF to
  <2>3. r \in Server /\ r.state = to /\ r.session = procs[p].session
    BY <2>2 DEF Server
  <2> HIDE DEF r
  <2> QED
    BY <1>1, <2>1, <2>2, <2>3
<1>2. CASE p \notin DOMAIN procs
  <2>1. Kill(p, waited) = procs
    BY <1>2 DEF Kill
  <2> QED
    BY <1>2, <2>1
<1> QED
  BY <1>1, <1>2

\* A server is started.
LEMMA Boots ==
  ASSUME NEW old \in Seq(Server), NEW s \in Sessions, NEW why \in {"conversion", "verify"},
         Boot(s, why, old)
  PROVE  /\ procs' \in Seq(Server) /\ DOMAIN procs' = 1 .. Len(old) + 1
         /\ \A p \in DOMAIN old : procs'[p] = old[p]
         /\ procs'[Len(old) + 1].session = s
         /\ doing' \in Holder
         /\ doing'.op = "boot" /\ doing'.session = s /\ doing'.then = <<why>>
         /\ doing'.pid = Len(old) + 1
<1> DEFINE r == [state |-> "live", session |-> s, child |-> TRUE]
<1>1. r \in Server /\ r.session = s
  BY DEF Server, ProcStates
<1>2. procs' = Append(old, r) /\ doing' = [op |-> "boot", session |-> s, then |-> <<why>>, pid |-> Len(procs')]
  BY DEF Boot
<1> HIDE DEF r
<1>3. /\ procs' \in Seq(Server) /\ Len(procs') = Len(old) + 1
      /\ \A p \in DOMAIN old : procs'[p] = old[p]
      /\ procs'[Len(old) + 1] = r
  BY <1>1, <1>2
<1>4. Len(procs') \in Nat /\ <<why>> \in Task
  BY <1>3 DEF Task
<1>5. doing' \in Holder
  BY <1>2, <1>4 DEF Holder
<1> QED
  BY <1>1, <1>2, <1>3, <1>5

\* What a step does to the servers, the sessions and the lock.
LEMMA ServerMoves ==
  ASSUME [Next]_vars
  PROVE  \/ UNCHANGED <<procs, sess, doing, strays>>
         \/ UNCHANGED <<sess, doing, strays>> /\ \E p, waited : procs' = Kill(p, waited)
         \/ \E s \in Sessions :
              \/ \E agent \in Agents : NewSession(s, agent)
              \/ AskTerminal(s) \/ Delete(s) \/ Upload(s) \/ Convert(s) \/ VerifyFile(s)
              \/ \E f \in {NoFolder, Mount} : OpenFolder(s, f)
         \/ Closed \/ Opened \/ Booted \/ BootFails \/ Exit \/ Crash
<1>1. CASE \E s \in Sessions : Request(s)
  BY <1>1 DEF Request, EditFiles, Command, Scaffold, VerifyServer, mvars
<1>2. CASE Refresh /\ UNCHANGED <<tvars, wvars>>
  <2>1. PICK m \in Readers :
          Hit(m) \/ Parse(m) \/ StoreSig(m) \/ StoreRows(m) \/ Answer(m) \/ StopSession(m)
    BY <1>2 DEF Refresh
  <2>2. CASE StopSession(m)
    <3> DEFINE own == SelectSeq(Records(Rows(m)), LAMBDA row : row.session = reads[m].stop)
    <3>1. UNCHANGED procs \/ procs' = Kill(Head(own).pid, FALSE)
      BY <2>2 DEF StopSession
    <3> QED
      BY <1>2, <3>1 DEF wvars
  <2> QED
    BY <1>2, <2>1, <2>2 DEF Hit, Parse, StoreSig, StoreRows, Answer, wvars
<1>3. CASE (\E p \in DOMAIN procs : ServerDies(p)) /\ UNCHANGED <<tvars, wvars>>
  BY <1>3 DEF ServerDies, wvars
<1>4. CASE \/ Shells /\ UNCHANGED <<mvars, wvars>>
           \/ \E k \in DOMAIN terms : AgentWrites(k)
           \/ \E c \in Clients, s \in Sessions : AttachTerminal(c, s)
           \/ \E m \in Readers, stop \in {0} \cup Sessions : Look(m, stop)
           \/ RecordRun
  BY <1>4 DEF AgentWrites, AttachTerminal, Look, Sign, RecordRun, mvars, wvars
<1>5. CASE UNCHANGED vars
  BY <1>5 DEF vars, mvars, wvars
<1> QED
  BY <1>1, <1>2, <1>3, <1>4, <1>5 DEF Next

\* The server of a session that is told to stop is not live any more.
LEMMA StopsIt ==
  ASSUME MetricsTyped, NEW s \in Sessions
  PROVE  /\ Stopped(s) \in Seq(Server) /\ DOMAIN Stopped(s) = DOMAIN procs
         /\ \A p \in DOMAIN procs :
              /\ Stopped(s)[p].session = procs[p].session
              /\ p # sess[s].server => Stopped(s)[p] = procs[p]
              /\ p = sess[s].server => Stopped(s)[p].state # "live"
<1>1. procs \in Seq(Server)
  BY DEF MetricsTyped
<1>2. CASE sess[s].server = NoServer
  <2>1. \A p \in DOMAIN procs : p # sess[s].server
    BY <1>1, <1>2 DEF NoServer
  <2> QED
    BY <1>1, <1>2, <2>1 DEF Stopped
<1>3. CASE sess[s].server # NoServer
  <2>1. PICK p, waited : p = sess[s].server /\ waited = TRUE
    OBVIOUS
  <2>2. Stopped(s) = Kill(p, waited)
    BY <1>3, <2>1 DEF Stopped
  <2>3. /\ Kill(p, waited) \in Seq(Server) /\ DOMAIN Kill(p, waited) = DOMAIN procs
        /\ \A q \in DOMAIN procs :
              /\ Kill(p, waited)[q].session = procs[q].session
              /\ q # p => Kill(p, waited)[q] = procs[q]
              /\ q = p => Kill(p, waited)[q].state # "live"
    BY <1>1, Kills
  <2> QED
    BY <2>1, <2>2, <2>3
<1> QED
  BY <1>2, <1>3

SessionsKept ==
  /\ procs \in Seq(Server) /\ SessTyped
  /\ DoingInv /\ ServersAreOwned

\* A session is added to those there are.
LEMMA NewSessionKeeps ==
  ASSUME MetricsTyped, SessTyped, DoingInv, ServersAreOwned,
         NEW s \in Sessions, NEW agent \in Agents, NewSession(s, agent)
  PROVE  SessionsKept'
<1>0. PICK stay, touched : Prune(s, agent, stay, touched)
  BY DEF NewSession
<1> DEFINE new == [NoSession EXCEPT !.status = "open", !.agent = agent,
                                    !.folder = IF agent = "dev" THEN Home ELSE Jail(s)]
           there == ToSet(jails) \ ((ToSet(jails) \ ToSet(Newest(jails))) \ stay)
           other(r) == [sess[r] EXCEPT !.packed = @ /\ Jail(r) \in there \ touched]
<1>1. /\ sess' = [r \in Sessions |-> IF r = s THEN new ELSE other(r)]
      /\ UNCHANGED <<procs, doing, strays>>
      /\ doing.op = "none" /\ sess[s].status = "none"
  BY <1>0 DEF NewSession, Prune
<1>2. new \in Session
  BY DEF NoSession, Session, Agents, Folders, NoServer
<1>3. \A r \in Sessions : other(r) \in Session /\ other(r).status = sess[r].status
                          /\ other(r).server = sess[r].server
  BY DEF SessTyped, Session
<1> HIDE DEF new, other
<1>4. sess' \in [Sessions -> Session]
  BY <1>1, <1>2, <1>3
<1>5. \A r \in Sessions \ {s} : sess'[r].status = sess[r].status /\ sess'[r].server = sess[r].server
  BY <1>1, <1>3
<1>6. \A p \in DOMAIN procs : procs[p].session \in Sessions
  <2>1. \A p \in DOMAIN procs : procs[p] \in Server
    BY DEF MetricsTyped
  <2> QED
    BY <2>1 DEF Server
<1>7. ServersAreOwned'
  BY <1>1, <1>5, <1>6 DEF ServersAreOwned, Live
<1>8. DoingInv'
  BY <1>1 DEF DoingInv
<1> QED
  BY <1>1, <1>4, <1>7, <1>8 DEF SessionsKept, SessTyped, MetricsTyped

\* A request takes the lock, to close the terminal first.
LEMMA CloseKeeps ==
  ASSUME SessTyped, NEW s \in Sessions, NEW then \in Task, Close(s, then)
  PROVE  /\ doing' \in Holder /\ doing'.op = "close" /\ doing'.session = s /\ doing'.then = then
<1>1. doing' = [NoRequest EXCEPT !.op = "close", !.session = s, !.then = then]
  BY DEF Close
<1> QED
  BY <1>1 DEF NoRequest, Holder

LEMMA SessionStep ==
  ASSUME MetricsTyped, SessTyped, DoingInv, ServersAreOwned, [Next]_vars
  PROVE  SessionsKept'
<1> USE DEF SessionsKept
<1>0. /\ procs \in Seq(Server) /\ sess \in [Sessions -> Session] /\ doing \in Holder
      /\ \A p \in DOMAIN procs : procs[p].session \in Sessions
  <2>1. /\ procs \in Seq(Server) /\ sess \in [Sessions -> Session] /\ doing \in Holder
        /\ \A p \in DOMAIN procs : procs[p] \in Server
    BY DEF MetricsTyped, SessTyped
  <2> QED
    BY <2>1 DEF Server
<1>1. CASE UNCHANGED <<procs, sess, doing, strays>>
  BY <1>0, <1>1 DEF SessTyped, DoingInv, ServersAreOwned, Live
<1>2. CASE UNCHANGED <<sess, doing, strays>> /\ \E p, waited : procs' = Kill(p, waited)
  <2>1. /\ procs' \in Seq(Server) /\ DOMAIN procs' = DOMAIN procs
        /\ \A q \in DOMAIN procs : /\ procs'[q].session = procs[q].session
                                   /\ procs'[q].state = "live" => procs[q].state = "live"
    BY <1>0, <1>2, Kills
  <2>2. DoingInv' /\ SessTyped'
    BY <1>2, <2>1 DEF SessTyped, DoingInv
  <2>3. ServersAreOwned'
    BY <1>2, <2>1 DEF ServersAreOwned, Live
  <2> QED
    BY <2>1, <2>2, <2>3
<1>3. ASSUME NEW s \in Sessions, NEW agent \in Agents, NewSession(s, agent)
      PROVE  SessionsKept'
  BY <1>3, NewSessionKeeps
<1>4. ASSUME NEW s \in Sessions, AskTerminal(s) \/ \E f \in {NoFolder, Mount} : OpenFolder(s, f)
      PROVE  SessionsKept'
  <2>1. /\ UNCHANGED <<procs, sess, strays>> /\ doing.op = "none"
        /\ \E then \in Task : then # <<"closed">> /\ Close(s, then)
             /\ (then = <<"open">> \/ \E f \in Folders \cup {NoFolder} : then = <<"folder", f>>)
    <3>1. CASE AskTerminal(s)
      <4>1. <<"open">> \in Task /\ <<"open">> # <<"closed">>
        BY DEF Task
      <4> QED
        BY <3>1, <4>1 DEF AskTerminal, Locks, mvars
    <3>2. ASSUME NEW f \in {NoFolder, Mount}, OpenFolder(s, f)
          PROVE  <2>1
      <4>1. f \in Folders \cup {NoFolder}
        BY DEF Folders
      <4>2. <<"folder", f>> \in Task /\ <<"folder", f>> # <<"closed">>
        BY <4>1 DEF Task
      <4> QED
        BY <3>2, <4>1, <4>2 DEF OpenFolder, Locks, mvars
    <3> QED
      BY <1>4, <3>1, <3>2
  <2>2. PICK then \in Task : Close(s, then)
             /\ (then = <<"open">> \/ \E f \in Folders \cup {NoFolder} : then = <<"folder", f>>)
    BY <2>1
  <2>3. /\ doing' \in Holder /\ doing'.op = "close" /\ doing'.session = s /\ doing'.then = then
    BY <2>2, CloseKeeps
  <2>4. DoingInv' /\ SessTyped'
    BY <2>1, <2>2, <2>3 DEF DoingInv, SessTyped
  <2>5. ServersAreOwned'
    BY <1>0, <2>1, <2>3 DEF ServersAreOwned, Live
  <2> QED
    BY <1>0, <2>1, <2>4, <2>5
<1>5. ASSUME NEW s \in Sessions, Delete(s)
      PROVE  SessionsKept'
  <2> DEFINE r == [sess[s] EXCEPT !.server = NoServer]
  <2>1. /\ procs' = Stopped(s) /\ sess' = [sess EXCEPT ![s] = r] /\ UNCHANGED strays
        /\ doing.op = "none" /\ Close(s, <<"closed">>)
    BY <1>0, <1>5 DEF Delete, Locks
  <2>2. r \in Session /\ r.server = NoServer
    BY <1>0 DEF Session, NoServer
  <2> HIDE DEF r
  <2>3. /\ sess' \in [Sessions -> Session] /\ sess'[s].server = NoServer
        /\ \A q \in Sessions \ {s} : sess'[q] = sess[q]
    BY <1>0, <2>1, <2>2
  <2>4. <<"closed">> \in Task
    BY DEF Task
  <2>5. /\ doing' \in Holder /\ doing'.op = "close" /\ doing'.session = s /\ doing'.then = <<"closed">>
    BY <2>1, <2>4, CloseKeeps
  <2>6. DoingInv' /\ SessTyped'
    BY <2>3, <2>5 DEF DoingInv, SessTyped
  <2>7. ServersAreOwned'
    BY <1>0, <2>1, <2>3, <2>5, StopsIt DEF ServersAreOwned, Live
  <2> QED
    BY <2>1, <2>6, <2>7, StopsIt
<1>6. ASSUME NEW s \in Sessions, Upload(s)
      PROVE  SessionsKept'
  <2> DEFINE r == [sess[s] EXCEPT !.packed = TRUE]
  <2>1. /\ sess' = [sess EXCEPT ![s] = r] /\ UNCHANGED <<procs, doing, strays>>
    BY <1>0, <1>6 DEF Upload
  <2>2. r \in Session /\ r.server = sess[s].server /\ r.status = sess[s].status
    BY <1>0 DEF Session
  <2> HIDE DEF r
  <2>3. /\ sess' \in [Sessions -> Session]
        /\ \A q \in Sessions : sess'[q].server = sess[q].server /\ sess'[q].status = sess[q].status
    BY <1>0, <2>1, <2>2
  <2>4. DoingInv' /\ SessTyped'
    BY <2>1, <2>3 DEF DoingInv, SessTyped
  <2>5. ServersAreOwned'
    BY <1>0, <2>1, <2>3 DEF ServersAreOwned, Live
  <2> QED
    BY <1>0, <2>1, <2>4, <2>5
<1>7. ASSUME NEW s \in Sessions, Convert(s)
      PROVE  SessionsKept'
  <2> DEFINE r == [sess[s] EXCEPT !.server = NoServer]
             n == Len(Stopped(s)) + 1
  <2>1. /\ sess' = [sess EXCEPT ![s] = r] /\ UNCHANGED strays
        /\ doing.op = "none" /\ Boot(s, "conversion", Stopped(s)) /\ sess[s].status = "open"
    BY <1>0, <1>7 DEF Convert, Locks
  <2>2. r \in Session /\ r.server = NoServer /\ r.status = sess[s].status
    BY <1>0 DEF Session, NoServer
  <2> HIDE DEF r
  <2>3. /\ sess' \in [Sessions -> Session] /\ sess'[s].server = NoServer /\ sess'[s].status = "open"
        /\ \A q \in Sessions \ {s} : sess'[q] = sess[q]
    BY <1>0, <2>1, <2>2
  <2>4. /\ Stopped(s) \in Seq(Server) /\ DOMAIN Stopped(s) = DOMAIN procs
        /\ n \in Nat \ {0} /\ DOMAIN procs = 1 .. n - 1
    BY <1>0, StopsIt
  <2>5. /\ procs' \in Seq(Server) /\ DOMAIN procs' = 1 .. n
        /\ \A p \in DOMAIN procs : procs'[p] = Stopped(s)[p]
        /\ procs'[n].session = s
        /\ doing' \in Holder /\ doing'.op = "boot" /\ doing'.session = s
        /\ doing'.then = <<"conversion">> /\ doing'.pid = n
    BY <2>1, <2>4, Boots
  <2> HIDE DEF n
  <2>6. DoingInv' /\ SessTyped'
    BY <2>3, <2>4, <2>5 DEF DoingInv, SessTyped
  <2>7. ServersAreOwned'
    <3> SUFFICES ASSUME NEW p \in Live' \ strays'
                 PROVE  \/ doing'.op = "boot" /\ doing'.pid = p
                        \/ /\ sess'[procs'[p].session].server = p
                           /\ sess'[procs'[p].session].status = "open"
      BY DEF ServersAreOwned
    <3>1. CASE p = n
      BY <2>5, <3>1
    <3>2. CASE p # n
      <4>1. p \in DOMAIN procs /\ procs'[p] = Stopped(s)[p]
        BY <2>4, <2>5, <3>2 DEF Live
      <4>2. p # sess[s].server /\ procs'[p] = procs[p]
        BY <4>1, StopsIt DEF Live
      <4>3. sess[procs[p].session].server = p /\ sess[procs[p].session].status = "open"
        BY <2>1, <4>1, <4>2 DEF ServersAreOwned, Live
      <4> QED
        BY <1>0, <2>3, <4>1, <4>2, <4>3
    <3> QED
      BY <3>1, <3>2
  <2> QED
    BY <2>5, <2>6, <2>7
<1>8. ASSUME NEW s \in Sessions, VerifyFile(s)
      PROVE  SessionsKept'
  <2> DEFINE n == Len(procs) + 1
  <2>1. /\ UNCHANGED <<sess, strays>> /\ sess[s].server = NoServer /\ sess[s].status = "open"
        /\ doing.op = "none" /\ Boot(s, "verify", procs)
    BY <1>0, <1>8 DEF VerifyFile, Locks
  <2>2. n \in Nat \ {0} /\ DOMAIN procs = 1 .. n - 1
    BY <1>0
  <2>3. /\ procs' \in Seq(Server) /\ DOMAIN procs' = 1 .. n
        /\ \A p \in DOMAIN procs : procs'[p] = procs[p]
        /\ procs'[n].session = s
        /\ doing' \in Holder /\ doing'.op = "boot" /\ doing'.session = s
        /\ doing'.then = <<"verify">> /\ doing'.pid = n
    BY <1>0, <2>1, Boots
  <2> HIDE DEF n
  <2>4. DoingInv' /\ SessTyped'
    BY <2>1, <2>2, <2>3 DEF DoingInv, SessTyped
  <2>5. ServersAreOwned'
    <3> SUFFICES ASSUME NEW p \in Live' \ strays'
                 PROVE  \/ doing'.op = "boot" /\ doing'.pid = p
                        \/ /\ sess'[procs'[p].session].server = p
                           /\ sess'[procs'[p].session].status = "open"
      BY DEF ServersAreOwned
    <3>1. CASE p = n
      BY <2>3, <3>1
    <3>2. CASE p # n
      <4>1. p \in DOMAIN procs /\ procs'[p] = procs[p]
        BY <2>2, <2>3, <3>2 DEF Live
      <4> QED
        BY <2>1, <4>1 DEF ServersAreOwned, Live
    <3> QED
      BY <3>1, <3>2
  <2> QED
    BY <2>3, <2>4, <2>5
<1>9. CASE Closed
  <2> DEFINE s == doing.session
             closed == [sess[s] EXCEPT !.status = "closed"]
             moved(f) == [sess[s] EXCEPT !.folder = f]
  <2>1. /\ doing.op = "close" /\ s \in Sessions /\ UNCHANGED <<procs, strays>>
    BY <1>9 DEF Closed, DoingInv, mvars
  <2>2. /\ closed \in Session /\ closed.server = sess[s].server
        /\ \A f \in Folders \cup {NoFolder} :
             moved(f) \in Session /\ moved(f).server = sess[s].server
             /\ moved(f).status = sess[s].status
    BY <1>0, <2>1 DEF Session
  <2>3. NoRequest \in Holder /\ NoRequest.op = "none"
    BY DEF NoRequest, Holder, Task
  <2>4. CASE doing.then = <<"open">>
    <3>1. sess' = sess /\ doing' = [doing EXCEPT !.op = "open"]
      BY <1>9, <2>4 DEF Closed
    <3>2. doing' \in Holder /\ doing'.op = "open" /\ doing'.session = s
      BY <1>0, <3>1 DEF Holder
    <3>3. DoingInv' /\ SessTyped'
      BY <1>0, <2>1, <3>1, <3>2 DEF DoingInv, SessTyped
    <3>4. ServersAreOwned'
      BY <2>1, <3>1, <3>2 DEF ServersAreOwned, Live
    <3> QED
      BY <1>0, <2>1, <3>3, <3>4
  <2>5. ASSUME NEW f \in Folders \cup {NoFolder}, doing.then = <<"folder", f>>
        PROVE  SessionsKept'
    <3>1. sess' = [sess EXCEPT ![s] = moved(f)] /\ doing' = NoRequest
      BY <1>0, <1>9, <2>1, <2>5 DEF Closed
    <3> HIDE DEF moved
    <3>2. /\ sess' \in [Sessions -> Session]
          /\ \A q \in Sessions : sess'[q].server = sess[q].server /\ sess'[q].status = sess[q].status
      BY <1>0, <2>1, <2>2, <3>1
    <3>3. DoingInv' /\ SessTyped'
      BY <2>3, <3>1, <3>2 DEF DoingInv, SessTyped
    <3>4. ServersAreOwned'
      BY <1>0, <2>1, <3>1, <3>2 DEF ServersAreOwned, Live
    <3> QED
      BY <1>0, <2>1, <3>3, <3>4
  <2>6. CASE doing.then = <<"closed">> /\ sess[s].server = NoServer
    <3>1. sess' = [sess EXCEPT ![s] = closed] /\ doing' = NoRequest
      BY <1>0, <1>9, <2>1, <2>6 DEF Closed
    <3> HIDE DEF closed
    <3>2. /\ sess' \in [Sessions -> Session] /\ sess'[s].server = NoServer
          /\ \A q \in Sessions \ {s} : sess'[q] = sess[q]
      BY <1>0, <2>1, <2>2, <2>6, <3>1
    <3>3. DoingInv' /\ SessTyped'
      BY <2>3, <3>1, <3>2 DEF DoingInv, SessTyped
    <3>4. \A p \in DOMAIN procs : p # NoServer
      BY <1>0 DEF NoServer
    <3>5. ServersAreOwned'
      BY <1>0, <2>1, <2>6, <3>1, <3>2, <3>4 DEF ServersAreOwned, Live
    <3> QED
      BY <1>0, <2>1, <3>3, <3>5
  <2> QED
    BY <2>1, <2>4, <2>5, <2>6 DEF DoingInv
<1>10. CASE Opened
  <2>1. UNCHANGED <<procs, sess, strays>> /\ doing.op = "open" /\ doing' = NoRequest
    BY <1>10 DEF Opened, mvars
  <2>2. NoRequest \in Holder /\ NoRequest.op = "none"
    BY DEF NoRequest, Holder, Task
  <2>3. DoingInv' /\ SessTyped'
    BY <1>0, <2>1, <2>2 DEF DoingInv, SessTyped
  <2>4. ServersAreOwned'
    BY <1>0, <2>1, <2>2 DEF ServersAreOwned, Live
  <2> QED
    BY <1>0, <2>1, <2>3, <2>4
<1>11. CASE Booted
  <2> DEFINE s == doing.session
             tools == IF doing.then[1] = "conversion" THEN procs[doing.pid].state = "live"
                      ELSE sess[s].tools
             r == [sess[s] EXCEPT !.server = doing.pid, !.tools = tools]
  <2>1. /\ doing.op = "boot" /\ s \in Sessions /\ doing.pid \in DOMAIN procs
        /\ procs[doing.pid].session = s /\ sess[s].status = "open" /\ sess[s].server = NoServer
        /\ UNCHANGED <<procs, strays>> /\ doing' = NoRequest
    BY <1>11 DEF Booted, DoingInv
  <2>2. sess' = [sess EXCEPT ![s] = r]
    BY <1>0, <1>11, <2>1 DEF Booted
  <2>3. tools \in BOOLEAN /\ doing.pid \in Nat /\ sess[s] \in Session
    BY <1>0, <2>1 DEF Session, Holder
  <2> HIDE DEF tools
  <2>4. r \in Session /\ r.server = doing.pid /\ r.status = sess[s].status
    BY <2>3 DEF Session
  <2> HIDE DEF r
  <2>5. /\ sess' \in [Sessions -> Session]
        /\ sess'[s].server = doing.pid /\ sess'[s].status = "open"
        /\ \A q \in Sessions \ {s} : sess'[q] = sess[q]
    BY <1>0, <2>1, <2>2, <2>4
  <2>6. NoRequest \in Holder /\ NoRequest.op = "none"
    BY DEF NoRequest, Holder, Task
  <2>7. DoingInv' /\ SessTyped'
    BY <2>1, <2>5, <2>6 DEF DoingInv, SessTyped
  <2>8. \A p \in DOMAIN procs : p # NoServer
    BY <1>0 DEF NoServer
  <2>9. ServersAreOwned'
    BY <1>0, <2>1, <2>5, <2>8 DEF ServersAreOwned, Live
  <2> QED
    BY <1>0, <2>1, <2>7, <2>9
<1>12. CASE BootFails
  <2>1. /\ doing.op = "boot" /\ doing' = NoRequest /\ UNCHANGED <<procs, sess>>
        /\ strays' = strays \cup {doing.pid}
    BY <1>12 DEF BootFails, mvars
  <2>2. NoRequest \in Holder /\ NoRequest.op = "none"
    BY DEF NoRequest, Holder, Task
  <2>3. DoingInv' /\ SessTyped'
    BY <1>0, <2>1, <2>2 DEF DoingInv, SessTyped
  <2>4. ServersAreOwned'
    BY <1>0, <2>1, <2>2 DEF ServersAreOwned, Live
  <2> QED
    BY <1>0, <2>1, <2>3, <2>4
<1>13. ASSUME NEW left, NEW excused, Die(left, excused),
              \A p \in left \cap Live : p \in strays \cup excused
       PROVE  SessionsKept'
  <2> DEFINE fate(p) == [procs[p] EXCEPT !.state = IF p \in left THEN @ ELSE "gone", !.child = FALSE]
             lost(s) == [NoSession EXCEPT !.status = "lost", !.packed = sess[s].packed]
  <2>1. /\ procs' = [p \in DOMAIN procs |-> fate(p)]
        /\ sess' = [s \in Sessions |-> IF sess[s].status = "none" THEN sess[s] ELSE lost(s)]
        /\ doing' = NoRequest /\ strays' = strays \cup excused
    BY <1>13 DEF Die
  <2>2. \A p \in DOMAIN procs : fate(p) \in Server
    <3>1. \A p \in DOMAIN procs : procs[p] \in Server
      BY <1>0
    <3> QED
      BY <3>1 DEF Server, ProcStates
  <2>3. \A p \in DOMAIN procs : p \notin left => fate(p).state # "live"
    BY <1>0 DEF Server
  <2>4. \A p \in DOMAIN procs : p \in left => fate(p).state = procs[p].state
    BY <1>0 DEF Server
  <2>5. \A s \in Sessions : lost(s) \in Session
    <3>1. \A s \in Sessions : sess[s] \in Session
      BY <1>0
    <3> QED
      BY <3>1 DEF NoSession, Session, NoServer
  <2> HIDE DEF fate, lost
  <2>6. procs' \in Seq(Server) /\ DOMAIN procs' = DOMAIN procs
    BY <1>0, <2>1, <2>2
  <2>7. sess' \in [Sessions -> Session]
    BY <1>0, <2>1, <2>5
  <2>8. NoRequest \in Holder /\ NoRequest.op = "none"
    BY DEF NoRequest, Holder, Task
  <2>9. DoingInv' /\ SessTyped'
    BY <2>1, <2>7, <2>8 DEF DoingInv, SessTyped
  <2>10. ServersAreOwned'
    BY <1>13, <2>1, <2>3, <2>4, <2>6 DEF ServersAreOwned, Live
  <2> QED
    BY <2>6, <2>9, <2>10
<1>14. CASE Exit
  <2>1. \A p \in (Live \ {sess[s].server : s \in Sessions}) \cap Live : p \in strays \cup Booting
    BY <1>0 DEF ServersAreOwned, Live, Booting
  <2> QED
    BY <1>13, <1>14, <2>1 DEF Exit
<1>15. CASE Crash
  BY <1>13, <1>15 DEF Crash
<1> QED
  BY <1>1, <1>2, <1>3, <1>4, <1>5, <1>6, <1>7, <1>8, <1>9, <1>10, <1>11, <1>12, <1>14, <1>15, ServerMoves

---------------------------------------------------------------------------
\* The terminals.

\* A terminal that is opened gets a descriptor no open one has.
LEMMA FreeFdIsFree ==
  ASSUME TermsTyped
  PROVE  FreeFd \in Nat /\ \A k \in OpenTerms : terms[k].fd # FreeFd
<1> DEFINE n == Len(terms)
           F == {terms[k].fd : k \in OpenTerms}
<1>1. n \in Nat /\ OpenTerms \subseteq 1 .. n
  BY DEF TermsTyped, OpenTerms
<1>2. IsFiniteSet(1 .. n) /\ Cardinality(1 .. n) = n
  BY <1>1, FS_Interval
<1>3. IsFiniteSet(OpenTerms) /\ Cardinality(OpenTerms) <= n /\ Cardinality(OpenTerms) \in Nat
  <2>1. \A T \in SUBSET (1 .. n) : IsFiniteSet(T) /\ Cardinality(T) <= Cardinality(1 .. n)
    BY <1>2, FS_Subset
  <2>2. IsFiniteSet(OpenTerms) /\ Cardinality(OpenTerms) <= Cardinality(1 .. n)
    BY <1>1, <2>1
  <2>3. Cardinality(OpenTerms) \in Nat
    BY <2>2, FS_CardinalityType
  <2> HIDE DEF n
  <2> QED
    BY <1>2, <2>2, <2>3
<1>4. IsFiniteSet(F) /\ Cardinality(F) <= Cardinality(OpenTerms) /\ Cardinality(F) \in Nat
  <2> DEFINE f == [k \in OpenTerms |-> terms[k].fd]
  <2>1. f \in Surjection(OpenTerms, F)
    BY DEF Surjection
  <2>2. IsFiniteSet(F) /\ Cardinality(F) <= Cardinality(OpenTerms)
    BY <1>3, <2>1, FS_Surjection
  <2> QED
    BY <2>2, FS_CardinalityType
<1>5. IsFiniteSet(1 .. n + 1) /\ Cardinality(1 .. n + 1) = n + 1
  BY <1>1, FS_Interval
<1>6. ~ (1 .. n + 1 \subseteq F)
  <2> SUFFICES ASSUME 1 .. n + 1 \subseteq F PROVE FALSE
    OBVIOUS
  <2> HIDE DEF F
  <2>1. Cardinality(1 .. n + 1) <= Cardinality(F)
    BY <1>4, FS_Subset
  <2> QED
    BY <1>1, <1>3, <1>4, <1>5, <2>1
<1>7. FreeFd \in (1 .. n + 1) \ F
  <2> DEFINE S == (1 .. n + 1) \ F
  <2>1. S \in SUBSET Nat /\ S # {}
    BY <1>1, <1>6
  <2>2. FreeFd = Min(S)
    BY DEF FreeFd
  <2> HIDE DEF S
  <2>3. FreeFd \in S
    BY <2>1, <2>2, LeastNumber
  <2> QED
    BY <2>3 DEF S
<1> QED
  BY <1>1, <1>7

\* What a buffer keeps is what came last.
LEMMA KeptIsTail ==
  ASSUME NEW S, NEW q \in Seq(S)
  PROVE  \E d \in Nat :
           /\ Kept(q) \in Seq(S) /\ d <= Len(q) /\ Len(Kept(q)) = Len(q) - d
           /\ \A i \in 1 .. Len(q) - d : Kept(q)[i] = q[i + d]
           /\ Len(q) <= Cap => d = 0
<1>1. Cap \in Nat /\ Len(q) \in Nat
  BY TerminalsAssumption
<1> DEFINE m == Min({Cap, Len(q)})
           d == Len(q) - m
<1>2. m = IF Cap <= Len(q) THEN Cap ELSE Len(q)
  BY <1>1, SmallerOfTwo
<1>3. Kept(q) = SubSeq(q, Len(q) - m + 1, Len(q))
  BY DEF Kept
<1>4. m \in Nat /\ m <= Len(q) /\ (Len(q) <= Cap => m = Len(q))
  BY <1>1, <1>2
<1> HIDE DEF m
<1>5. d \in Nat /\ d <= Len(q) /\ (Len(q) <= Cap => d = 0) /\ Kept(q) = SubSeq(q, d + 1, Len(q))
  BY <1>1, <1>3, <1>4
<1> HIDE DEF d
<1>6. /\ Kept(q) \in Seq(S) /\ Len(Kept(q)) = Len(q) - d
      /\ \A i \in 1 .. Len(q) - d : Kept(q)[i] = q[i + d]
  BY <1>1, <1>5
<1> QED
  BY <1>5, <1>6

\* What a stream has after a frame: what it had, then what the buffer had
\* beyond the offset.
Frame(got, buf, sent) == got \o SubSeq(buf, sent + 1, Len(buf))

LEMMA FrameIsTail ==
  ASSUME NEW got \in Seq(Chunk), NEW buf \in Seq(Chunk), NEW sent \in Nat, Len(buf) > sent
  PROVE  LET all == Frame(got, buf, sent) IN
         /\ all \in Seq(Chunk) /\ Len(all) = Len(got) + (Len(buf) - sent)
         /\ \A i \in 1 .. Len(got) : all[i] = got[i]
         /\ \A i \in Len(got) + 1 .. Len(all) :
              /\ i - Len(got) + sent \in sent + 1 .. Len(buf)
              /\ all[i] = buf[i - Len(got) + sent]
         /\ \A n \in sent + 1 .. Len(buf) : buf[n] \in ToSet(all)
         /\ ToSet(got) \subseteq ToSet(all)
<1>0. PICK all : all = Frame(got, buf, sent)
  OBVIOUS
<1> DEFINE new == SubSeq(buf, sent + 1, Len(buf))
<1>1. /\ new \in Seq(Chunk) /\ Len(new) = Len(buf) - sent
      /\ \A i \in 1 .. Len(buf) - sent : new[i] = buf[i + sent]
  OBVIOUS
<1>2. all = got \o new
  BY <1>0 DEF Frame
<1> HIDE DEF new
<1>3. /\ all \in Seq(Chunk) /\ Len(all) = Len(got) + Len(new)
      /\ \A i \in 1 .. Len(got) + Len(new) :
           all[i] = IF i <= Len(got) THEN got[i] ELSE new[i - Len(got)]
  <2> DEFINE r == got \o new
  <2>1. /\ r \in Seq(Chunk) /\ Len(r) = Len(got) + Len(new)
        /\ \A i \in 1 .. Len(got) + Len(new) :
             r[i] = IF i <= Len(got) THEN got[i] ELSE new[i - Len(got)]
    BY <1>1, ConcatProperties
  <2>2. all = r
    BY <1>2
  <2> HIDE DEF r
  <2> QED
    BY <2>1, <2>2
<1>4. Len(all) = Len(got) + (Len(buf) - sent)
  BY <1>1, <1>3
<1>n. PICK x \in Nat, y \in Nat, z \in Nat : x = Len(got) /\ y = Len(new) /\ z = Len(buf)
  <2>1. Len(got) \in Nat /\ Len(new) \in Nat /\ Len(buf) \in Nat
    BY <1>1
  <2> QED
    BY <2>1
<1>r. /\ z > sent /\ y = z - sent
      /\ \A i \in 1 .. x + y : all[i] = IF i <= x THEN got[i] ELSE new[i - x]
      /\ \A i \in 1 .. y : new[i] = buf[i + sent]
      /\ Len(all) = x + y
  BY <1>1, <1>3, <1>n
<1>5. \A i \in 1 .. Len(got) : all[i] = got[i]
  <2>1. \A i \in 1 .. x : i \in 1 .. x + y /\ i <= x
    BY <1>r
  <2> QED
    BY <1>n, <1>r, <2>1
<1>6. \A i \in Len(got) + 1 .. Len(all) :
        /\ i - Len(got) + sent \in sent + 1 .. Len(buf)
        /\ all[i] = buf[i - Len(got) + sent]
  <2>1. ASSUME NEW i \in x + 1 .. x + y
        PROVE  i - x + sent \in sent + 1 .. z /\ all[i] = buf[i - x + sent]
    <3>1. i \in 1 .. x + y /\ ~(i <= x) /\ i - x \in 1 .. y /\ i - x + sent \in sent + 1 .. z
      BY <1>r
    <3> QED
      BY <1>r, <3>1
  <2> QED
    BY <1>n, <1>r, <2>1
<1>7. ASSUME NEW n \in sent + 1 .. Len(buf)
      PROVE  buf[n] \in ToSet(all)
  <2>0. /\ x + (n - sent) \in 1 .. x + y /\ ~(x + (n - sent) <= x)
        /\ x + (n - sent) - x = n - sent /\ n - sent \in 1 .. y /\ n - sent + sent = n
    BY <1>n, <1>r
  <2>1. /\ Len(got) + (n - sent) \in 1 .. Len(all)
        /\ all[Len(got) + (n - sent)] = buf[n]
    BY <1>n, <1>r, <2>0
  <2>2. DOMAIN all = 1 .. Len(all)
    BY <1>3
  <2> HIDE <1>1
  <2> QED
    BY <2>1, <2>2 DEF ToSet
<1>8. ToSet(got) \subseteq ToSet(all)
  <2>1. DOMAIN got = 1 .. Len(got) /\ DOMAIN all = 1 .. Len(all) /\ Len(got) <= Len(all)
    BY <1>1, <1>3
  <2>2. \A i \in DOMAIN got : i \in DOMAIN all /\ all[i] = got[i]
    BY <1>3, <1>5, <2>1
  <2> QED
    BY <2>2, Zenon DEF ToSet
<1> QED
  BY <1>0, <1>3, <1>4, <1>5, <1>6, <1>7, <1>8

LEMMA ChunkIsPair ==
  ASSUME NEW x \in Chunk
  PROVE  x = <<x[1], x[2]>> /\ x[1] \in Nat /\ x[2] \in Nat \ {0}
  BY DEF Chunk

TermsOk == FdInv /\ BufferInv /\ StreamInv

\* The terminals go on as they are, or fewer of them are open.
LEMMA LessOpenKeeps ==
  ASSUME TermsTyped, TermsOk, UNCHANGED robbed,
         terms' \in Seq(Term), Len(terms') = Len(terms),
         \A k \in DOMAIN terms :
           /\ terms'[k].session = terms[k].session /\ terms'[k].fd = terms[k].fd
           /\ terms'[k].taken = terms[k].taken /\ terms'[k].buf = terms[k].buf
           /\ terms'[k].open => terms[k].open,
         pty' \in [Sessions -> Nat],
         \A s \in Sessions :
           \/ pty'[s] = NoTerm
           \/ pty'[s] = pty[s] /\ (pty[s] \in OpenTerms => pty[s] \in OpenTerms'),
         streams' \in [Clients -> Stream],
         \A c \in Clients :
           /\ streams'[c].got = streams[c].got /\ streams'[c].sent = streams[c].sent
           /\ streams'[c].session = streams[c].session
           /\ streams'[c].on => streams[c].on
  PROVE  TermsTyped' /\ TermsOk'
<1>1. DOMAIN terms' = DOMAIN terms
  BY DEF TermsTyped
<1>2. OpenTerms' \subseteq OpenTerms
  BY <1>1 DEF OpenTerms
<1>3. \A k : Whole(k)' /\ k \in DOMAIN terms => Whole(k)
  BY DEF Whole
<1>4. FdInv'
  <2>1. \A j, k \in OpenTerms' : terms'[j].fd = terms'[k].fd => j = k
    BY <1>1, <1>2 DEF TermsOk, FdInv, OpenTerms
  <2>2. ASSUME NEW s \in Sessions, pty'[s] # NoTerm
        PROVE  pty'[s] \in OpenTerms' /\ terms'[pty'[s]].session = s
    <3>1. pty'[s] = pty[s] /\ pty[s] \in OpenTerms /\ terms[pty[s]].session = s
      BY <2>2 DEF TermsOk, FdInv
    <3>2. pty[s] \in DOMAIN terms
      BY <3>1 DEF OpenTerms
    <3>3. pty[s] \in OpenTerms'
      BY <2>2, <3>1
    <3> QED
      BY <3>1, <3>2, <3>3
  <2> QED
    BY <2>1, <2>2 DEF FdInv
<1>5. BufferInv'
  <2> SUFFICES ASSUME NEW k \in OpenTerms'
               PROVE  LET buf == terms'[k].buf IN
                 /\ \A i \in DOMAIN buf : buf[i][1] = k /\ buf[i][2] <= terms'[k].taken
                 /\ \A i, j \in DOMAIN buf : i < j => buf[i][2] < buf[j][2]
                 /\ Whole(k)' => Len(buf) = terms'[k].taken /\ \A i \in DOMAIN buf : buf[i][2] = i
    BY DEF BufferInv
  <2>1. k \in OpenTerms /\ k \in DOMAIN terms
    BY <1>2 DEF OpenTerms
  <2> QED
    BY <1>3, <2>1 DEF TermsOk, BufferInv
<1>6. ASSUME NEW c \in Clients
      PROVE  Heard(c)' /\ Complete(c)' /\ \A k \in DOMAIN terms' : Follows(c, k)' => Ahead(c, k)'
  <2>1. Heard(c) /\ Complete(c) /\ \A k \in DOMAIN terms : Follows(c, k) => Ahead(c, k)
    BY DEF TermsOk, StreamInv
  <2>2. Heard(c)'
    BY <1>1, <2>1 DEF Heard
  <2>3. streams[c].got # <<>> => streams[c].got[1][1] \in DOMAIN terms
    <3>1. streams[c].got \in Seq(Chunk)
      BY DEF TermsTyped, Stream
    <3> HIDE <1>1
    <3>2. streams[c].got # <<>> => 1 \in DOMAIN streams[c].got
      BY <3>1
    <3> QED
      BY <2>1, <3>2 DEF Heard
  <2>4. Complete(c)'
    BY <1>3, <2>1, <2>3 DEF Complete
  <2>5. \A k \in DOMAIN terms : Follows(c, k)' => Follows(c, k)
    BY DEF Follows
  <2>6. \A k \in DOMAIN terms : Ahead(c, k) => Ahead(c, k)'
    BY <1>3 DEF Ahead
  <2> QED
    BY <1>1, <2>1, <2>2, <2>4, <2>5, <2>6
<1> QED
  BY <1>4, <1>5, <1>6 DEF TermsTyped, TermsOk, StreamInv

\* A terminal is opened.
LEMMA OpenKeeps ==
  ASSUME TermsTyped, TermsOk, NEW s \in Sessions, NEW starts \in BOOLEAN, OpenTerminal(s, starts)
  PROVE  TermsTyped' /\ TermsOk'
<1> DEFINE new == [session |-> s, fd |-> FreeFd, open |-> TRUE, shell |-> starts,
                   reader |-> starts, out |-> 0, taken |-> 0, buf |-> <<>>]
           n == Len(terms) + 1
<1>1. FreeFd \in Nat /\ \A k \in OpenTerms : terms[k].fd # FreeFd
  BY FreeFdIsFree
<1>2. /\ new \in Term /\ new.session = s /\ new.fd = FreeFd /\ new.open /\ new.buf = <<>>
      /\ new.taken = 0
  BY <1>1 DEF Term
<1>3. /\ terms' = Append(terms, new)
      /\ pty' = [pty EXCEPT ![s] = IF starts THEN Len(terms') ELSE @]
      /\ streams' = streams /\ robbed' = robbed
  BY DEF OpenTerminal
<1> HIDE DEF new
<1>0. terms \in Seq(Term) /\ pty \in [Sessions -> Nat] /\ streams \in [Clients -> Stream]
  BY DEF TermsTyped
<1>4. /\ terms' \in Seq(Term) /\ Len(terms') = n /\ n \in Nat \ {0}
      /\ DOMAIN terms = 1 .. n - 1 /\ DOMAIN terms' = 1 .. n
      /\ terms'[n] = new
      /\ \A k \in DOMAIN terms : terms'[k] = terms[k]
  BY <1>0, <1>2, <1>3
<1> HIDE DEF n
<1>5. pty' \in [Sessions -> Nat] /\ \A r \in Sessions : pty'[r] = pty[r] \/ (r = s /\ pty'[r] = n)
  BY <1>0, <1>3, <1>4
<1>6. OpenTerms' = OpenTerms \cup {n} /\ n \notin DOMAIN terms
  BY <1>2, <1>4 DEF OpenTerms
<1>7. \A k \in OpenTerms : k \in DOMAIN terms /\ terms'[k] = terms[k]
  BY <1>4 DEF OpenTerms
<1>8. FdInv'
  <2>1. \A j, k \in OpenTerms' : terms'[j].fd = terms'[k].fd => j = k
    BY <1>1, <1>2, <1>4, <1>6, <1>7 DEF TermsOk, FdInv
  <2>2. \A r \in Sessions : pty'[r] # NoTerm => pty'[r] \in OpenTerms' /\ terms'[pty'[r]].session = r
    BY <1>2, <1>4, <1>5, <1>6, <1>7 DEF TermsOk, FdInv
  <2> QED
    BY <2>1, <2>2 DEF FdInv
<1>9. \A k \in DOMAIN terms : Whole(k)' => Whole(k)
  BY <1>3, <1>4 DEF Whole
<1>10. BufferInv'
  <2> SUFFICES ASSUME NEW k \in OpenTerms'
               PROVE  LET buf == terms'[k].buf IN
                 /\ \A i \in DOMAIN buf : buf[i][1] = k /\ buf[i][2] <= terms'[k].taken
                 /\ \A i, j \in DOMAIN buf : i < j => buf[i][2] < buf[j][2]
                 /\ Whole(k)' => Len(buf) = terms'[k].taken /\ \A i \in DOMAIN buf : buf[i][2] = i
    BY DEF BufferInv
  <2>1. CASE k = n
    BY <1>2, <1>4, <2>1
  <2>2. CASE k \in OpenTerms
    BY <1>7, <1>9, <2>2 DEF TermsOk, BufferInv
  <2> QED
    BY <1>6, <2>1, <2>2
<1>11. ASSUME NEW c \in Clients
       PROVE  Heard(c)' /\ Complete(c)' /\ \A k \in DOMAIN terms' : Follows(c, k)' => Ahead(c, k)'
  <2>1. Heard(c) /\ Complete(c) /\ \A k \in DOMAIN terms : Follows(c, k) => Ahead(c, k)
    BY DEF TermsOk, StreamInv
  <2>2. Heard(c)'
    BY <1>3, <1>4, <2>1 DEF Heard
  <2>3. streams[c].got # <<>> => streams[c].got[1][1] \in DOMAIN terms
    <3>1. streams[c].got \in Seq(Chunk)
      BY <1>0 DEF Stream
    <3>2. streams[c].got # <<>> => 1 \in DOMAIN streams[c].got
      BY <3>1
    <3> QED
      BY <2>1, <3>2 DEF Heard
  <2>4. Complete(c)'
    BY <1>3, <1>9, <2>1, <2>3 DEF Complete
  <2>5. ASSUME NEW k \in DOMAIN terms', Follows(c, k)'
        PROVE  Ahead(c, k)'
    <3>1. CASE k = n
      <4>1. terms'[k].buf = <<>> /\ ~(streams[c].got # <<>> /\ streams[c].got[1][1] = k)
        BY <1>2, <1>4, <1>6, <2>3, <3>1
      <4> QED
        BY <1>3, <4>1 DEF Ahead
    <3>2. CASE k \in DOMAIN terms
      <4>1. Follows(c, k)
        BY <1>3, <1>5, <1>6, <2>5, <3>2 DEF Follows
      <4> QED
        BY <1>3, <1>4, <1>9, <2>1, <3>2, <4>1 DEF Ahead
    <3> QED
      BY <1>4, <3>1, <3>2
  <2> QED
    BY <2>1, <2>2, <2>4, <2>5
<1> QED
  BY <1>0, <1>3, <1>4, <1>5, <1>8, <1>10, <1>11 DEF TermsTyped, TermsOk, StreamInv

\* A browser attaches to a terminal.
LEMMA AttachKeeps ==
  ASSUME TermsTyped, TermsOk, NEW c \in Clients, NEW s \in Sessions, Attach(c, s)
  PROVE  TermsTyped' /\ TermsOk'
<1> DEFINE new == [NoStream EXCEPT !.on = TRUE, !.session = s]
<1>1. new \in Stream /\ new.session = s /\ new.got = <<>> /\ new.sent = 0
  <2>1. NoStream \in Stream
    BY DEF NoStream, Stream
  <2>2. new \in Stream
    BY <2>1 DEF Stream
  <2> QED
    BY <2>2 DEF NoStream
<1>2. streams' = [streams EXCEPT ![c] = new] /\ UNCHANGED <<terms, pty, robbed>>
  BY DEF Attach
<1> HIDE DEF new
<1>3. /\ streams' \in [Clients -> Stream] /\ streams'[c] = new
      /\ \A b \in Clients \ {c} : streams'[b] = streams[b]
  BY <1>1, <1>2 DEF TermsTyped
<1>4. FdInv' /\ BufferInv'
  BY <1>2 DEF TermsOk, FdInv, BufferInv, OpenTerms, Whole
<1>5. ASSUME NEW b \in Clients \ {c}
      PROVE  Heard(b)' /\ Complete(b)' /\ \A k \in DOMAIN terms' : Follows(b, k)' => Ahead(b, k)'
  <2>1. streams'[b] = streams[b]
    BY <1>3
  <2>2. Heard(b) /\ Complete(b) /\ \A k \in DOMAIN terms : Follows(b, k) => Ahead(b, k)
    BY DEF TermsOk, StreamInv
  <2> QED
    BY <1>2, <2>1, <2>2 DEF Heard, Complete, Follows, Ahead, Whole
<1>6. Heard(c)' /\ Complete(c)' /\ \A k \in DOMAIN terms' : Follows(c, k)' => Ahead(c, k)'
  BY <1>1, <1>3 DEF Heard, Complete, Ahead
<1> QED
  BY <1>2, <1>3, <1>4, <1>5, <1>6 DEF TermsTyped, TermsOk, StreamInv

\* A frame of a stream.
LEMMA TickKeeps ==
  ASSUME TermsTyped, TermsOk, NEW c \in Clients, Tick(c)
  PROVE  TermsTyped' /\ TermsOk'
<1> DEFINE s == streams[c].session
           k == pty[s]
           got == streams[c].got
           sent == streams[c].sent
           term == Followed(c)
           buf == term.buf
           got2 == IF Len(buf) > sent THEN got \o SubSeq(buf, sent + 1, Len(buf)) ELSE got
           sent2 == Max({sent, Len(buf)})
           r == [streams[c] EXCEPT !.on = term.shell, !.got = got2, !.sent = sent2]
<1>0. terms \in Seq(Term) /\ pty \in [Sessions -> Nat] /\ streams \in [Clients -> Stream]
  BY DEF TermsTyped
<1>1. streams' = [streams EXCEPT ![c] = r] /\ UNCHANGED <<terms, pty, robbed>> /\ streams[c].on
  BY <1>0 DEF Tick, Stream
<1>2. Heard(c) /\ Complete(c) /\ (k # NoTerm => k \in OpenTerms /\ terms[k].session = s /\ Follows(c, k) /\ Ahead(c, k))
  BY <1>1 DEF TermsOk, StreamInv, FdInv, Heard, Follows, OpenTerms
<1>3. s \in Sessions /\ got \in Seq(Chunk) /\ sent \in Nat
  BY <1>0, <1>1, <1>2 DEF Stream, Heard
<1>4. buf \in Seq(Chunk) /\ term.shell \in BOOLEAN
  <2>1. CASE k = NoTerm
    BY <2>1 DEF Followed
  <2>2. CASE k # NoTerm
    <3>1. k \in DOMAIN terms /\ term = terms[k]
      BY <1>2, <2>2 DEF Followed, OpenTerms
    <3>2. term \in Term
      BY <1>0, <3>1
    <3> QED
      BY <3>2 DEF Term
  <2> QED
    BY <2>1, <2>2
<1>5. \/ k = NoTerm /\ buf = <<>>
      \/ k # NoTerm /\ k \in OpenTerms /\ k \in DOMAIN terms /\ buf = terms[k].buf
  BY <1>2 DEF Followed, OpenTerms
<1>6. sent2 \in Nat /\ sent2 = IF Len(buf) > sent THEN Len(buf) ELSE sent
  BY <1>3, <1>4, GreaterOfTwo
<1>7. CASE Len(buf) <= sent
  <2>1. got2 = got /\ sent2 = sent
    BY <1>3, <1>4, <1>6, <1>7
  <2> HIDE DEF got2, sent2, term
  <2>2. r \in Stream /\ r.got = got /\ r.sent = sent /\ r.session = s
    BY <1>0, <1>3, <1>4, <2>1 DEF Stream
  <2> HIDE DEF r
  <2>3. /\ streams' \in [Clients -> Stream] /\ streams'[c] = r
        /\ \A b \in Clients \ {c} : streams'[b] = streams[b]
    BY <1>0, <1>1, <2>2
  <2>4. \A b \in Clients :
          /\ streams'[b].got = streams[b].got /\ streams'[b].sent = streams[b].sent
          /\ streams'[b].session = streams[b].session
          /\ streams'[b].on => streams[b].on
    BY <1>1, <2>2, <2>3
  <2>5. OpenTerms' = OpenTerms
    BY <1>1 DEF OpenTerms
  <2> QED
    BY <1>0, <1>1, <2>3, <2>4, <2>5, LessOpenKeeps
<1>8. CASE Len(buf) > sent
  <2>0. sent2 = Len(buf) /\ got2 = got \o SubSeq(buf, sent + 1, Len(buf))
    BY <1>6, <1>8
  <2>e. sent2 = Len(buf)
    BY <2>0
  <2>k. k # NoTerm /\ k \in OpenTerms /\ k \in DOMAIN terms /\ buf = terms[k].buf /\ k \in Nat
    BY <1>0, <1>3, <1>4, <1>5, <1>8
  <2> HIDE DEF got2, sent2, term
  <2>1. /\ got2 \in Seq(Chunk) /\ Len(got2) = Len(got) + (Len(buf) - sent)
        /\ \A i \in 1 .. Len(got) : got2[i] = got[i]
        /\ \A i \in Len(got) + 1 .. Len(got2) :
              /\ i - Len(got) + sent \in sent + 1 .. Len(buf)
              /\ got2[i] = buf[i - Len(got) + sent]
        /\ \A n \in sent + 1 .. Len(buf) : buf[n] \in ToSet(got2)
        /\ ToSet(got) \subseteq ToSet(got2)
    <3> HIDE DEF got, sent, buf
    <3>1. got2 = Frame(got, buf, sent)
      BY <2>0 DEF Frame
    <3> QED
      BY <1>3, <1>4, <1>8, <3>1, FrameIsTail
  <2>2. r \in Stream /\ r.got = got2 /\ r.sent = sent2 /\ r.session = s
    BY <1>0, <1>3, <1>4, <1>6, <2>1 DEF Stream
  <2> HIDE DEF r
  <2>3. /\ streams' \in [Clients -> Stream] /\ streams'[c] = r
        /\ \A b \in Clients \ {c} : streams'[b] = streams[b]
    BY <1>0, <1>1, <2>2
  <2>4. FdInv' /\ BufferInv'
    BY <1>1 DEF TermsOk, FdInv, BufferInv, OpenTerms, Whole
  <2>5. ASSUME NEW b \in Clients \ {c}
        PROVE  Heard(b)' /\ Complete(b)' /\ \A j \in DOMAIN terms' : Follows(b, j)' => Ahead(b, j)'
    <3>1. streams'[b] = streams[b]
      BY <2>3
    <3>2. Heard(b) /\ Complete(b) /\ \A j \in DOMAIN terms : Follows(b, j) => Ahead(b, j)
      BY DEF TermsOk, StreamInv
    <3> QED
      BY <1>1, <3>1, <3>2 DEF Heard, Complete, Follows, Ahead, Whole
  <2>6. /\ \A i \in DOMAIN buf : buf[i][1] = k /\ buf[i][2] <= terms[k].taken
        /\ \A i, j \in DOMAIN buf : i < j => buf[i][2] < buf[j][2]
        /\ Whole(k) => \A i \in DOMAIN buf : buf[i][2] = i
    BY <2>k DEF TermsOk, BufferInv
  <2>7. /\ \A i \in DOMAIN got : got[i][1] = k => \A j \in DOMAIN buf : j > sent => got[i][2] < buf[j][2]
        /\ got # <<>> /\ got[1][1] = k /\ Whole(k) => \A n \in 1 .. sent : <<k, n>> \in ToSet(got)
    BY <1>2, <2>k DEF Ahead
  <2>8. /\ got = <<>> => sent = 0
        /\ \A i \in DOMAIN got : /\ got[i][1] \in DOMAIN terms
                                 /\ terms[got[i][1]].session = s
                                 /\ got[i][2] <= terms[got[i][1]].taken
        /\ \A i, j \in DOMAIN got : i < j /\ got[i][1] = got[j][1] => got[i][2] < got[j][2]
    BY <1>2 DEF Heard
  <2>9. Complete(c)
    BY <1>2
  <2>s. terms[k].session = s
    BY <1>2, <2>k
  <2>d. /\ DOMAIN got = 1 .. Len(got) /\ DOMAIN buf = 1 .. Len(buf) /\ DOMAIN got2 = 1 .. Len(got2)
        /\ Len(got) \in Nat /\ Len(buf) \in Nat /\ Len(got2) \in Nat
    BY <1>3, <1>4, <2>1
  <2> HIDE DEF got, buf, sent, k, s
  <2>10. ASSUME NEW i \in DOMAIN got2
         PROVE  \/ i \in DOMAIN got /\ got2[i] = got[i]
                \/ /\ i > Len(got)
                   /\ i - Len(got) + sent \in DOMAIN buf
                   /\ i - Len(got) + sent > sent
                   /\ got2[i] = buf[i - Len(got) + sent]
    <3>1. CASE i <= Len(got)
      BY <2>1, <2>d, <3>1
    <3>2. CASE i > Len(got)
      <4>1. i \in Len(got) + 1 .. Len(got2)
        BY <2>d, <3>2
      <4>2. i - Len(got) + sent \in sent + 1 .. Len(buf) /\ got2[i] = buf[i - Len(got) + sent]
        BY <2>1, <4>1
      <4>3. PICK m : m = i - Len(got) + sent
        OBVIOUS
      <4>4. m \in DOMAIN buf /\ m > sent
        BY <1>3, <2>d, <4>2, <4>3
      <4> QED
        BY <3>2, <4>2, <4>3, <4>4
    <3> QED
      BY <2>d, <3>1, <3>2
  <2>11. ASSUME got2[1][1] = k, Whole(k)
         PROVE  \A n \in 1 .. sent2 : <<k, n>> \in ToSet(got2)
    <3>1. \A n \in 1 .. sent : <<k, n>> \in ToSet(got2)
      <4>1. CASE got = <<>>
        BY <1>3, <2>8, <4>1
      <4>2. CASE got # <<>>
        <5>1. 1 \in DOMAIN got /\ got2[1] = got[1]
          BY <1>3, <2>1, <2>d, <4>2
        <5> QED
          BY <2>1, <2>7, <2>11, <4>2, <5>1
      <4> QED
        BY <4>1, <4>2
    <3>2. ASSUME NEW n \in sent + 1 .. Len(buf)
          PROVE  <<k, n>> \in ToSet(got2)
      <4>1. n \in DOMAIN buf /\ buf[n] \in Chunk
        BY <1>3, <1>4, <2>d
      <4>2. buf[n] = <<k, n>>
        BY <2>6, <2>11, <4>1, ChunkIsPair
      <4> QED
        BY <2>1, <4>2
    <3> QED
      BY <1>3, <2>0, <2>d, <3>1, <3>2
  <2>12. 1 \in DOMAIN got2 /\ got2 # <<>>
    BY <1>3, <1>8, <2>1, <2>d
  <2>13. ASSUME NEW i \in DOMAIN got2
         PROVE  /\ got2[i][1] \in DOMAIN terms /\ terms[got2[i][1]].session = s
                /\ got2[i][2] <= terms[got2[i][1]].taken
    BY <2>6, <2>8, <2>10, <2>k, <2>s
  <2>14. ASSUME NEW i \in DOMAIN got2, NEW j \in DOMAIN got2, i < j, got2[i][1] = got2[j][1]
         PROVE  got2[i][2] < got2[j][2]
    <3>1. CASE j \in DOMAIN got /\ got2[j] = got[j]
      <4>1. i \in DOMAIN got /\ got2[i] = got[i]
        BY <2>10, <2>14, <2>d, <3>1
      <4> QED
        BY <2>8, <2>14, <3>1, <4>1
    <3>2. CASE /\ j > Len(got) /\ j - Len(got) + sent \in DOMAIN buf
               /\ j - Len(got) + sent > sent
               /\ got2[j] = buf[j - Len(got) + sent]
      <4>1. got2[j][1] = k
        BY <2>6, <3>2
      <4>2. CASE i \in DOMAIN got /\ got2[i] = got[i]
        BY <2>7, <2>14, <3>2, <4>1, <4>2
      <4>3. CASE /\ i > Len(got) /\ i - Len(got) + sent \in DOMAIN buf
                 /\ got2[i] = buf[i - Len(got) + sent]
        <5>1. i - Len(got) + sent < j - Len(got) + sent
          BY <1>3, <2>14, <2>d
        <5> QED
          BY <2>6, <3>2, <4>3, <5>1
      <4> QED
        BY <2>10, <4>2, <4>3
    <3> QED
      BY <2>10, <3>1, <3>2
  <2>15. Heard(c)'
    BY <1>1, <1>3, <2>2, <2>3, <2>12, <2>13, <2>14 DEF Heard
  <2>16. ASSUME NEW i \in DOMAIN got2, got2[i][1] = got2[1][1], Whole(got2[1][1])
         PROVE  \A n \in 1 .. got2[i][2] : <<got2[1][1], n>> \in ToSet(got2)
    <3>1. CASE i \in DOMAIN got /\ got2[i] = got[i]
      <4>1. got # <<>> /\ 1 \in DOMAIN got /\ got2[1] = got[1]
        BY <1>3, <2>1, <2>d, <3>1
      <4>2. \A n \in 1 .. got[i][2] : <<got[1][1], n>> \in ToSet(got)
        BY <2>9, <2>16, <3>1, <4>1 DEF Complete, got
      <4> QED
        BY <2>1, <3>1, <4>1, <4>2
    <3>2. CASE i - Len(got) + sent \in DOMAIN buf /\ got2[i] = buf[i - Len(got) + sent]
      <4> DEFINE m == i - Len(got) + sent
      <4>0. m \in DOMAIN buf /\ got2[i] = buf[m]
        BY <3>2
      <4> HIDE DEF m
      <4>1. m \in DOMAIN buf /\ got2[i] = buf[m] /\ m <= sent2 /\ m \in Nat
        <5>1. PICK len \in Nat : len = Len(buf)
          BY <2>d
        <5>2. m \in 1 .. len
          BY <2>d, <4>0, <5>1
        <5>3. m <= len /\ m \in Nat
          BY <5>1, <5>2
        <5> QED
          BY <2>e, <4>0, <5>1, <5>3
      <4>2. got2[1][1] = k /\ got2[i][2] = m
        BY <2>6, <2>16, <4>1
      <4>3. \A n \in 1 .. sent2 : <<k, n>> \in ToSet(got2)
        BY <2>11, <2>16, <4>2
      <4> QED
        BY <1>6, <4>1, <4>2, <4>3
    <3> QED
      BY <2>10, <3>1, <3>2
  <2>17. Complete(c)'
    BY <1>1, <2>2, <2>3, <2>16 DEF Complete, Whole
  <2>18. ASSUME NEW j \in DOMAIN terms', Follows(c, j)'
         PROVE  Ahead(c, j)'
    <3>1. j = k
      BY <1>1, <2>2, <2>3, <2>18 DEF Follows, k
    <3>2. \A i \in DOMAIN buf : ~ (i > sent2)
      BY <2>0, <2>d
    <3>3. terms'[j].buf = buf
      BY <1>1, <2>k, <3>1
    <3> QED
      BY <1>1, <2>2, <2>3, <2>11, <3>1, <3>2, <3>3 DEF Ahead, Whole
  <2> QED
    BY <1>0, <1>1, <2>3, <2>4, <2>5, <2>15, <2>17, <2>18 DEF TermsTyped, TermsOk, StreamInv
<1> QED
  BY <1>3, <1>4, <1>7, <1>8

\* A reader takes a chunk of the terminal behind its descriptor.
LEMMA TakeKeeps ==
  ASSUME TermsTyped, TermsOk, NEW k \in DOMAIN terms, ReaderTakes(k)
  PROVE  TermsTyped' /\ TermsOk'
<1>0. terms \in Seq(Term) /\ pty \in [Sessions -> Nat] /\ streams \in [Clients -> Stream]
  BY DEF TermsTyped
<1>1. PICK j \in Behind(k) :
        /\ terms' = [terms EXCEPT ![j].taken = @ + 1,
                                  ![k].buf = Kept(Append(@, <<j, terms[j].taken + 1>>))]
        /\ robbed' = IF j = k THEN robbed ELSE robbed \cup {j}
        /\ UNCHANGED <<pty, streams>>
  BY DEF ReaderTakes
<1>2. /\ j \in OpenTerms /\ j \in DOMAIN terms /\ j \in Nat /\ terms[j].fd = terms[k].fd
      /\ k \in OpenTerms => j = k
  BY <1>0, <1>1 DEF Behind, OpenTerms, TermsOk, FdInv
<1>3. /\ \A q \in DOMAIN terms : terms[q] \in Term
      /\ \A q \in DOMAIN terms : terms[q].taken \in Nat /\ terms[q].buf \in Seq(Chunk)
  <2>1. \A q \in DOMAIN terms : terms[q] \in Term
    BY <1>0
  <2> QED
    BY <2>1 DEF Term
<1> DEFINE taken == terms[j].taken + 1
           chunk == <<j, taken>>
           buf == terms[k].buf
           app == Append(buf, chunk)
           kept == Kept(app)
           r1 == [terms[j] EXCEPT !.taken = taken]
           t1 == [terms EXCEPT ![j] = r1]
           r2 == [t1[k] EXCEPT !.buf = Kept(Append(@, chunk))]
<1>4. terms' = [t1 EXCEPT ![k] = r2]
  BY <1>0, <1>1, <1>2
<1>5. taken \in Nat \ {0} /\ chunk \in Chunk /\ chunk[1] = j /\ chunk[2] = taken
  BY <1>2, <1>3 DEF Chunk
<1>6. /\ r1 \in Term /\ r1.session = terms[j].session /\ r1.fd = terms[j].fd /\ r1.open = terms[j].open
      /\ r1.taken = taken /\ r1.buf = terms[j].buf
  BY <1>2, <1>3, <1>5 DEF Term
<1> HIDE DEF taken, chunk, r1
<1>7. /\ t1 \in Seq(Term) /\ Len(t1) = Len(terms) /\ DOMAIN t1 = DOMAIN terms
      /\ t1[j] = r1 /\ \A q \in DOMAIN terms : q # j => t1[q] = terms[q]
  BY <1>0, <1>2, <1>6
<1> HIDE DEF t1
<1>8. t1[k] \in Term /\ t1[k].buf = buf /\ buf \in Seq(Chunk)
  BY <1>3, <1>6, <1>7
<1>9. /\ app \in Seq(Chunk) /\ Len(app) = Len(buf) + 1 /\ Len(buf) \in Nat
      /\ \A i \in 1 .. Len(buf) : app[i] = buf[i]
      /\ app[Len(buf) + 1] = chunk
  BY <1>5, <1>8
<1>10. r2 = [t1[k] EXCEPT !.buf = kept]
  BY <1>8
<1> HIDE DEF app, buf
<1>11. PICK d \in Nat :
         /\ kept \in Seq(Chunk) /\ d <= Len(app) /\ Len(kept) = Len(app) - d
         /\ \A i \in 1 .. Len(app) - d : kept[i] = app[i + d]
         /\ Len(app) <= Cap => d = 0
  BY <1>9, KeptIsTail
<1> HIDE DEF kept, r2
<1>12. /\ r2 \in Term /\ r2.session = t1[k].session /\ r2.fd = t1[k].fd /\ r2.open = t1[k].open
       /\ r2.taken = t1[k].taken /\ r2.buf = kept
  BY <1>8, <1>10, <1>11 DEF Term
<1>13. /\ terms' \in Seq(Term) /\ Len(terms') = Len(terms) /\ DOMAIN terms' = DOMAIN terms
       /\ terms'[k] = r2 /\ \A q \in DOMAIN terms : q # k => terms'[q] = t1[q]
  BY <1>0, <1>4, <1>7, <1>12
<1>14. \A q \in DOMAIN terms :
         /\ terms'[q].session = terms[q].session /\ terms'[q].fd = terms[q].fd
         /\ terms'[q].open = terms[q].open
         /\ terms'[q].taken = IF q = j THEN taken ELSE terms[q].taken
         /\ terms'[q].buf = IF q = k THEN kept ELSE terms[q].buf
  BY <1>6, <1>7, <1>12, <1>13
<1>15. OpenTerms' = OpenTerms
  BY <1>13, <1>14 DEF OpenTerms
<1>16. ASSUME NEW q \in DOMAIN terms
       PROVE  /\ terms[q].taken <= terms'[q].taken
              /\ Whole(q)' => Whole(q)
              /\ q = j /\ q # k => ~Whole(q)'
  <2>1. taken = terms[j].taken + 1 /\ terms[j].taken \in Nat /\ terms[q].taken \in Nat /\ Cap \in Nat
    BY <1>2, <1>3, TerminalsAssumption DEF taken
  <2>2. terms[q].taken <= terms'[q].taken /\ terms'[q].taken \in Nat
    BY <1>14, <2>1
  <2>3. robbed \subseteq robbed' /\ (j # k => j \in robbed')
    BY <1>1
  <2> QED
    BY <2>1, <2>2, <2>3 DEF Whole
<1>17. ASSUME NEW i \in DOMAIN kept
       PROVE  \/ i + d \in DOMAIN buf /\ kept[i] = buf[i + d]
              \/ i + d = Len(buf) + 1 /\ kept[i] = chunk
  <2>1. PICK x \in Nat : x = Len(buf)
    BY <1>9
  <2>2. d <= x + 1 /\ i \in 1 .. x + 1 - d /\ kept[i] = app[i + d] /\ DOMAIN buf = 1 .. x
    <3>1. Len(app) = x + 1 /\ d <= x + 1 /\ Len(kept) = x + 1 - d
      BY <1>9, <1>11, <2>1
    <3>2. DOMAIN kept = 1 .. Len(kept) /\ DOMAIN buf = 1 .. x
      BY <1>8, <1>11, <2>1
    <3>3. i \in 1 .. x + 1 - d
      BY <3>1, <3>2
    <3> QED
      BY <1>11, <3>1, <3>2, <3>3
  <2>3. i + d \in 1 .. x \/ i + d = x + 1
    BY <2>2
  <2> QED
    BY <1>9, <2>1, <2>2, <2>3
<1>18. FdInv'
  <2>1. \A s \in Sessions : pty[s] # NoTerm => pty[s] \in DOMAIN terms
    BY DEF TermsOk, FdInv, OpenTerms
  <2>2. \A q \in OpenTerms : q \in DOMAIN terms
    BY DEF OpenTerms
  <2> QED
    BY <1>1, <1>14, <1>15, <2>1, <2>2 DEF TermsOk, FdInv
<1>19. BufferInv'
  <2> SUFFICES ASSUME NEW q \in OpenTerms'
               PROVE  LET b == terms'[q].buf IN
                 /\ \A i \in DOMAIN b : b[i][1] = q /\ b[i][2] <= terms'[q].taken
                 /\ \A i, m \in DOMAIN b : i < m => b[i][2] < b[m][2]
                 /\ Whole(q)' => Len(b) = terms'[q].taken /\ \A i \in DOMAIN b : b[i][2] = i
    BY DEF BufferInv
  <2>0. q \in OpenTerms /\ q \in DOMAIN terms
    BY <1>15 DEF OpenTerms
  <2>1. /\ \A i \in DOMAIN terms[q].buf : terms[q].buf[i][1] = q /\ terms[q].buf[i][2] <= terms[q].taken
        /\ \A i, m \in DOMAIN terms[q].buf : i < m => terms[q].buf[i][2] < terms[q].buf[m][2]
        /\ Whole(q) => /\ Len(terms[q].buf) = terms[q].taken
                       /\ \A i \in DOMAIN terms[q].buf : terms[q].buf[i][2] = i
    BY <2>0 DEF TermsOk, BufferInv
  <2>2. CASE q # k
    <3>1. /\ terms'[q].buf = terms[q].buf /\ terms[q].taken <= terms'[q].taken
          /\ terms[q].taken \in Nat /\ terms'[q].taken \in Nat
          /\ Whole(q)' => Whole(q) /\ terms'[q].taken = terms[q].taken
      BY <1>3, <1>5, <1>14, <1>16, <2>0, <2>2
    <3>2. \A i \in DOMAIN terms[q].buf : terms[q].buf[i][2] \in Nat
      BY <1>3, <2>0, ChunkIsPair
    <3> QED
      BY <2>1, <3>1, <3>2
  <2>3. CASE q = k
    <3>1. j = k /\ terms'[q].buf = kept /\ terms'[q].taken = taken /\ taken = terms[k].taken + 1
          /\ terms[k].taken \in Nat
      BY <1>2, <1>3, <1>14, <2>0, <2>3 DEF taken
    <3>2. /\ \A i \in DOMAIN buf : buf[i][1] = k /\ buf[i][2] <= terms[k].taken
          /\ \A i, m \in DOMAIN buf : i < m => buf[i][2] < buf[m][2]
          /\ Whole(k) => Len(buf) = terms[k].taken /\ \A i \in DOMAIN buf : buf[i][2] = i
      BY <2>1, <2>3 DEF buf
    <3>3. \A i \in DOMAIN buf : buf[i][2] \in Nat
      BY <1>3, <2>0, <2>3, ChunkIsPair DEF buf
    <3>4. \A i \in DOMAIN kept : kept[i][1] = k /\ kept[i][2] <= taken
      BY <1>5, <1>17, <3>1, <3>2, <3>3
    <3>5. ASSUME NEW i \in DOMAIN kept, NEW m \in DOMAIN kept, i < m
          PROVE  kept[i][2] < kept[m][2]
      <4>0. i \in Nat /\ m \in Nat /\ i + d < m + d /\ DOMAIN kept = 1 .. Len(kept)
        BY <1>11, <3>5
      <4>1. CASE m + d \in DOMAIN buf /\ kept[m] = buf[m + d]
        <5>1. i + d \in DOMAIN buf /\ kept[i] = buf[i + d]
          <6>1. DOMAIN buf = 1 .. Len(buf)
            BY <1>8
          <6>2. i + d # Len(buf) + 1
            BY <1>9, <4>0, <4>1, <6>1
          <6> QED
            BY <1>17, <6>2
        <5> QED
          BY <3>2, <4>0, <4>1, <5>1
      <4>2. CASE m + d = Len(buf) + 1 /\ kept[m] = chunk
        <5>1. i + d \in DOMAIN buf /\ kept[i] = buf[i + d]
          BY <1>9, <1>17, <4>0, <4>2
        <5> QED
          BY <1>5, <3>1, <3>2, <3>3, <4>2, <5>1
      <4> QED
        BY <1>17, <4>1, <4>2
    <3>6. ASSUME Whole(q)'
          PROVE  Len(kept) = taken /\ \A i \in DOMAIN kept : kept[i][2] = i
      <4>1. Len(buf) = terms[k].taken /\ (\A i \in DOMAIN buf : buf[i][2] = i) /\ taken <= Cap
        BY <1>16, <2>0, <2>3, <3>1, <3>2, <3>6 DEF Whole
      <4>2. d = 0 /\ Len(kept) = taken
        BY <1>9, <1>11, <3>1, <4>1
      <4>3. \A i \in DOMAIN kept : i \in Nat
        BY <1>11
      <4> QED
        BY <1>5, <1>17, <3>1, <4>1, <4>2, <4>3
    <3> QED
      BY <2>3, <3>1, <3>4, <3>5, <3>6
  <2> QED
    BY <2>2, <2>3
<1>20. ASSUME NEW c \in Clients
       PROVE  Heard(c)' /\ Complete(c)' /\ \A q \in DOMAIN terms' : Follows(c, q)' => Ahead(c, q)'
  <2>1. Heard(c) /\ Complete(c) /\ \A q \in DOMAIN terms : Follows(c, q) => Ahead(c, q)
    BY DEF TermsOk, StreamInv
  <2> DEFINE got == streams[c].got
  <2>2. got \in Seq(Chunk) /\ \A i \in DOMAIN got : got[i] \in Chunk
    BY <1>0 DEF Stream
  <2>3. \A i \in DOMAIN got : got[i][2] \in Nat /\ got[i][1] \in DOMAIN terms
    BY <2>1, <2>2, ChunkIsPair DEF Heard
  <2>4. \A q \in DOMAIN terms : terms[q].taken \in Nat /\ terms'[q].taken \in Nat
    BY <1>3, <1>5, <1>14
  <2>5. Heard(c)'
    <3>1. \A i \in DOMAIN got : got[i][2] <= terms[got[i][1]].taken
      BY <2>1 DEF Heard
    <3>2. \A i \in DOMAIN got : got[i][2] <= terms'[got[i][1]].taken
      BY <1>16, <2>3, <2>4, <3>1
    <3>3. \A i \in DOMAIN got : terms'[got[i][1]].session = streams[c].session
      BY <1>14, <2>1, <2>3 DEF Heard
    <3> QED
      BY <1>1, <1>13, <2>1, <2>3, <3>2, <3>3 DEF Heard
  <2>6. got # <<>> => got[1][1] \in DOMAIN terms
    <3>1. got # <<>> => 1 \in DOMAIN got
      BY <2>2
    <3> QED
      BY <2>3, <3>1
  <2>7. Complete(c)'
    BY <1>1, <1>16, <2>1, <2>6 DEF Complete
  <2>8. ASSUME NEW q \in DOMAIN terms', Follows(c, q)'
        PROVE  Ahead(c, q)'
    <3>1. q \in DOMAIN terms /\ Follows(c, q)
      BY <1>1, <1>13, <2>8 DEF Follows
    <3>2. Ahead(c, q) /\ q \in OpenTerms
      BY <2>1, <3>1 DEF Follows, TermsOk, FdInv
    <3>3. got # <<>> /\ got[1][1] = q /\ Whole(q)' =>
            \A n \in 1 .. streams[c].sent : <<q, n>> \in ToSet(got)
      BY <1>16, <3>1, <3>2 DEF Ahead
    <3>4. ASSUME NEW i \in DOMAIN got, NEW m \in DOMAIN terms'[q].buf,
                 got[i][1] = q, m > streams[c].sent
          PROVE  got[i][2] < terms'[q].buf[m][2]
      <4>1. CASE q # k
        BY <1>14, <3>1, <3>2, <3>4, <4>1 DEF Ahead
      <4>2. CASE q = k
        <5>1. /\ terms'[q].buf = kept /\ j = k /\ taken = terms[k].taken + 1
              /\ streams[c].sent \in Nat /\ m \in Nat /\ terms[k].taken \in Nat
          BY <1>0, <1>2, <1>3, <1>11, <1>14, <3>1, <3>2, <3>4, <4>2 DEF taken, Stream
        <5>2. CASE m + d \in DOMAIN buf /\ kept[m] = buf[m + d]
          <6>1. m + d > streams[c].sent
            BY <3>4, <5>1
          <6> QED
            BY <3>2, <3>4, <4>2, <5>1, <5>2, <6>1 DEF Ahead, buf
        <5>3. CASE kept[m] = chunk
          <6>1. got[i][2] <= terms[k].taken
            BY <2>1, <3>4, <4>2 DEF Heard
          <6> QED
            BY <1>5, <2>3, <5>1, <5>3, <6>1
        <5> QED
          BY <1>17, <3>4, <5>1, <5>2, <5>3
      <4> QED
        BY <4>1, <4>2
    <3> QED
      BY <1>1, <3>3, <3>4 DEF Ahead
  <2> QED
    BY <2>1, <2>5, <2>7, <2>8
<1> QED
  BY <1>0, <1>1, <1>13, <1>18, <1>19, <1>20 DEF TermsTyped, TermsOk, StreamInv

\* The record of one terminal changes, or one is closed.
LEMMA OneTermKeeps ==
  ASSUME TermsTyped, TermsOk, UNCHANGED <<streams, robbed>>,
         NEW k \in DOMAIN terms, NEW r \in Term, terms' = [terms EXCEPT ![k] = r],
         r.session = terms[k].session, r.fd = terms[k].fd, r.open => terms[k].open,
         r.taken = terms[k].taken, r.buf = terms[k].buf,
         \/ pty' = pty /\ r.open = terms[k].open
         \/ \E s \in Sessions : pty' = [pty EXCEPT ![s] = NoTerm] /\ pty[s] = k /\ k # NoTerm
  PROVE  TermsTyped' /\ TermsOk'
<1>0. terms \in Seq(Term) /\ pty \in [Sessions -> Nat] /\ streams \in [Clients -> Stream]
  BY DEF TermsTyped
<1>1. /\ terms' \in Seq(Term) /\ Len(terms') = Len(terms) /\ DOMAIN terms' = DOMAIN terms
      /\ terms'[k] = r /\ \A q \in DOMAIN terms : q # k => terms'[q] = terms[q]
  BY <1>0
<1>2. \A q \in DOMAIN terms :
        /\ terms'[q].session = terms[q].session /\ terms'[q].fd = terms[q].fd
        /\ terms'[q].taken = terms[q].taken /\ terms'[q].buf = terms[q].buf
        /\ terms'[q].open => terms[q].open
  BY <1>1
<1>3. \A q \in OpenTerms : q # k \/ r.open => q \in OpenTerms'
  BY <1>1 DEF OpenTerms
<1>4. /\ pty' \in [Sessions -> Nat]
      /\ \A s \in Sessions :
           \/ pty'[s] = NoTerm
           \/ pty'[s] = pty[s] /\ (pty[s] \in OpenTerms => pty[s] \in OpenTerms')
  <2>1. CASE pty' = pty /\ r.open = terms[k].open
    <3>1. \A q \in OpenTerms : q \in OpenTerms'
      BY <1>3, <2>1 DEF OpenTerms
    <3> QED
      BY <1>0, <2>1, <3>1
  <2>2. ASSUME NEW s \in Sessions, pty' = [pty EXCEPT ![s] = NoTerm], pty[s] = k, k # NoTerm
        PROVE  <1>4
    <3>1. NoTerm \in Nat
      BY DEF NoTerm
    <3>2. \A q \in Sessions : pty[q] = k => q = s
      BY <2>2 DEF TermsOk, FdInv
    <3> QED
      BY <1>0, <1>3, <2>2, <3>1, <3>2
  <2> QED
    BY <2>1, <2>2
<1> QED
  BY <1>0, <1>1, <1>2, <1>4, LessOpenKeeps

\* Which terminal a session has.
LEMMA PtyIsTerm ==
  ASSUME TermsTyped, TermsOk, NEW s \in Sessions, pty[s] # NoTerm
  PROVE  pty[s] \in DOMAIN terms /\ terms[pty[s]] \in Term
  BY DEF TermsTyped, TermsOk, FdInv, OpenTerms

\* What a step does to the terminals.
LEMMA TermMoves ==
  ASSUME SessTyped, DoingInv, [Next]_vars
  PROVE  \/ UNCHANGED tvars
         \/ \E s \in Sessions :
              KillShell(s) \/ CloseMaster(s) \/ \E b \in BOOLEAN : OpenTerminal(s, b)
         \/ Shells
         \/ \E c \in Clients, s \in Sessions : Attach(c, s)
         \/ TerminalsDie
<1>1. ASSUME NEW s \in Sessions, Request(s)
      PROVE  UNCHANGED tvars \/ KillShell(s)
  <2>1. CASE AskTerminal(s) \/ Delete(s) \/ \E f \in {NoFolder, Mount} : OpenFolder(s, f)
    BY <2>1 DEF AskTerminal, Delete, OpenFolder, Close
  <2>2. CASE \/ \E agent \in Agents : NewSession(s, agent)
             \/ EditFiles(s) \/ Command(s) \/ Upload(s) \/ Scaffold(s, <<"AGENTS.md">>)
             \/ Convert(s) \/ VerifyServer(s) \/ VerifyFile(s)
    BY <2>2 DEF NewSession, EditFiles, Command, Upload, Scaffold, Convert, VerifyServer, VerifyFile
  <2> QED
    BY <1>1, <2>1, <2>2 DEF Request
<1>2. CASE Closed
  BY <1>2 DEF Closed, DoingInv
<1>3. CASE Opened
  <2>1. doing.session \in Sessions
    BY <1>3 DEF Opened, DoingInv
  <2>2. CASE ~CanStage(doing.session)
    BY <1>3, <2>2 DEF Opened
  <2>3. CASE CanStage(doing.session)
    <3> DEFINE starts == sess[doing.session].agent = "opencode" \/ HasDir(doing.session)
    <3>1. OpenTerminal(doing.session, starts)
      BY <1>3, <2>3 DEF Opened
    <3>2. starts \in BOOLEAN
      OBVIOUS
    <3> HIDE DEF starts
    <3> QED
      BY <2>1, <3>1, <3>2
  <2> QED
    BY <2>2, <2>3
<1>4. CASE \/ Booted \/ BootFails \/ (Shells /\ UNCHANGED <<mvars, wvars>>)
           \/ \E k \in DOMAIN terms : AgentWrites(k)
           \/ (Refresh /\ UNCHANGED <<tvars, wvars>>)
           \/ (\E p \in DOMAIN procs : ServerDies(p)) /\ UNCHANGED <<tvars, wvars>>
  BY <1>4 DEF Booted, BootFails, AgentWrites
<1>5. CASE \/ \E c \in Clients, s \in Sessions : AttachTerminal(c, s)
           \/ \E m \in Readers, stop \in {0} \cup Sessions : Look(m, stop)
           \/ RecordRun
  BY <1>5 DEF AttachTerminal, Look, RecordRun
<1>6. CASE Exit \/ Crash
  BY <1>6 DEF Exit, Crash, Die
<1>7. CASE UNCHANGED vars
  BY <1>7 DEF vars
<1> QED
  BY <1>1, <1>2, <1>3, <1>4, <1>5, <1>6, <1>7 DEF Next

LEMMA TermStep ==
  ASSUME TermsTyped, TermsOk, SessTyped, DoingInv, [Next]_vars
  PROVE  TermsTyped' /\ TermsOk'
<1>0. /\ terms \in Seq(Term) /\ pty \in [Sessions -> Nat] /\ streams \in [Clients -> Stream]
      /\ \A k \in DOMAIN terms : terms[k] \in Term
  BY DEF TermsTyped
<1>1. CASE UNCHANGED tvars
  BY <1>0, <1>1, LessOpenKeeps DEF tvars, OpenTerms
<1>2. ASSUME NEW s \in Sessions, KillShell(s)
      PROVE  TermsTyped' /\ TermsOk'
  <2> DEFINE k == pty[s]
             r == [terms[k] EXCEPT !.shell = FALSE]
  <2>1. k \in DOMAIN terms /\ terms[k] \in Term
    BY <1>2, PtyIsTerm DEF KillShell
  <2>2. terms' = [terms EXCEPT ![k] = r] /\ UNCHANGED <<pty, streams, robbed>>
    BY <1>0, <1>2, <2>1 DEF KillShell
  <2>3. /\ r \in Term /\ r.session = terms[k].session /\ r.fd = terms[k].fd
        /\ r.open = terms[k].open /\ r.taken = terms[k].taken /\ r.buf = terms[k].buf
    BY <2>1 DEF Term
  <2> HIDE DEF r, k
  <2> QED
    BY <2>1, <2>2, <2>3, OneTermKeeps
<1>3. ASSUME NEW s \in Sessions, CloseMaster(s)
      PROVE  TermsTyped' /\ TermsOk'
  <2> DEFINE k == pty[s]
             r == [terms[k] EXCEPT !.open = FALSE]
  <2>1. k \in DOMAIN terms /\ terms[k] \in Term /\ k # NoTerm
    BY <1>3, PtyIsTerm DEF CloseMaster
  <2>2. /\ terms' = [terms EXCEPT ![k] = r] /\ UNCHANGED <<streams, robbed>>
        /\ pty' = [pty EXCEPT ![s] = NoTerm] /\ pty[s] = k
    BY <1>0, <1>3, <2>1 DEF CloseMaster
  <2>3. /\ r \in Term /\ r.session = terms[k].session /\ r.fd = terms[k].fd
        /\ r.open = FALSE /\ r.taken = terms[k].taken /\ r.buf = terms[k].buf
    BY <2>1 DEF Term
  <2> HIDE DEF r, k
  <2> QED
    BY <2>1, <2>2, <2>3, OneTermKeeps
<1>4. ASSUME NEW s \in Sessions, NEW b \in BOOLEAN, OpenTerminal(s, b)
      PROVE  TermsTyped' /\ TermsOk'
  BY <1>4, OpenKeeps
<1>5. ASSUME NEW k \in DOMAIN terms, ShellWrites(k) \/ ShellExits(k) \/ ReaderStops(k)
      PROVE  TermsTyped' /\ TermsOk'
  <2> DEFINE r1 == [terms[k] EXCEPT !.out = @ + 1]
             r2 == [terms[k] EXCEPT !.shell = FALSE]
             r3 == [terms[k] EXCEPT !.reader = FALSE]
  <2>1. /\ \E r \in {r1, r2, r3} : terms' = [terms EXCEPT ![k] = r]
        /\ UNCHANGED <<pty, streams, robbed>>
    BY <1>0, <1>5 DEF ShellWrites, ShellExits, ReaderStops
  <2>2. ASSUME NEW r \in {r1, r2, r3}
        PROVE  /\ r \in Term /\ r.session = terms[k].session /\ r.fd = terms[k].fd
               /\ r.open = terms[k].open /\ r.taken = terms[k].taken /\ r.buf = terms[k].buf
    <3>0. terms[k] \in Term
      BY <1>0
    <3>1. CASE r = r1
      BY <3>0, <3>1 DEF Term
    <3>2. CASE r = r2
      BY <3>0, <3>2 DEF Term
    <3>3. CASE r = r3
      BY <3>0, <3>3 DEF Term
    <3> QED
      BY <2>2, <3>1, <3>2, <3>3
  <2> HIDE DEF r1, r2, r3
  <2>3. PICK r \in {r1, r2, r3} : terms' = [terms EXCEPT ![k] = r]
    BY <2>1
  <2>4. /\ r \in Term /\ r.session = terms[k].session /\ r.fd = terms[k].fd
        /\ r.open = terms[k].open /\ r.taken = terms[k].taken /\ r.buf = terms[k].buf
    BY <2>2
  <2> QED
    BY <2>1, <2>3, <2>4, OneTermKeeps
<1>6. CASE Shells
  BY <1>5, <1>6, TakeKeeps, TickKeeps DEF Shells
<1>7. CASE TerminalsDie
  <2> DEFINE end(k) == [terms[k] EXCEPT !.open = FALSE, !.shell = FALSE, !.reader = FALSE]
             cut(c) == [streams[c] EXCEPT !.on = FALSE]
  <2>1. \A k \in DOMAIN terms :
          /\ end(k) \in Term /\ end(k).session = terms[k].session /\ end(k).fd = terms[k].fd
          /\ end(k).open = FALSE /\ end(k).taken = terms[k].taken /\ end(k).buf = terms[k].buf
    BY <1>0 DEF Term
  <2>2. \A c \in Clients :
          /\ cut(c) \in Stream /\ cut(c).got = streams[c].got /\ cut(c).sent = streams[c].sent
          /\ cut(c).session = streams[c].session /\ cut(c).on = FALSE
    BY <1>0 DEF Stream
  <2>3. /\ terms' = [k \in DOMAIN terms |-> end(k)]
        /\ pty' = [s \in Sessions |-> NoTerm]
        /\ streams' = [c \in Clients |-> cut(c)] /\ UNCHANGED robbed
    BY <1>7 DEF TerminalsDie
  <2> HIDE DEF end, cut
  <2>4. /\ terms' \in Seq(Term) /\ Len(terms') = Len(terms)
        /\ \A k \in DOMAIN terms : terms'[k] = end(k)
    BY <1>0, <2>1, <2>3
  <2>5. pty' \in [Sessions -> Nat] /\ \A s \in Sessions : pty'[s] = NoTerm
    BY <2>3 DEF NoTerm
  <2>6. streams' \in [Clients -> Stream] /\ \A c \in Clients : streams'[c] = cut(c)
    BY <2>2, <2>3
  <2>7. \A k \in DOMAIN terms :
          /\ terms'[k].session = terms[k].session /\ terms'[k].fd = terms[k].fd
          /\ terms'[k].taken = terms[k].taken /\ terms'[k].buf = terms[k].buf
          /\ terms'[k].open => terms[k].open
    BY <2>1, <2>4
  <2>8. \A c \in Clients :
          /\ streams'[c].got = streams[c].got /\ streams'[c].sent = streams[c].sent
          /\ streams'[c].session = streams[c].session
          /\ streams'[c].on => streams[c].on
    BY <2>2, <2>6
  <2> QED
    BY <2>3, <2>4, <2>5, <2>6, <2>7, <2>8, LessOpenKeeps
<1>8. ASSUME NEW c \in Clients, NEW s \in Sessions, Attach(c, s)
      PROVE  TermsTyped' /\ TermsOk'
  BY <1>8, AttachKeeps
<1> QED
  BY <1>1, <1>2, <1>3, <1>4, <1>6, <1>7, <1>8, TermMoves

\* A stream has got what the property says of it.
LEMMA StreamsOk ==
  ASSUME TermsTyped, TermsOk
  PROVE  StreamsAreFaithful
<1> SUFFICES ASSUME NEW c \in Clients, streams[c].got # <<>>
             PROVE  LET got == streams[c].got
                        first == got[1][1] IN
               /\ \A i \in DOMAIN got : terms[got[i][1]].session = streams[c].session
               /\ \A i, j \in DOMAIN got : i < j /\ got[i][1] = got[j][1] => got[i][2] < got[j][2]
               /\ first \notin robbed /\ terms[first].taken <= Cap =>
                    \A i \in DOMAIN got : got[i][1] = first =>
                      \A n \in 1 .. got[i][2] : <<first, n>> \in ToSet(got)
  BY DEF StreamsAreFaithful
<1>1. Heard(c) /\ Complete(c)
  BY DEF TermsOk, StreamInv
<1> QED
  BY <1>1 DEF Heard, Complete, Whole

---------------------------------------------------------------------------
\* The workbench.

LEMMA Start == Init => IInv
<1> SUFFICES ASSUME Init PROVE IInv
  OBVIOUS
<1> USE DEF Init
<1>1. TermsTyped /\ TermsOk
  <2>1. /\ terms = <<>> /\ pty = [s \in Sessions |-> NoTerm]
        /\ streams = [c \in Clients |-> NoStream] /\ OpenTerms = {}
    BY DEF TerminalsInit, OpenTerms
  <2>2. NoStream \in Stream
    BY DEF NoStream, Stream
  <2>3. TermsTyped
    BY <2>1, <2>2 DEF TermsTyped, NoTerm
  <2>4. FdInv /\ BufferInv
    BY <2>1 DEF FdInv, BufferInv
  <2>5. StreamInv
    BY <2>1 DEF StreamInv, Heard, Complete, NoStream
  <2> QED
    BY <2>3, <2>4, <2>5 DEF TermsOk
<1>2. MetricsTyped /\ ReadInv
  <2>1. ledger = <<>> /\ procs = <<>> /\ cache = NoCache /\ calm = TRUE
    BY DEF MetricsInit
  <2>2. reads = [m \in Readers |-> Resting] /\ Resting \in Read /\ Resting.at = "rest"
    BY DEF MetricsInit, Resting, Read
  <2>3. MetricsTyped
    BY <2>1, <2>2 DEF MetricsTyped, NoCache
  <2>4. \A m \in Readers : reads[m].at = "rest"
    BY <2>2
  <2>5. ReadInv
    <3>1. Solo
      BY <2>4 DEF Solo
    <3>2. CacheInv
      <4>1. NoCache.rows >= NoCache.sig
        BY DEF NoCache
      <4>2. cache.rows >= cache.sig
        BY <2>1, <4>1
      <4> QED
        BY <4>2, Zenon DEF CacheInv
    <3>3. \A m \in Readers : ReadOk(m)
      BY <2>4 DEF ReadOk
    <3> QED
      BY <3>1, <3>2, <3>3 DEF ReadInv
  <2> QED
    BY <2>3, <2>5
<1>3. SessTyped /\ DoingInv
  <2>1. NoSession \in Session
    BY DEF NoSession, Session, Folders, NoServer
  <2>2. NoRequest \in Holder /\ NoRequest.op = "none"
    BY DEF NoRequest, Holder, Task
  <2> QED
    BY <2>1, <2>2 DEF SessTyped, DoingInv
<1>4. ServersAreOwned
  BY DEF MetricsInit, ServersAreOwned, Live
<1> QED
  BY <1>1, <1>2, <1>3, <1>4 DEF IInv, TermsOk

LEMMA Inductive == Spec => []IInv
<1>1. IInv /\ [Next]_vars => IInv'
  <2> SUFFICES ASSUME IInv, [Next]_vars PROVE IInv'
    OBVIOUS
  <2>1. /\ TermsTyped /\ TermsOk /\ MetricsTyped /\ SessTyped
        /\ DoingInv /\ ReadInv /\ ServersAreOwned
    BY DEF IInv, TermsOk
  <2>2. TermsTyped' /\ TermsOk'
    BY <2>1, TermStep
  <2>3. SessionsKept'
    BY <2>1, SessionStep
  <2>5. /\ cache' \in [sig : Int, rows : Int]
        /\ reads' \in [Readers -> Read]
        /\ calm' \in BOOLEAN
        /\ ledger' \in Seq(Event)
        /\ ReadInv'
    BY <2>1, ReadStep
  <2>6. /\ procs' \in Seq(Server)
        /\ SessTyped' /\ DoingInv' /\ ServersAreOwned'
    BY <2>3 DEF SessionsKept
  <2>7. MetricsTyped'
    BY <2>5, <2>6 DEF MetricsTyped
  <2>8. FdInv' /\ BufferInv' /\ StreamInv'
    BY <2>2 DEF TermsOk
  <2> QED
    BY <2>2, <2>5, <2>6, <2>7, <2>8 DEF IInv
<1> QED
  BY <1>1, Start, PTL DEF Spec

\* No preview server is left running: a live one is the server its open session
\* has or boots, unless the host that had it died without
\* stopping it, or the request failed that booted it.
THEOREM ServersAreAlwaysOwned == Spec => []ServersAreOwned
<1>1. IInv => ServersAreOwned
  BY DEF IInv
<1> QED
  BY <1>1, Inductive, PTL

\* What a stream sends is the output of terminals of its session, in order and
\* each piece once; of the first one, all of it while it fits the buffer and
\* nobody else has taken from it.
THEOREM StreamsAreAlwaysFaithful == Spec => []StreamsAreFaithful
<1>1. IInv => StreamsAreFaithful
  BY StreamsOk DEF IInv, TermsOk
<1> QED
  BY <1>1, Inductive, PTL

\* A read of the ledger that no other has overlapped finds every row that was
\* there when it began, whatever the cache of rows holds.
THEOREM ReadsAreAlwaysFresh == Spec => []ReadsAreFresh
<1>1. IInv => ReadsAreFresh
  BY DEF IInv, ReadInv, ReadOk, ReadsAreFresh
<1> QED
  BY <1>1, Inductive, PTL
=============================================================================

------------------------------ MODULE Metrics ------------------------------
(***************************************************************************)
(* The governance view (metrics_lib.py): requests that read the ledger     *)
(* through a cache which threads share without a lock, and the kill switch *)
(* of the sessions.  The rows they look at are written by the workspaces   *)
(* and by the engine.                                                      *)
(*                                                                         *)
(* A read of the file is known by how many rows it has found, and the      *)
(* signature of the file (mtime, size) by how many rows it has: both only  *)
(* grow.  Abstracted: costs, tokens, latencies and the lines of the audit, *)
(* which are sums over the rows of a read; the usage the model log has.    *)
(***************************************************************************)
EXTENDS Integers, SequencesExt

CONSTANTS
  Readers     \* request threads of the governance view

VARIABLES
  ledger,     \* telemetry.jsonl
  procs,      \* the preview servers that were started, in order
  cache,      \* _LEDGER_CACHE
  reads,      \* what each thread is doing
  stopped,    \* _STOPPED
  calm        \* history: no refresh has overlapped another since the last

mvars == <<ledger, procs, cache, reads, stopped, calm>>

\* A cache that was never filled has no signature of the file.
NoCache == [sig |-> -1, rows |-> 0]

\* lone: the read has overlapped no other so far.
Resting == [at |-> "rest", stop |-> 0, sig |-> -1, rows |-> 0, lone |-> TRUE]

MetricsInit ==
  /\ ledger = <<>>
  /\ procs = <<>>
  /\ cache = NoCache
  /\ reads = [m \in Readers |-> Resting]
  /\ stopped = {}
  /\ calm = TRUE

---------------------------------------------------------------------------
\* Local processes.

\* A process that has ended stays a zombie until its parent has waited for it.
ProcStates == {"live", "zombie", "gone"}

\* A signal: a live process ends; waited says whether the host waits for it.
\* One that has lost its host is waited for by the system.
Kill(p, waited) ==
  [procs EXCEPT ![p].state =
     IF waited \/ ~procs[p].child \/ @ = "gone" THEN "gone" ELSE "zombie"]

\* _pid_alive: signal 0 reaches a zombie too.
PidAlive(p) == procs[p].state # "gone"

\* A server ends by itself.
ServerDies(p) ==
  /\ procs[p].state = "live"
  /\ procs' = Kill(p, FALSE)
  /\ UNCHANGED <<ledger, cache, reads, stopped, calm>>

---------------------------------------------------------------------------
\* _read_ledger, on behalf of a view (stop = 0) or of the kill switch.

\* The signature is taken and compared; an unchanged file is not read again.
Sign(m, stop) ==
  /\ reads[m].at = "rest"
  /\ LET sig == Len(ledger)
         alone == \A o \in Readers : reads[o].at = "rest" IN
     /\ reads' = [o \in Readers |->
          IF o = m THEN [at |-> IF sig = cache.sig THEN "hit" ELSE "parse",
                         stop |-> stop, sig |-> sig, rows |-> 0, lone |-> alone]
          ELSE [reads[o] EXCEPT !.lone = reads[o].at = "rest"]]
     /\ calm' = (calm /\ alone)
  /\ UNCHANGED <<ledger, procs, cache, stopped>>

Hit(m) ==
  /\ reads[m].at = "hit"
  /\ reads' = [reads EXCEPT ![m].at = "answer", ![m].rows = cache.rows]
  /\ UNCHANGED <<ledger, procs, cache, stopped, calm>>

Parse(m) ==
  /\ reads[m].at = "parse"
  /\ reads' = [reads EXCEPT ![m].at = "store", ![m].rows = Len(ledger)]
  /\ UNCHANGED <<ledger, procs, cache, stopped, calm>>

\* Mutant: the signature is taken again after the file was read.
StoreLateSig(m) ==
  /\ reads[m].at = "store"
  /\ cache' = [cache EXCEPT !.sig = Len(ledger)]
  /\ reads' = [reads EXCEPT ![m].at = "store rows"]
  /\ UNCHANGED <<ledger, procs, stopped, calm>>

\* The new signature is there before the new rows are.
StoreSig(m) ==
  /\ reads[m].at = "store"
  /\ cache' = [cache EXCEPT !.sig = reads[m].sig]
  /\ reads' = [reads EXCEPT ![m].at = "store rows"]
  /\ UNCHANGED <<ledger, procs, stopped, calm>>

StoreRows(m) ==
  /\ reads[m].at = "store rows"
  /\ cache' = [cache EXCEPT !.rows = reads[m].rows]
  /\ reads' = [reads EXCEPT ![m].at = "answer"]
  /\ calm' = (calm \/ reads[m].lone)
  /\ UNCHANGED <<ledger, procs, stopped>>

---------------------------------------------------------------------------
\* What is done with the rows.

\* The rows a read has found.
Rows(m) == SubSeq(ledger, 1, reads[m].rows)

\* _sessions: a record for each conversion of a session, in their order.
Records(rows) == SelectSeq(rows, LAMBDA row : row.kind = "conversion")

\* list_sessions, get_user_metrics and the other views: sums over the rows.
Answer(m) ==
  /\ reads[m].at = "answer" /\ reads[m].stop = 0
  /\ reads' = [reads EXCEPT ![m] = Resting]
  /\ UNCHANGED <<ledger, procs, cache, stopped, calm>>

\* stop_session: the first record of the session decides which process gets
\* the signal; a session that was stopped stays so, as does one that is not
\* known or not running.
StopSession(m) ==
  /\ reads[m].at = "answer" /\ reads[m].stop # 0
  /\ LET s == reads[m].stop
         own == SelectSeq(Records(Rows(m)), LAMBDA row : row.session = s) IN
     IF own = <<>> \/ s \in stopped \/ ~PidAlive(Head(own).pid)
     THEN UNCHANGED <<procs, stopped>>
     ELSE /\ procs' = Kill(Head(own).pid, FALSE)
          /\ stopped' = stopped \cup {s}
  /\ reads' = [reads EXCEPT ![m] = Resting]
  /\ UNCHANGED <<ledger, cache, calm>>

Refresh == \E m \in Readers :
  Hit(m) \/ Parse(m) \/ StoreSig(m) \/ StoreRows(m) \/ Answer(m) \/ StopSession(m)

\* The console is gone, and with it what it has cached; a process it has not
\* stopped goes on.
MetricsDie ==
  /\ cache' = NoCache
  /\ reads' = [m \in Readers |-> Resting]
  /\ stopped' = {}
  /\ calm' = TRUE

---------------------------------------------------------------------------
\* Properties.

\* "The numbers stay live": a read that no other has overlapped, nor the
\* refreshes that filled the cache for it, finds every row there was when it
\* began, whatever the cache holds and whoever appends meanwhile.
ReadsAreFresh ==
  calm => \A m \in Readers : reads[m].at \in {"store rows", "answer"} =>
    reads[m].rows >= reads[m].sig
===========================================================================

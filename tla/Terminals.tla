----------------------------- MODULE Terminals -----------------------------
(***************************************************************************)
(* The terminals of the workspace sessions (interactive_api.py, _pty_open, *)
(* _pty_close, _pty_io, _pty_tick): a shell on a pseudo terminal, a thread *)
(* that reads what it writes into a buffer, and streams that follow the    *)
(* buffer of whatever terminal the session has, every 25 ms, without the   *)
(* lock of the requests.                                                   *)
(*                                                                         *)
(* The reader knows its terminal by the number of a file descriptor, which *)
(* goes to the next terminal that is opened once it is closed.             *)
(*                                                                         *)
(* Abstracted: what a shell writes, in chunks that are numbered; the size  *)
(* of the window; the environment of the shell.                            *)
(***************************************************************************)
EXTENDS Integers, SequencesExt

CONSTANTS
  Sessions,   \* workspace sessions, 1 .. n in the order they are opened
  Clients,    \* browsers that follow a terminal
  Cap,        \* the chunks a buffer holds (200 000 bytes)
  MaxOutput   \* bound: the chunks a shell writes

ASSUME TerminalsAssumption ==
  /\ IsFiniteSet(Sessions) /\ Sessions = 1 .. Cardinality(Sessions)
  /\ {Cap, MaxOutput} \subseteq Nat

VARIABLES
  terms,      \* the terminals that were opened, in order
  pty,        \* session["_pty"], the terminal of each session
  streams,    \* the stream of each client
  robbed      \* history: terminals of which another reader took a chunk

tvars == <<terms, pty, streams, robbed>>

NoTerm == 0

NoStream == [on |-> FALSE, session |-> 0, sent |-> 0, got |-> <<>>]

TerminalsInit ==
  /\ terms = <<>>
  /\ pty = [s \in Sessions |-> NoTerm]
  /\ streams = [c \in Clients |-> NoStream]
  /\ robbed = {}

---------------------------------------------------------------------------
\* Descriptors.

OpenTerms == {k \in DOMAIN terms : terms[k].open}

\* os.openpty: the lowest number that is free.
FreeFd == Min((1 .. Len(terms) + 1) \ {terms[k].fd : k \in OpenTerms})

\* The terminals that answer to the descriptor of k: one at most.
Behind(k) == {j \in OpenTerms : terms[j].fd = terms[k].fd}

---------------------------------------------------------------------------
\* Opening and closing, steps of a request that holds the lock.

\* _pty_open, from openpty on; the shell starts unless its directory is gone,
\* and then the descriptor is left open.
OpenTerminal(s, starts) ==
  /\ terms' = Append(terms, [session |-> s, fd |-> FreeFd, open |-> TRUE, shell |-> starts,
                             reader |-> starts, out |-> 0, taken |-> 0, buf |-> <<>>])
  /\ pty' = [pty EXCEPT ![s] = IF starts THEN Len(terms') ELSE @]
  /\ UNCHANGED <<streams, robbed>>

\* _pty_close kills the shell and waits for it ...
KillShell(s) ==
  /\ pty[s] # NoTerm
  /\ terms' = [terms EXCEPT ![pty[s]].shell = FALSE]
  /\ UNCHANGED <<pty, streams, robbed>>

\* ... and closes the descriptor, whether or not the reader is through.
CloseMaster(s) ==
  /\ pty[s] # NoTerm
  /\ terms' = [terms EXCEPT ![pty[s]].open = FALSE]
  /\ pty' = [pty EXCEPT ![s] = NoTerm]
  /\ UNCHANGED <<streams, robbed>>

---------------------------------------------------------------------------
\* The shell and its reader.

\* The shell writes a chunk, of its own or for what was typed (_pty_io).
ShellWrites(k) ==
  /\ terms[k].shell
  /\ terms[k].out < MaxOutput
  /\ terms' = [terms EXCEPT ![k].out = @ + 1]
  /\ UNCHANGED <<pty, streams, robbed>>

\* The user leaves the shell.
ShellExits(k) ==
  /\ terms[k].shell
  /\ terms' = [terms EXCEPT ![k].shell = FALSE]
  /\ UNCHANGED <<pty, streams, robbed>>

\* The last chunks that a buffer has room for.
Kept(buf) == SubSeq(buf, Len(buf) - Min({Cap, Len(buf)}) + 1, Len(buf))

\* reader: the next chunk of the terminal behind its descriptor.
ReaderTakes(k) ==
  /\ terms[k].reader
  /\ \E j \in Behind(k) :
       /\ terms[j].taken < terms[j].out
       /\ terms' = [terms EXCEPT ![j].taken = @ + 1,
                                 ![k].buf = Kept(Append(@, <<j, terms[j].taken + 1>>))]
       /\ robbed' = IF j = k THEN robbed ELSE robbed \cup {j}
  /\ UNCHANGED <<pty, streams>>

\* reader: OSError, or nothing more to come.
ReaderStops(k) ==
  /\ terms[k].reader
  /\ \A j \in Behind(k) : ~terms[j].shell /\ terms[j].taken = terms[j].out
  /\ terms' = [terms EXCEPT ![k].reader = FALSE]
  /\ UNCHANGED <<pty, streams, robbed>>

---------------------------------------------------------------------------
\* The streams.

\* pty_stream_async: the browser attaches, from the start of the buffer.
Attach(c, s) ==
  /\ streams' = [streams EXCEPT ![c] = [NoStream EXCEPT !.on = TRUE, !.session = s]]
  /\ UNCHANGED <<terms, pty, robbed>>

\* The terminal a stream finds, none being like one whose shell is gone.
Followed(c) ==
  LET k == pty[streams[c].session] IN
  IF k = NoTerm THEN [shell |-> FALSE, buf |-> <<>>] ELSE terms[k]

\* Mutant: the offset of the last frame is kept.
TickFromOld(c) ==
  /\ streams[c].on
  /\ LET term == Followed(c)
         buf == term.buf
         sent == streams[c].sent IN
     /\ Len(buf) > sent \/ ~term.shell
     /\ streams' = [streams EXCEPT
          ![c].on = term.shell,
          ![c].got = IF Len(buf) > sent THEN @ \o SubSeq(buf, sent + 1, Len(buf)) ELSE @]
  /\ UNCHANGED <<terms, pty, robbed>>

\* _pty_tick: what the buffer has beyond the offset is sent, base being 0
\* because the buffer is never longer than what it may hold; the stream ends
\* with the shell or when there is no terminal.  A tick that finds nothing is
\* no step.
Tick(c) ==
  /\ streams[c].on
  /\ LET term == Followed(c)
         buf == term.buf
         sent == streams[c].sent IN
     /\ Len(buf) > sent \/ ~term.shell
     /\ streams' = [streams EXCEPT
          ![c].on = term.shell,
          ![c].got = IF Len(buf) > sent THEN @ \o SubSeq(buf, sent + 1, Len(buf)) ELSE @,
          ![c].sent = Max({sent, Len(buf)})]
  /\ UNCHANGED <<terms, pty, robbed>>

\* What goes on without a request.
Shells ==
  \/ \E k \in DOMAIN terms : ShellWrites(k) \/ ShellExits(k) \/ ReaderTakes(k) \/ ReaderStops(k)
  \/ \E c \in Clients : Tick(c)

\* The host is gone: its terminals hang up, its browsers are cut off.
TerminalsDie ==
  /\ terms' = [k \in DOMAIN terms |->
                 [terms[k] EXCEPT !.open = FALSE, !.shell = FALSE, !.reader = FALSE]]
  /\ pty' = [s \in Sessions |-> NoTerm]
  /\ streams' = [c \in Clients |-> [streams[c] EXCEPT !.on = FALSE]]
  /\ UNCHANGED robbed

---------------------------------------------------------------------------
\* Properties.

\* A stream shows terminals of its session only, the chunks of each in their
\* order and none of them twice.  Of the first one it shows, it leaves nothing
\* out, as long as the output has not outgrown the buffer and no reader of a
\* closed terminal has taken from it.
StreamsAreFaithful ==
  \A c \in Clients : streams[c].got # <<>> =>
    LET got == streams[c].got
        first == got[1][1] IN
    /\ \A i \in DOMAIN got : terms[got[i][1]].session = streams[c].session
    /\ \A i, j \in DOMAIN got : i < j /\ got[i][1] = got[j][1] => got[i][2] < got[j][2]
    /\ first \notin robbed /\ terms[first].taken <= Cap =>
         \A i \in DOMAIN got : got[i][1] = first =>
           \A n \in 1 .. got[i][2] : <<first, n>> \in ToSet(got)
===========================================================================

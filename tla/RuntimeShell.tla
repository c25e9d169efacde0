---------------------------- MODULE RuntimeShell ----------------------------
(***************************************************************************)
(* One terminal session of the console (interactive-api/runtime_shell.py,  *)
(* RuntimeShellSession and the registry).  A thread of its own connects to *)
(* the remote shell, launches the agent's CLI at the measured width and    *)
(* emits what the shell prints; the handlers of the web server resize and  *)
(* close the session, and stream its output to any number of browsers.     *)
(*                                                                         *)
(* Output is counted in chunks, numbered in the order of their emission.   *)
(* The k-th resize asks for width k; the session is opened at width 0.     *)
(***************************************************************************)
EXTENDS Naturals, Sequences

CONSTANTS
  Clients,      \* the browsers that stream the output
  Attempts,     \* _SHELL_OPEN_ATTEMPTS
  MaxFrames,    \* bound: the chunks the shell prints
  MaxResizes    \* bound: the resizes the browsers ask for

ASSUME RuntimeShellAssumption ==
  /\ Attempts \in Nat \ {0}
  /\ {MaxFrames, MaxResizes} \subseteq Nat

VARIABLES
  conn,       \* where the connection thread is
  tries,      \* the attempts to open the shell that have failed
  frames,     \* the chunks the shell has printed
  alive,      \* s.alive
  shell,      \* s._shell is set
  size,       \* s._size
  event,      \* s._size_event is set
  stopping,   \* the loop of the session has been told to stop
  calls,      \* the resizes scheduled on that loop
  pty,        \* the width of the remote terminal
  resizing,   \* the resize that a handler has recorded and not yet passed on
  asked,      \* the resizes so far, hence the width asked for last
  registry,   \* the session is not yet, or no longer, in _sessions
  buffer,     \* the chunks in s.buffer
  stream,     \* stream[c]: where stream_output is for client c
  queue,      \* queue[c]: the chunks waiting for client c
  shown,      \* shown[c]: the last chunk client c was sent
  lost,       \* history: _connect has overwritten the width asked for last
  deaf,       \* history: close has found no running loop to stop
  missed      \* history: missed[c]: a chunk was emitted before c subscribed

shellVars == <<conn, tries, frames, alive, shell, size, event, stopping, calls, pty,
          resizing, asked, registry, buffer, stream, queue, shown, lost, deaf,
          missed>>

output  == <<buffer, queue, missed>>
clients == <<stream, shown>>
sizing  == <<size, event, calls, pty, resizing, asked, lost>>
ending  == <<alive, stopping, registry, deaf>>

ShellInit ==
  /\ conn = "start"
  /\ tries = 0
  /\ frames = 0
  /\ alive = TRUE
  /\ shell = FALSE
  /\ size = 0
  /\ event = FALSE
  /\ stopping = FALSE
  /\ calls = <<>>
  /\ pty = 0
  /\ resizing = 0
  /\ asked = 0
  /\ registry = "absent"
  /\ buffer = 0
  /\ stream = [c \in Clients |-> "off"]
  /\ queue = [c \in Clients |-> <<>>]
  /\ shown = [c \in Clients |-> 0]
  /\ lost = FALSE
  /\ deaf = FALSE
  /\ missed = [c \in Clients |-> FALSE]

\* The states in which the loop of the session runs.
Looping == {"opening", "opened", "gate", "launch", "running", "closing"}

ShellGoto(from, to) ==
  /\ conn = from
  /\ conn' = to

Subscribed(c) == stream[c] \in {"on", "wait"}

\* Mutant of Emit: only a client that waits is told.
EmitToWaiting ==
  /\ buffer' = buffer + 1
  /\ queue' = [c \in Clients |->
                 IF stream[c] = "wait" THEN Append(queue[c], buffer') ELSE queue[c]]
  /\ UNCHANGED missed

\* _emit: into the buffer and, under the lock, to every subscriber.
Emit ==
  /\ buffer' = buffer + 1
  /\ queue' = [c \in Clients |->
                 IF Subscribed(c) THEN Append(queue[c], buffer') ELSE queue[c]]
  /\ missed' = [c \in Clients |-> missed[c] \/ stream[c] = "told"]

---------------------------------------------------------------------------
\* The connection thread: _run_loop, _connect and _open_shell_when_ready.

RunLoop ==
  /\ ShellGoto("start", "opening")
  /\ UNCHANGED <<tries, frames, shell, sizing, ending, output, clients>>

\* The runtime is still warming; there is an attempt left.
RetryOpen ==
  /\ conn = "opening"
  /\ tries + 1 < Attempts
  /\ tries' = tries + 1
  /\ Emit
  /\ UNCHANGED <<conn, frames, shell, sizing, ending, clients>>

OpenShell ==
  /\ ShellGoto("opening", "opened")
  /\ shell' = TRUE
  /\ UNCHANGED <<tries, frames, sizing, ending, output, clients>>

\* self._size = (cols, rows), the size the session was opened with.
TakeSize ==
  /\ ShellGoto("opened", "gate")
  /\ size' = 0
  /\ lost' = (asked > 0)
  /\ UNCHANGED <<tries, frames, shell, event, calls, pty, resizing, asked,
                 ending, output, clients>>

\* Mutant of PassGate: the size is read before the wait.
PassGateStale ==
  /\ ShellGoto("gate", "launch")
  /\ pty' = 0
  /\ UNCHANGED <<tries, frames, shell, size, event, calls, resizing, asked, lost,
                 ending, output, clients>>

\* The first resize, or 1.5 s without one.
PassGate ==
  /\ ShellGoto("gate", "launch")
  /\ pty' = size
  /\ UNCHANGED <<tries, frames, shell, size, event, calls, resizing, asked, lost,
                 ending, output, clients>>

\* The CLI paints its banner at the width of the terminal.
Launch ==
  /\ ShellGoto("launch", "running")
  /\ UNCHANGED <<tries, frames, shell, sizing, ending, output, clients>>

Frame ==
  /\ conn = "running"
  /\ frames < MaxFrames
  /\ frames' = frames + 1
  /\ Emit
  /\ UNCHANGED <<conn, tries, shell, sizing, ending, clients>>

\* A STATUS or CLOSE frame; the shell is closed on the way out.
Hangup ==
  /\ ShellGoto("running", "closing")
  /\ UNCHANGED <<tries, frames, shell, sizing, ending, output, clients>>

LeaveShell ==
  /\ ShellGoto("closing", "ended")
  /\ alive' = FALSE
  /\ UNCHANGED <<tries, frames, shell, sizing, stopping, registry, deaf, output,
                 clients>>

\* "[session ended]"
LastWord ==
  /\ ShellGoto("ended", "over")
  /\ Emit
  /\ UNCHANGED <<tries, frames, shell, sizing, ending, clients>>

\* The shell does not open, or a call on it fails.
Raise ==
  /\ conn \in Looping
  /\ conn' = "raised"
  /\ UNCHANGED <<tries, frames, shell, sizing, ending, output, clients>>

\* run_until_complete raises as its loop is stopped.
LoopStops ==
  /\ stopping
  /\ Raise

ReportError ==
  /\ ShellGoto("raised", "dying")
  /\ Emit
  /\ UNCHANGED <<tries, frames, shell, sizing, ending, clients>>

ShellDies ==
  /\ ShellGoto("dying", "over")
  /\ alive' = FALSE
  /\ UNCHANGED <<tries, frames, shell, sizing, stopping, registry, deaf, output,
                 clients>>

\* A resize that was scheduled on the loop.
ServeCall ==
  /\ calls # <<>>
  /\ conn \in Looping
  /\ pty' = Head(calls)
  /\ calls' = Tail(calls)
  /\ UNCHANGED <<conn, tries, frames, shell, size, event, resizing, asked, lost,
                 ending, output, clients>>

---------------------------------------------------------------------------
\* The handlers: open_runtime_session (after start), close_runtime_session,
\* resize.

Register ==
  /\ registry = "absent"
  /\ registry' = "listed"
  /\ UNCHANGED <<conn, tries, frames, shell, sizing, alive, stopping, deaf, output,
                 clients>>

\* Mutant of Close: the session is only marked dead.
CloseQuietly ==
  /\ registry = "listed"
  /\ registry' = "dropped"
  /\ alive' = FALSE
  /\ UNCHANGED <<conn, tries, frames, shell, sizing, stopping, deaf, output, clients>>

\* A loop that does not run yet is not stopped.
Close ==
  /\ registry = "listed"
  /\ registry' = "dropped"
  /\ alive' = FALSE
  /\ stopping' = (conn \in Looping)
  /\ deaf' = (conn = "start")
  /\ UNCHANGED <<conn, tries, frames, shell, sizing, output, clients>>

\* The measured size is recorded and releases the launch gate.
RecordSize ==
  /\ registry = "listed"
  /\ resizing = 0
  /\ asked < MaxResizes
  /\ asked' = asked + 1
  /\ size' = asked'
  /\ event' = TRUE
  /\ resizing' = asked'
  /\ lost' = FALSE
  /\ UNCHANGED <<conn, tries, frames, shell, calls, pty, ending, output, clients>>

\* A live shell is resized as well.
PassOnSize ==
  /\ resizing # 0
  /\ calls' = IF shell /\ alive THEN Append(calls, resizing) ELSE calls
  /\ resizing' = 0
  /\ UNCHANGED <<conn, tries, frames, shell, size, event, pty, asked, lost, ending,
                 output, clients>>

---------------------------------------------------------------------------
\* stream_output, for one client.

session == <<conn, tries, frames, shell, sizing, ending>>

Move(c, from, to) ==
  /\ stream[c] = from
  /\ stream' = [stream EXCEPT ![c] = to]

\* What there is of the output is sent at once.
TellBuffer(c) ==
  /\ registry = "listed"
  /\ Move(c, "off", "told")
  /\ shown' = [shown EXCEPT ![c] = buffer]
  /\ UNCHANGED <<session, output>>

Subscribe(c) ==
  /\ Move(c, "told", "on")
  /\ UNCHANGED <<session, output, shown>>

\* while s.alive
Wait(c) ==
  /\ alive
  /\ Move(c, "on", "wait")
  /\ UNCHANGED <<session, output, shown>>

Deliver(c) ==
  /\ queue[c] # <<>>
  /\ Move(c, "wait", "on")
  /\ shown' = [shown EXCEPT ![c] = Head(queue[c])]
  /\ queue' = [queue EXCEPT ![c] = Tail(@)]
  /\ UNCHANGED <<session, buffer, missed>>

\* Mutant of KeepAlive: q.get() without a timeout.
KeepAliveNever(c) ==
  /\ FALSE
  /\ Move(c, "wait", "on")
  /\ UNCHANGED <<session, output, shown>>

\* Nothing for 2 s.
KeepAlive(c) ==
  /\ queue[c] = <<>>
  /\ Move(c, "wait", "on")
  /\ UNCHANGED <<session, output, shown>>

Unsubscribe(c) ==
  /\ queue' = [queue EXCEPT ![c] = <<>>]
  /\ shown' = [shown EXCEPT ![c] = 0]
  /\ missed' = [missed EXCEPT ![c] = FALSE]
  /\ UNCHANGED <<session, buffer>>

EndStream(c) ==
  /\ ~alive
  /\ Move(c, "on", "ended")
  /\ Unsubscribe(c)

\* The client goes away; its browser may connect again.
Disconnect(c) ==
  /\ stream[c] \in {"told", "on", "wait"}
  /\ stream' = [stream EXCEPT ![c] = "off"]
  /\ Unsubscribe(c)

---------------------------------------------------------------------------
Connection ==
  \/ RunLoop \/ RetryOpen \/ OpenShell \/ TakeSize \/ PassGate \/ Launch
  \/ LeaveShell \/ LastWord \/ LoopStops \/ ReportError \/ ShellDies

RemoteShell == Frame \/ Hangup \/ Raise

Handler == Register \/ Close \/ RecordSize \/ PassOnSize

Streaming(c) ==
  \/ Subscribe(c) \/ Wait(c) \/ Deliver(c) \/ KeepAlive(c) \/ EndStream(c)

ShellNext ==
  \/ Connection
  \/ RemoteShell
  \/ ServeCall
  \/ Handler
  \/ \E c \in Clients : TellBuffer(c) \/ Streaming(c) \/ Disconnect(c)

ShellSpec == ShellInit /\ [][ShellNext]_shellVars

\* The thread of the session runs, opening a shell ends in a shell or an error,
\* and clients read what they are sent.  The remote shell owes nothing.
FairShellSpec ==
  /\ ShellSpec
  /\ WF_shellVars(Connection)
  /\ \A c \in Clients : WF_shellVars(Streaming(c))

---------------------------------------------------------------------------
\* Properties.

\* Every variable keeps its type, and the loop has at most one call per resize.
ShellTypeOK ==
  /\ conn \in {"start", "raised", "dying", "ended", "over"} \cup Looping
  /\ tries \in 0 .. Attempts - 1
  /\ frames \in 0 .. MaxFrames
  /\ {alive, shell, event, stopping, lost, deaf} \subseteq BOOLEAN
  /\ {size, pty, resizing, asked} \subseteq 0 .. MaxResizes
  /\ calls \in Seq(1 .. MaxResizes)
  /\ Len(calls) <= asked
  /\ registry \in {"absent", "listed", "dropped"}
  /\ buffer \in Nat
  /\ stream \in [Clients -> {"off", "told", "on", "wait", "ended"}]
  /\ queue \in [Clients -> Seq(1 .. buffer)]
  /\ shown \in [Clients -> 0 .. buffer]
  /\ missed \in [Clients -> BOOLEAN]

\* What a client has been sent and what waits for it is the output so far, in
\* order, no chunk twice and none left out but those that were emitted between
\* the buffer and the subscription (_emit, stream_output).
StreamsAreFaithful ==
  \A c \in Clients : Subscribed(c) =>
    LET waiting == Len(queue[c]) IN
      /\ queue[c] = [i \in 1 .. waiting |-> buffer - waiting + i]
      /\ shown[c] + waiting <= buffer
      /\ ~missed[c] => shown[c] + waiting = buffer

\* Once all requests are served the running CLI has the width asked for last,
\* whichever of the launch and the resize came first, unless the resize came
\* while the shell was being opened (resize, _connect).
SizeIsHonoured ==
  conn = "running" /\ alive /\ calls = <<>> /\ resizing = 0 /\ ~lost => pty = asked

\* The stream of a session that is over ends, though nothing more is emitted
\* that would wake it up (stream_output).
StreamsEnd == \A c \in Clients :
  ~alive /\ stream[c] # "off" ~> stream[c] \in {"off", "ended"}

\* "a connection never hangs un-launched": whether or not a browser ever sends
\* a size, the thread gets as far as the launch or ends (_connect).  And a
\* closed session is torn down: its thread ends, whatever it was doing and
\* however long the shell would go on, unless close came before the thread had
\* begun to run its loop (close).
ConnectionsSettle ==
  /\ conn = "opening" ~> conn \in {"running", "over"}
  /\ registry = "dropped" /\ ~deaf ~> conn = "over"
===========================================================================

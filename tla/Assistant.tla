----------------------------- MODULE Assistant -----------------------------
(***************************************************************************)
(* Turns of the chat and the runs they start (connection_api.py,           *)
(* chat_stream; chat.py, build_agent, the tools and stream_chat;           *)
(* router.py, route; engine.py, submit, _admission, _preflight             *)
(* and the threads of the roles; executor.py; identity_baggage.py and the  *)
(* environment of a dispatch in runtime_exec.py).                          *)
(*                                                                         *)
(* A turn reads the history of its conversation, builds an agent with the  *)
(* tools of the roles that are wired, and lets it run on a thread of its   *)
(* own that puts events on a queue; the request drains the queue to the    *)
(* browser and keeps the history when the turn is over.  The browser may   *)
(* leave at any time, which does not stop the thread.  The agent calls     *)
(* tools, several at a time; the ones that start a run return at once.     *)
(* The console lets a request in (Identity) before it has read it, and     *)
(* asks whose it is once it has (server.py, s2_chat).                      *)
(*                                                                         *)
(* Abstracted: what is said, but for the wording of a task, known by the   *)
(* intents the router finds in it; events of text, reasoning, errors and   *)
(* keepalive; the tools that read (files, terminals, the status of a run). *)
(* Every role has one runtime at most.  What else a run goes through is in *)
(* RunLifecycle.  An agent keeps the messages it was given and adds those  *)
(* of its turn, the user's at least; what the library drops from them by   *)
(* itself, when a model's window is full, is not modelled.                 *)
(***************************************************************************)
EXTENDS Identity, SequencesExt

CONSTANTS
  Turns,        \* 1 .. n, in the order of the requests
  Convs,        \* conversation ids
  Tasks,        \* the wordings of tasks, each the set of its intents
  Lengths,      \* the numbers of messages a turn may add to its conversation
  Retained,     \* _MAX_TURNS, which counts messages
  MaxCalls,     \* bound: the calls of starting tools in a turn
  MaxRuns,      \* bound: the runs and the calls that may start one
  Unsettled,    \* bound: the roles that are wired and unwired
  MaxChanges    \* bound: the changes of them and of the sessions

ASSUME AssistantAssumption ==
  /\ IsFiniteSet(Turns) /\ Turns = 1 .. Cardinality(Turns)
  /\ Lengths \subseteq Nat \ {0}
  /\ {Retained, MaxCalls, MaxRuns, MaxChanges} \subseteq Nat

VARIABLES
  wired,      \* the roles with a runtime
  changes,    \* the changes of them and of the sessions so far
  history,    \* _CONVERSATIONS: of each message, the turn it is of
  stage,      \* where each turn is
  request,    \* the conversation of each turn and the session it came with
  identity,   \* whom it is attributed to
  base,       \* the history a turn was given
  offered,    \* the roles whose tools its agent has
  flight,     \* its tool calls in flight
  calls,      \* its calls of starting tools so far
  queue,      \* q, its events on their way to the browser
  seen,       \* what the browser has got
  runs,       \* _runs, in the order of submit
  lapsed,     \* history: the turns whose session ended while they were read
  alone,      \* history: the turns that overlapped no other of their conversation
  heard,      \* history: the turns kept when a turn was asked for
  behind      \* history: the messages of turns kept since a turn was

\* What stays when nobody signs in or out, is let in or wired.
scene == <<idvars, wired, changes, lapsed>>

\* What a turn was given.
given == <<request, identity, base, offered, alone, heard>>

turn == <<given, history, behind, stage, flight, calls, queue, seen>>

vars == <<scene, turn, runs>>

Backend == "claude-code"
Frontend == "opencode"
Validator == "claude-code-validator"
Builders == {Backend, Frontend, Validator}
Roles == Builders \cup {"orchestrator"}

---------------------------------------------------------------------------
\* The router.

Convert == "convert/sample-to-mcp-v1"
Fullstack == "build/fullstack-v1"
PatchBackend == "patch/backend-v1"
PatchFrontend == "patch/frontend-v1"
Review == "review/pr-v1"

\* WORKFLOWS: the agents of each workflow.
Workflows == [w \in {Convert, Fullstack, PatchBackend, PatchFrontend, Review} |->
  CASE w \in {Convert, Fullstack} -> Builders
    [] w = PatchBackend -> {Backend}
    [] w = PatchFrontend -> {Frontend}
    [] w = Review -> {Validator}]

\* ... and the one that may not produce an artifact.
ReadOnly(w) == w = Review

NoRoute == "NO_ROUTE"

\* The intents in the order in which route looks for them in a task.
Ladder == <<<<"use opencode", PatchFrontend>>, <<"use claude", PatchBackend>>,
            <<"use validator", Review>>, <<"review", Review>>, <<"fullstack", Fullstack>>,
            <<"patch", PatchBackend>>, <<"convert", Convert>>>>

\* route: a reference that is given decides, else the first intent that is
\* found; no intent is no route.
Route(task, ref) ==
  LET found == {k \in DOMAIN Ladder : Ladder[k][1] \in task} IN
  IF ref # NoRoute THEN ref ELSE IF found = {} THEN NoRoute ELSE Ladder[Min(found)][2]

\* _ROLE_WORKFLOW: what an explicit agent is submitted under.
RoleWorkflow == [r \in Builders |->
  CASE r = Backend -> PatchBackend
    [] r = Frontend -> PatchFrontend
    [] r = Validator -> Review]

---------------------------------------------------------------------------
\* Mutant: the identity does not cross to the thread of the agent.
SubmittedUnsigned(t, who, task, agents, ref) ==
  [turn |-> t, user |-> NoUser, task |-> task, explicit |-> agents # {}, agents |-> agents,
   ref |-> ref, status |-> "submitted", reached |-> {}]

\* Engine.submit: the run takes the identity in the context of its caller.
Submitted(t, who, task, agents, ref) ==
  [turn |-> t, user |-> who, task |-> task, explicit |-> agents # {}, agents |-> agents,
   ref |-> ref, status |-> "submitted", reached |-> {}]

NoTurn == 0

\* The last event of a turn.
End == <<"end">>

Init ==
  /\ IdentityInit
  /\ wired = Roles
  /\ changes = 0
  /\ history = [c \in Convs |-> <<>>]
  /\ stage = [t \in Turns |-> "new"]
  /\ request = [t \in Turns |-> <<>>]
  /\ identity = [t \in Turns |-> NoUser]
  /\ base = [t \in Turns |-> <<>>]
  /\ offered = [t \in Turns |-> {}]
  /\ flight = [t \in Turns |-> {}]
  /\ calls = [t \in Turns |-> 0]
  /\ queue = [t \in Turns |-> <<>>]
  /\ seen = [t \in Turns |-> <<>>]
  /\ runs = <<>>
  /\ lapsed = {}
  /\ alone = Turns
  /\ heard = [t \in Turns |-> {}]
  /\ behind = [t \in Turns |-> 0]

Conv(t) == request[t][1]
Sender(t) == Owner(request[t][2])

Open == {t \in Turns : stage[t] = "streaming"}

---------------------------------------------------------------------------
\* A turn.

\* A session may end, and turns with it that are being read.
Lapse ==
  lapsed' = lapsed \cup {t \in Turns :
    /\ stage[t] = "reading" /\ request[t][2] # NoCookie
    /\ sessions[request[t][2]].state # "gone" /\ sessions'[request[t][2]].state = "gone"}

\* s2_chat: the request is let in, and its body awaited.
Knock(t, c, i) ==
  /\ stage[t] = "new"
  /\ \A s \in Turns : s < t => stage[s] # "new"
  /\ Authed(i) /\ Lapse
  /\ stage' = [stage EXCEPT ![t] = "reading"]
  /\ request' = [request EXCEPT ![t] = <<c, i>>]
  /\ UNCHANGED <<wired, changes, runs, history, behind, identity, base, offered, flight, calls, queue,
                 seen, alone, heard>>

\* Once it is there, the console asks whose it is ...
Identify(t, found) ==
  /\ stage[t] = "reading"
  /\ Identified(request[t][2], found) /\ Lapse
  /\ identity' = [identity EXCEPT ![t] = IF found THEN Sender(t) ELSE NoUser]

\* ... and the turn comes to nothing: chat_stream refuses it while no
\* orchestrator is wired, and where the agent cannot be built the console says
\* why and ends the stream.  Neither keeps a history.
Refuse(t, found) ==
  /\ Identify(t, found)
  /\ stage' = [stage EXCEPT ![t] = "refused"]
  /\ UNCHANGED <<wired, changes, runs, history, behind, request, base, offered, flight, calls, queue,
                 seen, alone, heard>>

\* chat_stream, up to the worker: the identity is set in the context of the
\* request, the history read, the agent built, and the context copied for the
\* thread that runs it.
Ask(t, found) ==
  /\ Identify(t, found)
  /\ "orchestrator" \in wired
  /\ stage' = [stage EXCEPT ![t] = "streaming"]
  /\ base' = [base EXCEPT ![t] = history[Conv(t)]]
  /\ offered' = [offered EXCEPT ![t] = wired \cap Builders]
  /\ LET others == {s \in Open : Conv(s) = Conv(t)} IN
     alone' = IF others = {} THEN alone ELSE alone \ (others \cup {t})
  /\ heard' = [heard EXCEPT ![t] = {s \in Turns : stage[s] = "over" /\ Conv(s) = Conv(t)}]
  /\ UNCHANGED <<wired, changes, runs, history, behind, request, flight, calls, queue, seen>>

\* The thread of a turn runs until it has put the end of its events.
Working(t) == stage[t] \in {"streaming", "left"} /\ \A e \in ToSet(queue[t] \o seen[t]) : e # End

\* build_tools: dispatch tools for the wired roles, run_build if there is any.
Offers(t, tool) == IF tool = "run_build" THEN offered[t] # {} ELSE tool \in offered[t]

\* The runs there are and the calls that may start one.
Pending ==
  LET unanswered == {p \in Turns \X (0 .. MaxCalls) :
        \E call \in flight[p[1]] : call.call = p[2] /\ "tool" \in DOMAIN call} IN
  Len(runs) + Cardinality(unanswered)

\* The agent calls a starting tool.
CallTool(t, tool, task) ==
  /\ Working(t)
  /\ Offers(t, tool)
  /\ calls[t] < MaxCalls /\ Pending < MaxRuns
  /\ calls' = [calls EXCEPT ![t] = @ + 1]
  /\ flight' = [flight EXCEPT ![t] = @ \cup {[call |-> calls[t], tool |-> tool, task |-> task]}]
  /\ UNCHANGED <<scene, given, history, behind, stage, queue, seen, runs>>

\* A tool returns: run is the run it has started, or 0.
Return(t, call, run) ==
  /\ flight' = [flight EXCEPT ![t] = (@ \ {call}) \cup {[call |-> call.call, run |-> run]}]
  /\ UNCHANGED <<scene, given, history, behind, stage, calls, queue, seen>>

\* Mutant: the workflow of an explicit agent is not pinned.
DispatchUnpinned(t, call) ==
  /\ "tool" \in DOMAIN call
  /\ call.tool \in Builders
  /\ runs' = Append(runs, Submitted(t, identity[t], call.task, {call.tool}, NoRoute))
  /\ Return(t, call, Len(runs'))

\* _kick from a dispatch tool: the role's own workflow is pinned.
Dispatch(t, call) ==
  /\ "tool" \in DOMAIN call
  /\ call.tool \in Builders
  /\ runs' = Append(runs, Submitted(t, identity[t], call.task, {call.tool}, RoleWorkflow[call.tool]))
  /\ Return(t, call, Len(runs'))

\* run_build: refused when the task has no route or one that builds nothing.
RunBuild(t, call) ==
  /\ "tool" \in DOMAIN call
  /\ call.tool = "run_build"
  /\ LET ref == Route(call.task, NoRoute) IN
     IF ref = NoRoute \/ ReadOnly(ref)
     THEN Return(t, call, 0) /\ UNCHANGED runs
     ELSE /\ runs' = Append(runs, Submitted(t, identity[t], call.task, {}, NoRoute))
          /\ Return(t, call, Len(runs'))

\* _after_tool, _extract_run: a run in the result of a starting tool is told.
AfterTool(t, call) ==
  /\ "run" \in DOMAIN call
  /\ flight' = [flight EXCEPT ![t] = @ \ {call}]
  /\ queue' = [queue EXCEPT ![t] = IF call.run = 0 THEN @ ELSE Append(@, <<"run", call.run>>)]
  /\ UNCHANGED <<scene, given, history, behind, stage, calls, seen, runs>>

\* Mutant: the turn ends though tools are in flight.
EndEarly(t) ==
  /\ Working(t)
  /\ queue' = [queue EXCEPT ![t] = Append(@, End)]
  /\ UNCHANGED <<scene, given, history, behind, stage, flight, calls, seen, runs>>

\* Mutant: a model that fails ends the thread before the last event.
EndUnlessFailed(t) ==
  /\ Working(t)
  /\ flight[t] = {}
  /\ <<"error">> \notin ToSet(queue[t] \o seen[t])
  /\ \E e \in {End, <<"error">>} : queue' = [queue EXCEPT ![t] = Append(@, e)]
  /\ UNCHANGED <<scene, given, history, behind, stage, flight, calls, seen, runs>>

\* _run: the model has answered, or it has failed, which is an event like a
\* text before the end.
EndOfTurn(t) ==
  /\ Working(t)
  /\ flight[t] = {}
  /\ queue' = [queue EXCEPT ![t] = Append(@, End)]
  /\ UNCHANGED <<scene, given, history, behind, stage, flight, calls, seen, runs>>

\* stream_chat, chat_stream: an event goes to the browser.
Drain(t) ==
  /\ stage[t] = "streaming"
  /\ queue[t] # <<>> /\ Head(queue[t]) # End
  /\ seen' = [seen EXCEPT ![t] = Append(@, Head(queue[t]))]
  /\ queue' = [queue EXCEPT ![t] = Tail(@)]
  /\ UNCHANGED <<scene, given, history, behind, stage, flight, calls, runs>>

\* Mutant of Trim: the first messages are kept.
TrimToFirst(s) == SubSeq(s, 1, Min({Retained, Len(s)}))

\* The last messages of a conversation.
Trim(s) == SubSeq(s, Len(s) - Min({Retained, Len(s)}) + 1, Len(s))

\* n messages of a turn.
Messages(t, n) == [k \in 1 .. n |-> t]

\* chat_stream: the messages of the agent, those it was given and n of its
\* turn, are kept, and then the browser told it is over.
Finish(t, n) ==
  /\ stage[t] = "streaming"
  /\ queue[t] # <<>> /\ Head(queue[t]) = End
  /\ seen' = [seen EXCEPT ![t] = Append(@, End)]
  /\ queue' = [queue EXCEPT ![t] = Tail(@)]
  /\ history' = [history EXCEPT ![Conv(t)] = Trim(base[t] \o Messages(t, n))]
  /\ behind' = [s \in Turns |->
                  IF stage[s] = "over" /\ Conv(s) = Conv(t) THEN behind[s] + n ELSE behind[s]]
  /\ stage' = [stage EXCEPT ![t] = "over"]
  /\ UNCHANGED <<scene, given, flight, calls, runs>>

\* The browser goes away; the generator is closed, its thread is not.
Leave(t) ==
  /\ stage[t] = "streaming"
  /\ stage' = [stage EXCEPT ![t] = "left"]
  /\ UNCHANGED <<scene, given, history, behind, flight, calls, queue, seen, runs>>

---------------------------------------------------------------------------
\* Runs.

\* POST /api/runs: agents and a workflow as the caller likes, and no identity.
SubmitDirect(task, agents, ref) ==
  /\ Pending < MaxRuns
  /\ runs' = Append(runs, Submitted(NoTurn, NoUser, task, agents, ref))
  /\ UNCHANGED <<scene, turn>>

Update(i, run) ==
  /\ runs' = [runs EXCEPT ![i] = run]
  /\ UNCHANGED <<scene, turn>>

Fail(i, reason) == Update(i, [runs[i] EXCEPT !.status = reason])

\* _admission: the task is routed again, and explicit agents win.
Admit(i) ==
  /\ runs[i].status = "submitted"
  /\ LET ref == Route(runs[i].task, runs[i].ref)
         agents == IF runs[i].agents # {} THEN runs[i].agents ELSE Workflows[ref] IN
     IF ref = NoRoute THEN Fail(i, NoRoute)
     ELSE Update(i, [runs[i] EXCEPT !.status = "admitted", !.ref = ref, !.agents = agents])

\* _preflight: every role must have a runtime ...
Preflight(i) ==
  /\ runs[i].status = "admitted"
  /\ IF runs[i].agents \subseteq wired
     THEN Update(i, [runs[i] EXCEPT !.status = "running"])
     ELSE Fail(i, "RUNTIME_NOT_WIRED")

\* ... and a review a run to look at.
NothingToReview(i) ==
  /\ runs[i].status = "admitted" /\ ReadOnly(runs[i].ref)
  /\ Fail(i, "NO_RUN_TO_REVIEW")

\* What a command that runs an agent says of the user (_build_command,
\* assume_as_user): nothing when there is none.
Stamp(i) == {runs[i].user} \ {NoUser}

\* _run_role, for the threads of all roles, which start together: each takes
\* the identity from the run; a role that has lost its runtime fails.  Those
\* that run as a command say whose the run is.  Those of the console's live
\* terminals and of a local runtime say nothing: dispatch_env has only what
\* to_otel_env gives, which is nothing as shipped, and the request to a local
\* runtime carries no user.
RunRoles(i) ==
  /\ runs[i].status = "running"
  /\ \E headless \in SUBSET (runs[i].agents \cap wired) :
       LET others == (runs[i].agents \cap wired) \ headless IN
       Update(i, [runs[i] EXCEPT !.status = "dispatched",
                                 !.reached = headless \X {Stamp(i)} \cup others \X {{}}])

\* A runtime is wired or unwired in the settings.
Changed == changes < MaxChanges /\ changes' = changes + 1

Wire(r) ==
  /\ Changed
  /\ wired' = IF r \in wired THEN wired \ {r} ELSE wired \cup {r}
  /\ UNCHANGED <<idvars, lapsed, runs, turn>>

\* Users sign in and out, and other requests of theirs, which a console makes
\* all the time, look their session up.
SignIn(u) == LogIn(u) /\ UNCHANGED <<wired, changes, lapsed, runs, turn>>

SignOut(u) == Changed /\ LogOut(u) /\ Lapse /\ UNCHANGED <<wired, runs, turn>>

TokenExpires(i) == Changed /\ Expires(i) /\ UNCHANGED <<wired, lapsed, runs, turn>>

Poll(i, found) ==
  /\ sessions[i].state = "stale"
  /\ GetSession(i, found) /\ Lapse
  /\ UNCHANGED <<wired, changes, runs, turn>>

---------------------------------------------------------------------------
Tools(t) == \E call \in flight[t] : Dispatch(t, call) \/ RunBuild(t, call) \/ AfterTool(t, call)

Agent(t) == \E tool \in Builders \cup {"run_build"}, task \in Tasks : CallTool(t, tool, task)

Browser(t) ==
  \/ \E c \in Convs, i \in Cookies : Knock(t, c, i)
  \/ \E found \in BOOLEAN : Refuse(t, found) \/ Ask(t, found)
  \/ Leave(t)

Drive(i) ==
  \/ Admit(i) \/ Preflight(i) \/ NothingToReview(i) \/ RunRoles(i)

Next ==
  \/ \E t \in Turns : Browser(t) \/ Agent(t) \/ Tools(t) \/ EndOfTurn(t) \/ Drain(t)
  \/ \E t \in Turns, n \in Lengths : Finish(t, n)
  \/ \E task \in Tasks, choice \in {<<{}, NoRoute>>, <<{Backend}, Fullstack>>} :
       SubmitDirect(task, choice[1], choice[2])
  \/ \E i \in 1 .. Len(runs) : Drive(i)
  \/ \E r \in Unsettled : Wire(r)
  \/ \E u \in Users : SignIn(u) \/ SignOut(u)
  \/ \E i \in DOMAIN sessions : TokenExpires(i) \/ \E found \in BOOLEAN : Poll(i, found)

Spec == Init /\ [][Next]_vars

\* The tools return, the model comes to an answer or fails, and the request
\* drains the queue.
FairSpec ==
  /\ Spec
  /\ \A t \in Turns :
       /\ WF_vars(Tools(t))
       /\ WF_vars(EndOfTurn(t))
       /\ WF_vars(Drain(t) \/ \E n \in Lengths : Finish(t, n))

---------------------------------------------------------------------------
\* Properties.

\* Every variable keeps its type; a turn has one call in flight for each it
\* has made at most.
TypeOK ==
  /\ wired \subseteq Roles
  /\ history \in [Convs -> Seq(Turns)]
  /\ stage \in [Turns -> {"new", "reading", "refused", "streaming", "left", "over"}]
  /\ offered \in [Turns -> SUBSET Builders]
  /\ \A t \in Turns : Cardinality(flight[t]) <= calls[t] /\ calls[t] <= MaxCalls
  /\ \A i \in DOMAIN runs :
       /\ runs[i].agents \subseteq Builders
       /\ runs[i].ref \in DOMAIN Workflows \cup {NoRoute}

\* "An explicit agent choice must never die on NO_ROUTE" (chat.py), and
\* neither does what run_build starts: admission routes it again and finds a
\* workflow, one that builds.
ChatRunsAreRouted ==
  \A i \in DOMAIN runs : runs[i].turn # NoTurn =>
    /\ runs[i].status # NoRoute
    /\ ~runs[i].explicit /\ ReadOnly(runs[i].ref) => runs[i].status = "submitted"

\* "The run is attributed to the signed-in user, not the host account"
\* (stream_chat): the user a run is kept for, in the ledger too, is the one who
\* sent the request of the turn that started it, whatever other turns and runs
\* are in progress and whether or not the session goes on; and nobody where
\* nobody signs in or the session ended while the request was read.  Its roles
\* say it is that user's or say nothing, and never name another.
RunsAreAttributed ==
  \A i \in DOMAIN runs :
    LET t == runs[i].turn
        user == IF t = NoTurn \/ t \in lapsed THEN NoUser ELSE Sender(t) IN
    /\ runs[i].user = user
    /\ \A r \in runs[i].reached : r[2] \subseteq {user} \ {NoUser}

\* A browser that stays to the end of a turn has been told of every run the
\* turn has started, of each once, and of no other.
RunsAreAnnounced ==
  \A t \in Turns : stage[t] = "over" =>
    \A i \in DOMAIN runs :
      Cardinality({k \in DOMAIN seen[t] : seen[t][k] = <<"run", i>>})
        = IF runs[i].turn = t THEN 1 ELSE 0

\* "So the chatbot has multi-turn memory" (_CONVERSATIONS): the last message of
\* a turn that was kept is in the history of its conversation, and in what each
\* turn asked for since was given, until as many messages as are retained have
\* been kept after it, unless it was in progress together with another one.
\* Turns the browser has left, and those whose agent could not be built, are
\* not kept.
FinishedTurnsAreHeard ==
  \A t \in alone :
    stage[t] = "over" /\ behind[t] < Retained =>
      /\ t \in ToSet(history[Conv(t)])
      /\ \A u \in Turns : t \in heard[u] => t \in ToSet(base[u])

\* Every turn ends for its browser, also when the agent fails.
TurnsEnd == \A t \in Turns : stage[t] = "streaming" ~> stage[t] # "streaming"
===========================================================================

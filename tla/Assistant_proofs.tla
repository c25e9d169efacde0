-------------------------- MODULE Assistant_proofs --------------------------
(***************************************************************************)
(* Theorems about Assistant for every number of turns, calls and runs, any *)
(* conversations, users, sessions and wordings: what the chat starts is    *)
(* routed, attributed to who asked for it and announced once, and a turn   *)
(* hears those before it.                                                  *)
(***************************************************************************)
EXTENDS Assistant, FiniteSetTheorems, SequenceTheorems, TLAPS

\* The statuses of a run, and the runs.
Statuses == {"submitted", "admitted", "running", "dispatched",
             NoRoute, "RUNTIME_NOT_WIRED", "NO_RUN_TO_REVIEW"}

References == DOMAIN Workflows \cup {NoRoute}

Run == [turn : Turns \cup {NoTurn}, user : Users \cup {NoUser}, task : Tasks,
        explicit : BOOLEAN, agents : SUBSET Builders, ref : References,
        status : Statuses, reached : SUBSET (Builders \X SUBSET Users)]

\* The calls of tools in flight: still to be looked at, or returned.
Asking == [call : Nat, tool : Builders \cup {"run_build"}, task : Tasks]
Returned == [call : Nat, run : Nat]

Events == {End} \cup ({"run"} \X (Nat \ {0}))

Session == [user : Users, state : {"fresh", "stale", "gone"}]

\* The types, in more detail than TypeOK.
SessionsOK ==
  /\ sessions \in Seq(Session)
  /\ cookie \in [Users -> 0 .. Len(sessions)]

TurnsOK ==
  /\ history \in [Convs -> Seq(Turns)]
  /\ stage \in [Turns -> {"new", "reading", "refused", "streaming", "left", "over"}]
  /\ request \in [Turns -> {<<>>} \cup (Convs \X (0 .. Len(sessions)))]
  /\ \A t \in Turns : stage[t] # "new" => request[t] \in Convs \X (0 .. Len(sessions))
  /\ identity \in [Turns -> Users \cup {NoUser}]
  /\ base \in [Turns -> Seq(Turns)]
  /\ lapsed \subseteq Turns
  /\ alone \subseteq Turns
  /\ heard \in [Turns -> SUBSET Turns]
  /\ behind \in [Turns -> Nat]

EventsOK ==
  /\ flight \in [Turns -> SUBSET (Asking \cup Returned)]
  /\ queue \in [Turns -> Seq(Events)]
  /\ seen \in [Turns -> Seq(Events)]

CallsOK == calls \in [Turns -> Nat]

RunsOK == runs \in Seq(Run)

\* The turns an agent was built for.
Asked(t) == stage[t] \in {"streaming", "left", "over"}

\* A turn has lost its session if that ended while the turn was read, and from
\* then on stays whose it was.
SenderInv ==
  \A t \in Turns :
    /\ stage[t] = "reading" /\ request[t][2] # NoCookie =>
         (t \in lapsed <=> sessions[request[t][2]].state = "gone")
    /\ t \in lapsed => stage[t] # "new" /\ request[t][2] # NoCookie
    /\ Asked(t) => identity[t] = IF t \in lapsed THEN NoUser ELSE Sender(t)

\* A run is of the user of its turn, and its roles name no other.
UserInv ==
  \A i \in DOMAIN runs :
    /\ IF runs[i].turn = NoTurn
       THEN runs[i].user = NoUser
       ELSE Asked(runs[i].turn) /\ runs[i].user = identity[runs[i].turn]
    /\ \A r \in runs[i].reached : r[2] \subseteq {runs[i].user} \ {NoUser}

\* What run_build starts has a route that builds, though it is submitted
\* without it; a dispatch pins its own.
Routed(run) ==
  /\ run.status # NoRoute
  /\ run.explicit => run.ref # NoRoute
  /\ ~run.explicit =>
       IF run.status = "submitted"
       THEN run.ref = NoRoute /\ Route(run.task, NoRoute) \notin {NoRoute, Review}
       ELSE run.ref # Review

RouteInv == \A i \in DOMAIN runs : runs[i].turn # NoTurn => Routed(runs[i])

\* The events of a turn, on both sides of the browser.
Log(t) == seen[t] \o queue[t]

\* Where run i is told of, and the calls in flight that will tell of it.
Told(t, i) == {k \in DOMAIN Log(t) : Log(t)[k] = <<"run", i>>}
Carrying(t, i) == {call \in flight[t] : "run" \in DOMAIN call /\ call.run = i}

\* A run is told of once, or there is one call that will tell of it.
Heralded(t, i) ==
  \/ (\E k : Told(t, i) = {k}) /\ Carrying(t, i) = {}
  \/ Told(t, i) = {} /\ \E call : Carrying(t, i) = {call}

\* The runs of a turn.
Of(t) == {i \in DOMAIN runs : runs[i].turn = t}

\* The end is the last event of a turn, and comes when no call is in flight.
LogOK(t) ==
  /\ ~Asked(t) => flight[t] = {} /\ Log(t) = <<>>
  /\ \A k \in DOMAIN Log(t) : Log(t)[k] = End => k = Len(Log(t)) /\ flight[t] = {}
  /\ stage[t] = "over" => queue[t] = <<>> /\ \E k \in DOMAIN seen[t] : seen[t][k] = End
  /\ \A i \in Nat \ {0} :
       IF i \in Of(t) THEN Heralded(t, i) ELSE Told(t, i) = {} /\ Carrying(t, i) = {}

LogInv == \A t \in Turns : LogOK(t)

\* A sequence has t among its last n + 1.
Near(s, t, n) == \E k \in DOMAIN s : s[k] = t /\ Len(s) - k <= n

HeardInv ==
  \A u \in Turns :
    /\ heard[u] # {} => Asked(u)
    /\ \A t \in heard[u] : stage[t] = "over" /\ Conv(t) = Conv(u)
    /\ \A t \in heard[u] \cap alone : behind[t] < Retained => Near(base[u], t, behind[t])

\* A turn that is alone is over before the next one is asked for, and as many
\* messages as have been kept since are behind its last one in the history.
AloneInv ==
  \A t \in alone, u \in Turns :
    t # u /\ Asked(t) /\ u \in Open /\ Conv(t) = Conv(u) =>
      stage[t] # "streaming" /\ (stage[t] = "over" => t \in heard[u])

HistoryInv ==
  \A t \in Turns :
    /\ stage[t] # "over" => behind[t] = 0
    /\ t \in alone /\ stage[t] = "over" /\ behind[t] < Retained =>
         Near(history[Conv(t)], t, behind[t])

IInv ==
  /\ SessionsOK /\ TurnsOK /\ EventsOK /\ CallsOK /\ RunsOK
  /\ SenderInv /\ UserInv /\ RouteInv
  /\ LogInv /\ HeardInv /\ AloneInv /\ HistoryInv

---------------------------------------------------------------------------
\* The router.

\* The workflows there are; only the review builds nothing, and no route is
\* none of them.
LEMMA WorkflowFacts ==
  /\ DOMAIN Workflows = {Convert, Fullstack, PatchBackend, PatchFrontend, Review}
  /\ NoRoute \notin DOMAIN Workflows
  /\ \A w \in DOMAIN Workflows : Workflows[w] \subseteq Builders
<1> USE DEF Workflows, Convert, Fullstack, PatchBackend, PatchFrontend, Review, NoRoute
<1>1. ASSUME NEW w \in DOMAIN Workflows PROVE Workflows[w] \subseteq Builders
  BY DEF Builders
<1> QED
  BY <1>1

\* What an explicit agent is submitted under.
LEMMA RoleWorkflowFacts ==
  ASSUME NEW r \in Builders
  PROVE  RoleWorkflow[r] \in DOMAIN Workflows
<1>1. RoleWorkflow[r] \in {PatchBackend, PatchFrontend, Review}
  BY DEF RoleWorkflow, Builders, Backend, Frontend, Validator
<1> QED
  BY <1>1, WorkflowFacts

\* The first of some rungs of the ladder.
LEMMA FirstRung ==
  ASSUME NEW found \in SUBSET (1 .. 7), found # {}
  PROVE  Min(found) \in found
<1>1. \E x \in found : \A y \in found : x <= y
  <2> DEFINE upto(n) == found \cap 1 .. n # {} => \E x \in found : \A y \in found : x <= y
  <2>1. upto(1)
    OBVIOUS
  <2>2. upto(2)
    BY <2>1
  <2>3. upto(3)
    BY <2>2
  <2>4. upto(4)
    BY <2>3
  <2>5. upto(5)
    BY <2>4
  <2>6. upto(6)
    BY <2>5
  <2>7. upto(7)
    BY <2>6
  <2> QED
    BY <2>7
<1> QED
  BY <1>1 DEF Min

\* A reference that is given decides; else there is a workflow or no route.
LEMMA RouteFacts ==
  ASSUME NEW task, NEW ref \in References
  PROVE  /\ Route(task, ref) \in References
         /\ ref # NoRoute => Route(task, ref) = ref
<1> DEFINE found == {k \in DOMAIN Ladder : Ladder[k][1] \in task}
<1>1. /\ DOMAIN Ladder = 1 .. 7
      /\ \A k \in 1 .. 7 : Ladder[k][2] \in {Convert, Fullstack, PatchBackend, PatchFrontend, Review}
  BY DEF Ladder
<1>2. found # {} => Min(found) \in 1 .. 7
  <2>1. found \in SUBSET (1 .. 7)
    BY <1>1
  <2> QED
    BY <2>1, FirstRung
<1>3. Route(task, ref) = IF ref # NoRoute THEN ref
                         ELSE IF found = {} THEN NoRoute ELSE Ladder[Min(found)][2]
  BY DEF Route
<1> QED
  BY <1>1, <1>2, <1>3, WorkflowFacts DEF References

---------------------------------------------------------------------------
\* Sequences.

\* What an append does.
LEMMA AppendFacts ==
  ASSUME NEW S, NEW s \in Seq(S), NEW e \in S
  PROVE  /\ Append(s, e) \in Seq(S)
         /\ Len(Append(s, e)) = Len(s) + 1
         /\ DOMAIN Append(s, e) = 1 .. Len(s) + 1
         /\ Append(s, e)[Len(s) + 1] = e
         /\ \A k \in 1 .. Len(s) : Append(s, e)[k] = s[k]
  OBVIOUS

\* An event that goes from the queue to the browser stays where it is among
\* the events of the turn.
LEMMA DrainFacts ==
  ASSUME NEW S, NEW s \in Seq(S), NEW q \in Seq(S), q # <<>>
  PROVE  /\ Head(q) \in S /\ Tail(q) \in Seq(S)
         /\ Append(s, Head(q)) \o Tail(q) = s \o q
<1>1. /\ Head(q) \in S /\ Tail(q) \in Seq(S) /\ Len(Tail(q)) = Len(q) - 1
      /\ \A k \in 1 .. Len(Tail(q)) : Tail(q)[k] = q[k + 1]
      /\ Head(q) = q[1]
  BY HeadTailProperties
<1>2. Len(q) \in Nat \ {0} /\ Len(s) \in Nat
  BY EmptySeq, LenProperties
<1> DEFINE a == Append(s, Head(q))
           h == Head(q)
           r == Tail(q)
<1>3. /\ a \in Seq(S) /\ Len(a) = Len(s) + 1 /\ a[Len(s) + 1] = h
      /\ \A k \in 1 .. Len(s) : a[k] = s[k]
  BY <1>1, AppendFacts
<1> HIDE DEF a, r, h
<1>4. /\ a \o r \in Seq(S) /\ Len(a \o r) = Len(a) + Len(r)
      /\ \A k \in 1 .. Len(a) + Len(r) :
           (a \o r)[k] = IF k <= Len(a) THEN a[k] ELSE r[k - Len(a)]
  BY <1>1, <1>3, ConcatProperties DEF r
<1>5. /\ s \o q \in Seq(S) /\ Len(s \o q) = Len(s) + Len(q)
      /\ \A k \in 1 .. Len(s) + Len(q) :
           (s \o q)[k] = IF k <= Len(s) THEN s[k] ELSE q[k - Len(s)]
  BY ConcatProperties
<1>6. Len(a \o r) = Len(s \o q)
  BY <1>1, <1>2, <1>3, <1>4, <1>5 DEF r
<1>7. ASSUME NEW k \in 1 .. Len(a \o r) PROVE (a \o r)[k] = (s \o q)[k]
  <2>1. CASE k <= Len(s)
    BY <2>1, <1>1, <1>2, <1>3, <1>4, <1>5 DEF r
  <2>2. CASE k = Len(s) + 1
    BY <2>2, <1>1, <1>2, <1>3, <1>4, <1>5 DEF r, h
  <2>3. CASE k > Len(s) + 1
    <3>1. (a \o r)[k] = r[k - Len(a)] /\ (s \o q)[k] = q[k - Len(s)]
      BY <2>3, <1>2, <1>3, <1>4, <1>5, <1>6
    <3>2. k - Len(a) \in 1 .. Len(r) /\ k - Len(a) + 1 = k - Len(s)
      BY <2>3, <1>1, <1>2, <1>3, <1>4 DEF r
    <3> QED
      BY <3>1, <3>2, <1>1 DEF r
  <2> QED
    <3>1. k \in Nat /\ Len(s) \in Nat
      BY <1>1, <1>2, <1>3, <1>4 DEF r
    <3>2. k <= Len(s) \/ k = Len(s) + 1 \/ k > Len(s) + 1
      BY <3>1
    <3> QED
      BY <2>1, <2>2, <2>3, <3>2
<1>8. a \o r = s \o q
  BY <1>4, <1>5, <1>6, <1>7, SeqEqual
<1> QED
  BY <1>1, <1>8 DEF a, r

\* An event put on the queue is the last event of the turn.
LEMMA QueueFacts ==
  ASSUME NEW S, NEW s \in Seq(S), NEW q \in Seq(S), NEW e \in S
  PROVE  s \o Append(q, e) = Append(s \o q, e)
<1>1. <<e>> \in Seq(S)
  OBVIOUS
<1>2. Append(q, e) = q \o <<e>> /\ s \o q \in Seq(S)
  BY AppendIsConcat, ConcatProperties
<1>3. Append(s \o q, e) = (s \o q) \o <<e>>
  BY <1>2, AppendIsConcat
<1> QED
  BY <1>1, <1>2, <1>3, ConcatAssociative

\* Where the parts of a sequence are.
LEMMA JoinFacts ==
  ASSUME NEW S, NEW s \in Seq(S), NEW q \in Seq(S)
  PROVE  /\ s \o q \in Seq(S)
         /\ Len(s) \in Nat /\ Len(q) \in Nat
         /\ Len(s \o q) = Len(s) + Len(q)
         /\ DOMAIN (s \o q) = 1 .. Len(s) + Len(q)
         /\ \A k \in 1 .. Len(s) : (s \o q)[k] = s[k]
         /\ \A k \in 1 .. Len(q) : (s \o q)[Len(s) + k] = q[k]
<1> DEFINE m == Len(s)
           n == Len(q)
           j == s \o q
<1>1. m \in Nat /\ n \in Nat
  BY LenProperties
<1>2. /\ j \in Seq(S) /\ Len(j) = m + n
      /\ \A k \in 1 .. m + n : j[k] = IF k <= m THEN s[k] ELSE q[k - m]
  BY ConcatProperties
<1> HIDE DEF m, n, j
<1>3. DOMAIN j = 1 .. m + n
  BY <1>2, LenProperties
<1>4. ASSUME NEW k \in 1 .. n PROVE j[m + k] = q[k]
  <2>1. m + k \in 1 .. m + n /\ ~(m + k <= m) /\ m + k - m = k
    BY <1>1
  <2>2. j[m + k] = q[(m + k) - m]
    BY <1>2, <2>1
  <2> QED
    BY <1>1, <2>1, <2>2
<1>5. ASSUME NEW k \in 1 .. m PROVE j[k] = s[k]
  <2>1. k \in 1 .. m + n /\ k <= m
    BY <1>1
  <2> QED
    BY <1>2, <2>1
<1> QED
  BY <1>1, <1>2, <1>3, <1>4, <1>5 DEF m, n, j

\* The order of the parts does not matter for what is in a sequence.
LEMMA JoinedEitherWay ==
  ASSUME NEW S, NEW s \in Seq(S), NEW q \in Seq(S), NEW k \in DOMAIN (s \o q)
  PROVE  \E l \in DOMAIN (q \o s) : (q \o s)[l] = (s \o q)[k]
<1> DEFINE m == Len(s)
           n == Len(q)
<1>1. /\ m \in Nat /\ n \in Nat /\ DOMAIN (s \o q) = 1 .. m + n
      /\ \A i \in 1 .. m : (s \o q)[i] = s[i]
      /\ \A i \in 1 .. n : (s \o q)[m + i] = q[i]
  BY JoinFacts
<1>2. /\ DOMAIN (q \o s) = 1 .. n + m
      /\ \A i \in 1 .. n : (q \o s)[i] = q[i]
      /\ \A i \in 1 .. m : (q \o s)[n + i] = s[i]
  BY JoinFacts
<1> HIDE DEF m, n
<1>3. CASE k <= m
  <2>1. k \in 1 .. m /\ n + k \in 1 .. n + m
    BY <1>1, <1>3
  <2> QED
    BY <1>1, <1>2, <2>1
<1>4. CASE ~(k <= m)
  <2>1. k - m \in 1 .. n /\ k = m + (k - m) /\ k - m \in 1 .. n + m
    BY <1>1, <1>4
  <2>2. (s \o q)[k] = q[k - m]
    BY <1>1, <2>1
  <2> QED
    BY <1>2, <2>1, <2>2
<1> QED
  BY <1>3, <1>4

---------------------------------------------------------------------------
\* Steps.

\* The steps of users and of the settings, beside those of turns and runs.
Aside ==
  \/ \E r \in Unsettled : Wire(r)
  \/ \E u \in Users : SignIn(u) \/ SignOut(u)
  \/ \E i \in DOMAIN sessions : TokenExpires(i) \/ \E found \in BOOLEAN : Poll(i, found)
  \/ UNCHANGED vars

\* They leave the turns and the runs alone.
LEMMA AsideFacts ==
  Aside => UNCHANGED <<turn, runs>>
<1>1. ASSUME NEW r \in Unsettled, Wire(r) PROVE UNCHANGED <<turn, runs>>
  BY <1>1 DEF Wire
<1>2. ASSUME NEW u \in Users, SignIn(u) \/ SignOut(u) PROVE UNCHANGED <<turn, runs>>
  BY <1>2 DEF SignIn, SignOut
<1>3. ASSUME NEW i \in DOMAIN sessions, TokenExpires(i) \/ \E found \in BOOLEAN : Poll(i, found)
      PROVE  UNCHANGED <<turn, runs>>
  BY <1>3 DEF TokenExpires, Poll
<1> QED
  BY <1>1, <1>2, <1>3 DEF Aside, vars

\* What Update says of a run that is still of its turn and its user.
Advanced(i, run) ==
  /\ runs' = [runs EXCEPT ![i] = run]
  /\ run.turn = runs[i].turn /\ run.user = runs[i].user
  /\ \A r \in run.reached : r[2] \subseteq {run.user} \ {NoUser}
  /\ run.turn # NoTurn => Routed(run)
  /\ UNCHANGED <<scene, turn>>

\* A run goes on.
LEMMA DriveFacts ==
  ASSUME IInv, NEW i \in 1 .. Len(runs), Drive(i)
  PROVE  \E run \in Run : Advanced(i, run)
<1> DEFINE r == runs[i]
<1>1. /\ r \in Run /\ DOMAIN runs = 1 .. Len(runs)
      /\ r.turn # NoTurn => Routed(r)
      /\ \A s \in r.reached : s[2] \subseteq {r.user} \ {NoUser}
  BY DEF IInv, RunsOK, RouteInv, UserInv
<1>2. /\ r.turn \in Turns \cup {NoTurn} /\ r.user \in Users \cup {NoUser}
      /\ r.task \in Tasks /\ r.explicit \in BOOLEAN /\ r.agents \in SUBSET Builders
      /\ r.ref \in References /\ r.status \in Statuses
      /\ r.reached \in SUBSET (Builders \X SUBSET Users)
  BY <1>1 DEF Run
<1> HIDE DEF r
<1>3. ASSUME NEW reason \in {NoRoute, "RUNTIME_NOT_WIRED", "NO_RUN_TO_REVIEW"},
             Fail(i, reason),
             r.turn # NoTurn => reason # NoRoute /\ (~r.explicit => r.ref # Review)
      PROVE  \E run \in Run : Advanced(i, run)
  <2> DEFINE run == [r EXCEPT !.status = reason]
  <2>1. /\ run \in Run /\ run.turn = r.turn /\ run.user = r.user
        /\ run.reached = r.reached /\ run.status = reason /\ run.status # "submitted"
        /\ run.explicit = r.explicit /\ run.ref = r.ref
    BY <1>1, <1>2 DEF Run, Statuses, NoRoute
  <2>2. runs' = [runs EXCEPT ![i] = run] /\ UNCHANGED <<scene, turn>>
    BY <1>3 DEF Fail, Update, r
  <2>3. run.turn # NoTurn => Routed(run)
    BY <1>1, <1>3, <2>1 DEF Routed
  <2> HIDE DEF run
  <2> QED
    BY <1>1, <2>1, <2>2, <2>3 DEF Advanced, r
<1>4. CASE Admit(i)
  <2> DEFINE ref == Route(r.task, r.ref)
             agents == IF r.agents # {} THEN r.agents ELSE Workflows[ref]
             run == [r EXCEPT !.status = "admitted", !.ref = ref, !.agents = agents]
  <2>1. /\ r.status = "submitted"
        /\ IF ref = NoRoute THEN Fail(i, NoRoute) ELSE Update(i, run)
    BY <1>4 DEF Admit, r
  <2>2. ref \in References /\ (r.ref # NoRoute => ref = r.ref)
    BY <1>2, RouteFacts
  <2>3. r.turn # NoTurn => ref # NoRoute /\ (~r.explicit => ref # Review)
    BY <1>1, <1>2, <2>1, <2>2 DEF Routed
  <2>4. CASE ref = NoRoute
    BY <1>3, <2>1, <2>3, <2>4
  <2>5. CASE ref # NoRoute
    <3>1. agents \in SUBSET Builders
      BY <1>2, <2>2, <2>5, WorkflowFacts DEF References
    <3> HIDE DEF ref, agents
    <3>2. /\ run \in Run /\ run.turn = r.turn /\ run.user = r.user
          /\ run.reached = r.reached /\ run.status = "admitted" /\ run.ref = ref
          /\ run.explicit = r.explicit
      BY <1>1, <1>2, <2>2, <3>1 DEF Run, Statuses
    <3>3. runs' = [runs EXCEPT ![i] = run] /\ UNCHANGED <<scene, turn>>
      BY <2>1, <2>5 DEF Update
    <3>4. run.turn # NoTurn => Routed(run)
      BY <2>3, <2>5, <3>2 DEF Routed, NoRoute
    <3> HIDE DEF run
    <3> QED
      BY <1>1, <3>2, <3>3, <3>4 DEF Advanced, r
  <2> QED
    BY <2>4, <2>5
<1>5. CASE Preflight(i)
  <2> DEFINE run == [r EXCEPT !.status = "running"]
  <2>1. /\ r.status = "admitted"
        /\ Update(i, run) \/ Fail(i, "RUNTIME_NOT_WIRED")
    BY <1>5 DEF Preflight, r
  <2>2. CASE Update(i, run)
    <3>1. /\ run \in Run /\ run.turn = r.turn /\ run.user = r.user
          /\ run.reached = r.reached /\ run.status = "running" /\ run.ref = r.ref
          /\ run.explicit = r.explicit
      BY <1>1, <1>2 DEF Run, Statuses
    <3>2. runs' = [runs EXCEPT ![i] = run] /\ UNCHANGED <<scene, turn>>
      BY <2>2 DEF Update
    <3>3. run.turn # NoTurn => Routed(run)
      BY <1>1, <2>1, <3>1 DEF Routed, NoRoute
    <3> HIDE DEF run
    <3> QED
      BY <1>1, <3>1, <3>2, <3>3 DEF Advanced, r
  <2>3. CASE Fail(i, "RUNTIME_NOT_WIRED")
    <3>1. r.turn # NoTurn /\ ~r.explicit => r.ref # Review
      BY <1>1, <2>1 DEF Routed
    <3> QED
      BY <1>3, <2>3, <3>1 DEF NoRoute
  <2> QED
    BY <2>1, <2>2, <2>3
<1>6. CASE NothingToReview(i)
  <2>1. r.status = "admitted" /\ Fail(i, "NO_RUN_TO_REVIEW")
    BY <1>6 DEF NothingToReview, r
  <2>2. r.turn # NoTurn /\ ~r.explicit => r.ref # Review
    BY <1>1, <2>1 DEF Routed
  <2> QED
    BY <1>3, <2>1, <2>2 DEF NoRoute
<1>7. CASE RunRoles(i)
  <2> DEFINE on == r.agents \cap wired
  <2>0. PICK headless \in SUBSET on :
          Update(i, [r EXCEPT !.status = "dispatched",
                              !.reached = headless \X {{r.user} \ {NoUser}}
                                            \cup (on \ headless) \X {{}}])
    BY <1>7 DEF RunRoles, Stamp, r
  <2> DEFINE reached == headless \X {{r.user} \ {NoUser}} \cup (on \ headless) \X {{}}
             run == [r EXCEPT !.status = "dispatched", !.reached = reached]
  <2>1. r.status = "running" /\ Update(i, run)
    BY <1>7, <2>0 DEF RunRoles, r
  <2>2. /\ reached \in SUBSET (Builders \X SUBSET Users)
        /\ \A s \in reached : s[2] \subseteq {r.user} \ {NoUser}
    BY <1>2
  <2> HIDE DEF reached
  <2>3. /\ run \in Run /\ run.turn = r.turn /\ run.user = r.user
        /\ run.reached = reached /\ run.status = "dispatched" /\ run.ref = r.ref
        /\ run.explicit = r.explicit
    BY <1>1, <1>2, <2>2 DEF Run, Statuses
  <2>4. runs' = [runs EXCEPT ![i] = run] /\ UNCHANGED <<scene, turn>>
    BY <2>1 DEF Update
  <2>5. run.turn # NoTurn => Routed(run)
    BY <1>1, <2>1, <2>3 DEF Routed, NoRoute
  <2> HIDE DEF run
  <2> QED
    BY <2>2, <2>3, <2>4, <2>5 DEF Advanced, r
<1> QED
  BY <1>4, <1>5, <1>6, <1>7 DEF Drive

\* What Submitted gives.
Fresh(run, t, who, ref) ==
  /\ run.turn = t /\ run.user = who /\ run.ref = ref
  /\ run.status = "submitted" /\ run.reached = {}

LEMMA SubmittedFacts ==
  ASSUME NEW t \in Turns \cup {NoTurn}, NEW who \in Users \cup {NoUser}, NEW task \in Tasks,
         NEW agents \in SUBSET Builders, NEW ref \in References
  PROVE  /\ Submitted(t, who, task, agents, ref) \in Run
         /\ Fresh(Submitted(t, who, task, agents, ref), t, who, ref)
         /\ Submitted(t, who, task, agents, ref).explicit <=> agents # {}
         /\ Submitted(t, who, task, agents, ref).task = task
  BY DEF Submitted, Run, Statuses, Fresh

\* A tool that may start a run returns: with the run, or without one.
Answered(t, call, run) ==
  /\ flight' = [flight EXCEPT ![t] = (flight[t] \ {call}) \cup {[call |-> call.call, run |-> run]}]
  /\ UNCHANGED <<scene, given, history, behind, stage, calls, queue, seen>>

Started(t, run) ==
  /\ runs' = Append(runs, run)
  /\ run.turn = t /\ run.user = identity[t] /\ run.reached = {}
  /\ Routed(run)

LEMMA StartFacts ==
  ASSUME IInv, NEW t \in Turns, NEW call \in flight[t],
         Dispatch(t, call) \/ RunBuild(t, call)
  PROVE  /\ call \in Asking /\ Asked(t)
         /\ \/ Answered(t, call, 0) /\ runs' = runs
            \/ Answered(t, call, Len(runs) + 1) /\ \E run \in Run : Started(t, run)
<1>1. /\ runs \in Seq(Run) /\ identity[t] \in Users \cup {NoUser} /\ t \in Turns \cup {NoTurn}
      /\ call \in Asking \cup Returned /\ Asked(t)
  BY DEF IInv, RunsOK, TurnsOK, EventsOK, LogInv, LogOK
<1>2. call \in Asking
  <2>1. "tool" \in DOMAIN call
    BY DEF Dispatch, RunBuild
  <2>2. call \notin Returned
    BY <2>1 DEF Returned
  <2> QED
    BY <1>1, <2>2
<1>3. call.tool \in Builders \cup {"run_build"} /\ call.task \in Tasks
  BY <1>2 DEF Asking
<1>4. ASSUME NEW run \in Run, runs' = Append(runs, run), Return(t, call, Len(runs'))
      PROVE  Answered(t, call, Len(runs) + 1)
  <2>1. Len(runs') = Len(runs) + 1
    BY <1>1, <1>4
  <2> QED
    BY <1>4, <2>1 DEF Return, Answered
<1>5. CASE Dispatch(t, call)
  <2> DEFINE ref == RoleWorkflow[call.tool]
             run == Submitted(t, identity[t], call.task, {call.tool}, ref)
  <2>1. /\ call.tool \in Builders
        /\ runs' = Append(runs, run) /\ Return(t, call, Len(runs'))
    BY <1>5 DEF Dispatch
  <2>2. ref \in DOMAIN Workflows
    BY <2>1, RoleWorkflowFacts
  <2>3. ref \in References /\ ref # NoRoute
    BY <2>2, WorkflowFacts DEF References
  <2> HIDE DEF ref
  <2>4. {call.tool} \in SUBSET Builders /\ {call.tool} # {}
    BY <2>1
  <2>5. /\ run \in Run /\ Fresh(run, t, identity[t], ref)
        /\ run.explicit
    BY <1>1, <1>3, <2>3, <2>4, SubmittedFacts
  <2> HIDE DEF run
  <2>6. Routed(run)
    BY <2>3, <2>5 DEF Routed, Fresh, NoRoute
  <2> QED
    BY <1>1, <1>2, <1>4, <2>1, <2>5, <2>6 DEF Fresh, Started
<1>6. CASE RunBuild(t, call)
  <2> DEFINE ref == Route(call.task, NoRoute)
             run == Submitted(t, identity[t], call.task, {}, NoRoute)
  <2>1. CASE ref = NoRoute \/ ReadOnly(ref)
    BY <1>1, <1>2, <1>6, <2>1 DEF RunBuild, Return, Answered
  <2>2. CASE ~(ref = NoRoute \/ ReadOnly(ref))
    <3>1. runs' = Append(runs, run) /\ Return(t, call, Len(runs'))
      BY <1>6, <2>2 DEF RunBuild
    <3>2. /\ run \in Run /\ Fresh(run, t, identity[t], NoRoute)
          /\ ~run.explicit /\ run.task = call.task
      <4>1. {} \in SUBSET Builders /\ NoRoute \in References
        BY DEF References
      <4> QED
        BY <1>1, <1>3, <4>1, SubmittedFacts
    <3> HIDE DEF run
    <3>3. Routed(run)
      BY <2>2, <3>2 DEF Routed, Fresh, ReadOnly, NoRoute
    <3> QED
      BY <1>1, <1>2, <1>4, <3>1, <3>2, <3>3 DEF Fresh, Started
  <2> QED
    BY <2>1, <2>2
<1> QED
  BY <1>5, <1>6

\* A run that is submitted without the chat.
LEMMA DirectFacts ==
  ASSUME IInv, NEW task \in Tasks, NEW choice \in {<<{}, NoRoute>>, <<{Backend}, Fullstack>>},
         SubmitDirect(task, choice[1], choice[2])
  PROVE  /\ UNCHANGED <<scene, turn>>
         /\ \E run \in Run : /\ runs' = Append(runs, run)
                             /\ run.turn = NoTurn /\ run.user = NoUser /\ run.reached = {}
<1> DEFINE run == Submitted(NoTurn, NoUser, task, choice[1], choice[2])
<1>1. choice[1] \in SUBSET Builders /\ choice[2] \in References
  BY WorkflowFacts DEF References, Builders
<1>2. run \in Run /\ Fresh(run, NoTurn, NoUser, choice[2])
  BY <1>1, SubmittedFacts
<1>3. runs' = Append(runs, run) /\ UNCHANGED <<scene, turn>>
  BY DEF SubmitDirect
<1> HIDE DEF run
<1> QED
  BY <1>2, <1>3 DEF Fresh

---------------------------------------------------------------------------
\* Sessions.

\* A session stays whose it is, and one that has ended stays so.
Kept ==
  /\ SessionsOK'
  /\ Len(sessions) <= Len(sessions')
  /\ \A i \in 1 .. Len(sessions) :
       /\ sessions'[i].user = sessions[i].user
       /\ sessions[i].state = "gone" => sessions'[i].state = "gone"

NoneEnds ==
  \A i \in 1 .. Len(sessions) : sessions'[i].state = "gone" => sessions[i].state = "gone"

LEMMA SessionChange ==
  ASSUME SessionsOK, NEW i \in 1 .. Len(sessions), NEW s \in {"fresh", "stale", "gone"},
         sessions[i].state = "gone" => s = "gone",
         sessions' = [sessions EXCEPT ![i].state = s],
         cookie' \in [Users -> 0 .. Len(sessions)]
  PROVE  /\ Kept
         /\ sessions'[i].state = s
         /\ \A j \in 1 .. Len(sessions) : j # i => sessions'[j] = sessions[j]
<1>1. sessions \in Seq(Session) /\ sessions[i] \in Session
  BY DEF SessionsOK
<1> DEFINE new == [sessions[i] EXCEPT !.state = s]
<1>2. new \in Session /\ new.user = sessions[i].user /\ new.state = s
  BY <1>1 DEF Session
<1>3. sessions' = [sessions EXCEPT ![i] = new]
  OBVIOUS
<1> HIDE DEF new
<1>4. /\ sessions' \in Seq(Session) /\ Len(sessions') = Len(sessions)
      /\ \A j \in 1 .. Len(sessions) : sessions'[j] = IF j = i THEN new ELSE sessions[j]
  BY <1>1, <1>2, <1>3, ExceptSeq
<1>5. Len(sessions) \in Nat
  BY <1>1
<1> QED
  BY <1>2, <1>4, <1>5 DEF Kept, SessionsOK

LEMMA GetSessionFacts ==
  ASSUME SessionsOK, NEW i \in 1 .. Len(sessions), NEW found \in BOOLEAN,
         GetSession(i, found)
  PROVE  /\ Kept
         /\ found => sessions[i].state # "gone"
         /\ sessions'[i].state = "gone" <=> ~found
<1> DEFINE s == IF found THEN "fresh" ELSE "gone"
<1>1. /\ s \in {"fresh", "stale", "gone"}
      /\ sessions[i].state = "gone" => s = "gone"
      /\ sessions' = [sessions EXCEPT ![i].state = s]
      /\ cookie' = cookie
  BY DEF GetSession
<1>2. s = "gone" <=> ~found
  OBVIOUS
<1>3. found => sessions[i].state # "gone"
  BY DEF GetSession
<1> HIDE DEF s
<1>4. cookie' \in [Users -> 0 .. Len(sessions)]
  BY <1>1 DEF SessionsOK
<1> QED
  BY <1>1, <1>2, <1>3, <1>4, SessionChange

\* What becomes of the sessions in any look-up.
LEMMA IdentifiedFacts ==
  ASSUME SessionsOK, NEW i \in 0 .. Len(sessions), NEW found \in BOOLEAN,
         Identified(i, found)
  PROVE  /\ Kept
         /\ i = NoCookie => ~found
         /\ i # NoCookie => /\ found => sessions[i].state # "gone"
                            /\ sessions'[i].state = "gone" <=> ~found
<1>1. CASE i = NoCookie
  <2>1. Len(sessions) \in Nat /\ sessions' = sessions /\ cookie' = cookie /\ ~found
    BY <1>1 DEF Identified, idvars, SessionsOK
  <2> QED
    BY <1>1, <2>1 DEF Kept, SessionsOK
<1>2. CASE i # NoCookie
  <2>1. i \in 1 .. Len(sessions)
    BY <1>2 DEF NoCookie
  <2>2. GetSession(i, found)
    BY <1>2 DEF Identified
  <2> QED
    BY <1>2, <2>1, <2>2, GetSessionFacts
<1> QED
  BY <1>1, <1>2

LEMMA CookieFacts ==
  ASSUME SessionsOK, NEW i \in Cookies
  PROVE  i \in 0 .. Len(sessions)
<1>1. Len(sessions) \in Nat
  BY DEF SessionsOK
<1> QED
  BY <1>1 DEF SessionsOK, Cookies, NoCookie

\* A session is looked up, or ends, in the sight of the turns being read; any
\* other step ends none.
Watched == Lapse \/ (lapsed' = lapsed /\ NoneEnds)

LEMMA AsideSessions ==
  ASSUME SessionsOK, Aside
  PROVE  Kept /\ Watched
<1>1. sessions \in Seq(Session) /\ Len(sessions) \in Nat /\ cookie \in [Users -> 0 .. Len(sessions)]
      /\ DOMAIN sessions = 1 .. Len(sessions)
  BY DEF SessionsOK
<1>2. ASSUME UNCHANGED <<idvars, lapsed>> PROVE Kept /\ Watched
  BY <1>1, <1>2 DEF Kept, Watched, NoneEnds, SessionsOK, idvars
<1>3. ASSUME NEW r \in Unsettled, Wire(r) PROVE Kept /\ Watched
  BY <1>2, <1>3 DEF Wire
<1>4. ASSUME NEW u \in Users, SignIn(u) PROVE Kept /\ Watched
  <2> DEFINE new == [user |-> u, state |-> "fresh"]
  <2>1. new \in Session
    BY DEF Session
  <2>2. sessions' = Append(sessions, new) /\ lapsed' = lapsed
    BY <1>4 DEF SignIn, LogIn
  <2> HIDE DEF new
  <2>3. /\ sessions' \in Seq(Session) /\ Len(sessions') = Len(sessions) + 1
        /\ \A i \in 1 .. Len(sessions) : sessions'[i] = sessions[i]
    BY <1>1, <2>1, <2>2, AppendFacts
  <2>4. cookie' = [cookie EXCEPT ![u] = Len(sessions')]
    BY <1>4 DEF SignIn, LogIn
  <2>5. cookie' \in [Users -> 0 .. Len(sessions')]
    BY <1>1, <2>3, <2>4
  <2> QED
    BY <1>1, <2>2, <2>3, <2>5 DEF Kept, Watched, NoneEnds, SessionsOK
<1>5. ASSUME NEW u \in Users, SignOut(u) PROVE Kept /\ Watched
  <2>1. cookie[u] \in 1 .. Len(sessions)
    BY <1>1, <1>5 DEF SignOut, LogOut, NoCookie
  <2>2. /\ sessions' = [sessions EXCEPT ![cookie[u]].state = "gone"]
        /\ cookie' = [cookie EXCEPT ![u] = 0]
        /\ Lapse
    BY <1>5 DEF SignOut, LogOut, NoCookie
  <2>3. cookie' \in [Users -> 0 .. Len(sessions)]
    BY <1>1, <2>2
  <2> QED
    BY <2>1, <2>2, <2>3, SessionChange DEF Watched
<1>6. ASSUME NEW i \in DOMAIN sessions, TokenExpires(i) PROVE Kept /\ Watched
  <2>1. /\ i \in 1 .. Len(sessions) /\ sessions[i].state = "fresh"
        /\ sessions' = [sessions EXCEPT ![i].state = "stale"]
        /\ cookie' \in [Users -> 0 .. Len(sessions)] /\ lapsed' = lapsed
    BY <1>1, <1>6 DEF TokenExpires, Expires
  <2>2. /\ Kept /\ sessions'[i].state = "stale"
        /\ \A j \in 1 .. Len(sessions) : j # i => sessions'[j] = sessions[j]
    BY <2>1, SessionChange
  <2> QED
    BY <2>1, <2>2 DEF Watched, NoneEnds
<1>7. ASSUME NEW i \in DOMAIN sessions, NEW found \in BOOLEAN, Poll(i, found)
      PROVE  Kept /\ Watched
  BY <1>1, <1>7, GetSessionFacts DEF Poll, Watched
<1> QED
  BY <1>2, <1>3, <1>4, <1>5, <1>6, <1>7 DEF Aside, vars, scene

---------------------------------------------------------------------------
\* Whose a turn is.

SenderOK(t) ==
  /\ stage[t] = "reading" /\ request[t][2] # NoCookie =>
       (t \in lapsed <=> sessions[request[t][2]].state = "gone")
  /\ t \in lapsed => stage[t] # "new" /\ request[t][2] # NoCookie
  /\ Asked(t) => identity[t] = IF t \in lapsed THEN NoUser ELSE Sender(t)

\* A turn that stays where it is, or is over for its browser.
Still(t) ==
  /\ stage'[t] = stage[t] \/ (Asked(t) /\ Asked(t)')
  /\ request'[t] = request[t] /\ identity'[t] = identity[t]

LEMMA SenderStill ==
  ASSUME IInv, NEW t \in Turns, Kept, Watched, Still(t)
  PROVE  SenderOK(t)'
<1> DEFINE i == request[t][2]
<1>1. SenderOK(t)
  BY DEF IInv, SenderInv, SenderOK
<1>2. stage[t] # "new" => i \in 0 .. Len(sessions)
  BY DEF IInv, TurnsOK
<1>3. i # NoCookie /\ stage[t] # "new" =>
        /\ sessions'[i].user = sessions[i].user
        /\ sessions[i].state = "gone" => sessions'[i].state = "gone"
  BY <1>2 DEF Kept, NoCookie
<1>4. stage[t] # "new" => Sender(t)' = Sender(t)
  BY <1>3 DEF Still, Sender, Owner
<1>5. CASE Lapse
  <2>1. t \in lapsed' <=> \/ t \in lapsed
                          \/ /\ stage[t] = "reading" /\ i # NoCookie
                             /\ sessions[i].state # "gone" /\ sessions'[i].state = "gone"
    BY <1>5 DEF Lapse
  <2>2. stage'[t] = stage[t] => SenderOK(t)'
    BY <1>1, <1>3, <1>4, <2>1 DEF SenderOK, Still, Asked
  <2>3. Asked(t) /\ Asked(t)' => SenderOK(t)'
    BY <1>1, <1>3, <1>4, <2>1 DEF SenderOK, Still, Asked
  <2> QED
    BY <2>2, <2>3 DEF Still
<1>6. CASE lapsed' = lapsed /\ NoneEnds
  <2>1. i # NoCookie /\ stage[t] # "new" =>
          (sessions'[i].state = "gone" <=> sessions[i].state = "gone")
    BY <1>2, <1>3, <1>6 DEF NoneEnds, NoCookie
  <2>2. stage'[t] = stage[t] => SenderOK(t)'
    BY <1>1, <1>4, <1>6, <2>1 DEF SenderOK, Still, Asked
  <2>3. Asked(t) /\ Asked(t)' => SenderOK(t)'
    BY <1>1, <1>4, <1>6, <2>1 DEF SenderOK, Still, Asked
  <2> QED
    BY <2>2, <2>3 DEF Still
<1> QED
  BY <1>5, <1>6 DEF Watched

\* A turn that is read comes with a session that is there.
LEMMA SenderKnocks ==
  ASSUME IInv, NEW t \in Turns, NEW c \in Convs, NEW i \in Cookies, Knock(t, c, i)
  PROVE  Kept /\ Lapse /\ SenderOK(t)'
<1>1. i \in 0 .. Len(sessions)
  BY CookieFacts DEF IInv
<1>2. Identified(i, i # NoCookie) /\ Lapse
  BY DEF Knock, Authed
<1>3. Kept /\ (i # NoCookie => sessions'[i].state # "gone")
  BY <1>1, <1>2, IdentifiedFacts DEF IInv
<1>4. /\ stage[t] = "new" /\ stage'[t] = "reading" /\ request'[t] = <<c, i>>
  BY DEF Knock, IInv, TurnsOK
<1>5. t \notin lapsed
  BY <1>4 DEF IInv, SenderInv
<1>6. t \notin lapsed'
  BY <1>2, <1>4, <1>5 DEF Lapse
<1> QED
  BY <1>2, <1>3, <1>4, <1>6 DEF SenderOK, Asked

\* Whom a turn is attributed to once it has been read.
LEMMA SenderFound ==
  ASSUME IInv, NEW t \in Turns, NEW found \in BOOLEAN, Identify(t, found),
         request'[t] = request[t], stage'[t] # "reading", stage'[t] # "new"
  PROVE  Kept /\ Lapse /\ SenderOK(t)'
<1> DEFINE i == request[t][2]
<1>1. stage[t] = "reading" /\ Identified(i, found) /\ Lapse
  BY DEF Identify
<1>2. i \in 0 .. Len(sessions)
  BY <1>1 DEF IInv, TurnsOK
<1>3. /\ Kept
      /\ i = NoCookie => ~found
      /\ i # NoCookie => /\ found => sessions[i].state # "gone"
                         /\ sessions'[i].state = "gone" <=> ~found
  BY <1>1, <1>2, IdentifiedFacts DEF IInv
<1>4. identity'[t] = IF found THEN Sender(t) ELSE NoUser
  BY DEF Identify, IInv, TurnsOK
<1>5. SenderOK(t)
  BY DEF IInv, SenderInv, SenderOK
<1>6. t \in lapsed' <=> i # NoCookie /\ ~found
  BY <1>1, <1>3, <1>5 DEF SenderOK, Lapse
<1>7. Sender(t)' = Sender(t) /\ (i = NoCookie => Sender(t) = NoUser)
  BY <1>2, <1>3 DEF Sender, Owner, Kept, NoCookie
<1> QED
  BY <1>1, <1>3, <1>4, <1>6, <1>7 DEF SenderOK

---------------------------------------------------------------------------
\* The steps, one by one.

LEMMA Steps ==
  ASSUME [Next]_vars
  PROVE  \/ \E t \in Turns, c \in Convs, i \in Cookies : Knock(t, c, i)
         \/ \E t \in Turns, found \in BOOLEAN : Refuse(t, found)
         \/ \E t \in Turns, found \in BOOLEAN : Ask(t, found)
         \/ \E t \in Turns : Leave(t)
         \/ \E t \in Turns, tool \in Builders \cup {"run_build"}, task \in Tasks :
              CallTool(t, tool, task)
         \/ \E t \in Turns : \E call \in flight[t] : Dispatch(t, call) \/ RunBuild(t, call)
         \/ \E t \in Turns : \E call \in flight[t] : AfterTool(t, call)
         \/ \E t \in Turns : EndOfTurn(t)
         \/ \E t \in Turns : Drain(t)
         \/ \E t \in Turns, n \in Lengths : Finish(t, n)
         \/ \E task \in Tasks, choice \in {<<{}, NoRoute>>, <<{Backend}, Fullstack>>} :
              SubmitDirect(task, choice[1], choice[2])
         \/ \E i \in 1 .. Len(runs) : Drive(i)
         \/ Aside
<1>1. CASE \E t \in Turns : Browser(t)
  BY <1>1 DEF Browser
<1>2. CASE \E t \in Turns : Agent(t)
  BY <1>2 DEF Agent
<1>3. CASE \E t \in Turns : Tools(t)
  BY <1>3 DEF Tools
<1> QED
  BY <1>1, <1>2, <1>3 DEF Next, Aside

\* What a turn is given, and whose it is, stays while its agent is at work.
LEMMA SenderStep ==
  IInv /\ [Next]_vars => Kept /\ SenderInv'
<1> SUFFICES ASSUME IInv, [Next]_vars PROVE Kept /\ \A s \in Turns : SenderOK(s)'
  BY DEF SenderInv, SenderOK
<1> USE DEF Still
<1>1. ASSUME UNCHANGED <<scene, given>>,
             \A s \in Turns : stage'[s] = stage[s] \/ (Asked(s) /\ Asked(s)')
      PROVE  Kept /\ \A s \in Turns : SenderOK(s)'
  <2>1. Kept /\ Watched
    BY <1>1 DEF IInv, SessionsOK, Kept, Watched, NoneEnds, scene, idvars
  <2> QED
    BY <1>1, <2>1, SenderStill DEF given
<1>2. CASE \E t \in Turns, c \in Convs, i \in Cookies : Knock(t, c, i)
  <2>1. PICK t \in Turns, c \in Convs, i \in Cookies : Knock(t, c, i)
    BY <1>2
  <2>2. Kept /\ Lapse /\ SenderOK(t)'
    BY <2>1, SenderKnocks
  <2>3. ASSUME NEW s \in Turns, s # t PROVE Still(s)
    BY <2>1, <2>3 DEF Knock, IInv, TurnsOK
  <2> QED
    BY <2>2, <2>3, SenderStill DEF Watched
<1>3. ASSUME NEW t \in Turns, NEW found \in BOOLEAN, Refuse(t, found) \/ Ask(t, found)
      PROVE  Kept /\ \A s \in Turns : SenderOK(s)'
  <2>1. /\ Identify(t, found) /\ request' = request
        /\ stage'[t] # "reading" /\ stage'[t] # "new"
    BY <1>3 DEF Refuse, Ask, IInv, TurnsOK
  <2>2. Kept /\ Lapse /\ SenderOK(t)'
    BY <2>1, SenderFound
  <2>3. ASSUME NEW s \in Turns, s # t PROVE Still(s)
    BY <1>3, <2>1, <2>3 DEF Refuse, Ask, Identify, IInv, TurnsOK
  <2> QED
    BY <2>2, <2>3, SenderStill DEF Watched
<1>4. ASSUME NEW t \in Turns, NEW n, Leave(t) \/ Finish(t, n)
      PROVE  Kept /\ \A s \in Turns : SenderOK(s)'
  BY <1>1, <1>4 DEF Leave, Finish, Asked, IInv, TurnsOK
<1>5. ASSUME NEW t \in Turns, NEW tool, NEW task, CallTool(t, tool, task)
      PROVE  Kept /\ \A s \in Turns : SenderOK(s)'
  BY <1>1, <1>5 DEF CallTool
<1>6. ASSUME NEW t \in Turns, NEW call \in flight[t], Dispatch(t, call) \/ RunBuild(t, call)
      PROVE  Kept /\ \A s \in Turns : SenderOK(s)'
  BY <1>1, <1>6, StartFacts DEF Answered
<1>7. ASSUME NEW t \in Turns, NEW call, AfterTool(t, call)
      PROVE  Kept /\ \A s \in Turns : SenderOK(s)'
  BY <1>1, <1>7 DEF AfterTool
<1>8. ASSUME NEW t \in Turns, EndOfTurn(t) \/ Drain(t)
      PROVE  Kept /\ \A s \in Turns : SenderOK(s)'
  BY <1>1, <1>8 DEF EndOfTurn, Drain
<1>9. CASE \E task \in Tasks, choice \in {<<{}, NoRoute>>, <<{Backend}, Fullstack>>} :
             SubmitDirect(task, choice[1], choice[2])
  BY <1>1, <1>9 DEF SubmitDirect, turn
<1>10. ASSUME NEW i \in 1 .. Len(runs), Drive(i)
       PROVE  Kept /\ \A s \in Turns : SenderOK(s)'
  BY <1>1, <1>10, DriveFacts DEF Advanced, turn
<1>11. CASE Aside
  BY <1>11, AsideFacts, AsideSessions, SenderStill DEF turn, given, IInv
<1> QED
  BY <1>2, <1>3, <1>4, <1>5, <1>6, <1>7, <1>8, <1>9, <1>10, <1>11, Steps

\* The last of a sequence.
LEMMA TrimFacts ==
  ASSUME NEW s \in Seq(Turns)
  PROVE  /\ Trim(s) \in Seq(Turns)
         /\ \A t \in Turns, n \in Nat : n < Retained /\ Near(s, t, n) => Near(Trim(s), t, n)
<1>1. Retained \in Nat /\ Len(s) \in Nat
  BY AssistantAssumption
<1> DEFINE m == Min({Retained, Len(s)})
<1>2. m \in {Retained, Len(s)} /\ m <= Retained /\ m <= Len(s)
  <2>1. \E x \in {Retained, Len(s)} : \A y \in {Retained, Len(s)} : x <= y
    <3>1. Retained <= Len(s) \/ Len(s) <= Retained
      BY <1>1
    <3> QED
      BY <1>1, <3>1
  <2> QED
    BY <2>1 DEF Min
<1> HIDE DEF m
<1> DEFINE first == Len(s) - m + 1
<1>3. Trim(s) = SubSeq(s, first, Len(s))
  BY DEF Trim, m
<1>4. first \in 1 .. Len(s) + 1
  BY <1>1, <1>2
<1>5. /\ Trim(s) \in Seq(Turns)
      /\ Len(Trim(s)) = IF first <= Len(s) THEN Len(s) - first + 1 ELSE 0
      /\ \A k \in 1 .. Len(s) - first + 1 : Trim(s)[k] = s[first + k - 1]
  <2>1. \A k \in first .. Len(s) : s[k] \in Turns
    BY <1>4
  <2> HIDE DEF first
  <2> QED
    BY <1>1, <1>3, <1>4, <2>1, SubSeqProperties
<1>6. Len(Trim(s)) = m
  BY <1>1, <1>2, <1>5
<1>7. ASSUME NEW t, NEW n \in Nat, n < Retained, Near(s, t, n)
      PROVE  Near(Trim(s), t, n)
  <2>1. PICK k \in 1 .. Len(s) : s[k] = t /\ Len(s) - k <= n
    BY <1>7 DEF Near
  <2> DEFINE j == k - Len(s) + m
  <2>2. j \in 1 .. m /\ first + j - 1 = k /\ m - j <= n
    BY <1>1, <1>2, <1>7, <2>1
  <2>3. j \in 1 .. Len(s) - first + 1
    BY <1>1, <1>2, <2>2
  <2> HIDE DEF j, first
  <2>4. Trim(s)[j] = t /\ DOMAIN Trim(s) = 1 .. m
    BY <1>5, <1>6, <2>1, <2>2, <2>3
  <2> QED
    BY <1>6, <2>2, <2>4 DEF Near
<1> QED
  BY <1>5, <1>7

\* The messages of a turn behind a history: its last is the last, and the
\* others are as many further from it.
LEMMA MessagesFacts ==
  ASSUME NEW s \in Seq(Turns), NEW v \in Turns, NEW m \in Lengths
  PROVE  /\ m \in Nat /\ s \o Messages(v, m) \in Seq(Turns)
         /\ Near(s \o Messages(v, m), v, 0)
         /\ \A t \in Turns, n \in Nat : Near(s, t, n) => Near(s \o Messages(v, m), t, n + m)
<1>1. m \in Nat \ {0}
  BY AssistantAssumption
<1> DEFINE q == Messages(v, m)
           j == s \o q
<1>2. q \in Seq(Turns) /\ Len(q) = m /\ \A k \in 1 .. m : q[k] = v
  BY <1>1 DEF Messages
<1> HIDE DEF q
<1>0. PICK a \in Nat : a = Len(s)
  BY LenProperties
<1>3. /\ j \in Seq(Turns) /\ Len(s) = a /\ Len(j) = a + m
      /\ DOMAIN j = 1 .. a + m /\ DOMAIN s = 1 .. a
      /\ \A k \in 1 .. a : j[k] = s[k]
      /\ \A k \in 1 .. m : j[a + k] = q[k]
  <2>1. /\ s \o q \in Seq(Turns)
        /\ Len(s) \in Nat /\ Len(q) \in Nat
        /\ Len(s \o q) = Len(s) + Len(q)
        /\ DOMAIN (s \o q) = 1 .. Len(s) + Len(q)
        /\ \A k \in 1 .. Len(s) : (s \o q)[k] = s[k]
        /\ \A k \in 1 .. Len(q) : (s \o q)[Len(s) + k] = q[k]
    <3>1. q \in Seq(Turns)
      BY <1>2
    <3> HIDE DEF j
    <3> QED
      BY <3>1, JoinFacts
  <2>2. a = Len(s) /\ Len(q) = m
    BY <1>0, <1>2
  <2>3. DOMAIN s = 1 .. a
    BY <2>2, LenProperties
  <2>4. j = s \o q
    OBVIOUS
  <2> HIDE DEF j
  <2> QED
    BY <2>1, <2>2, <2>3, <2>4, Zenon
<1> HIDE DEF j
<1>4. Near(j, v, 0)
  <2>1. a + m \in 1 .. a + m /\ m \in 1 .. m /\ (a + m) - (a + m) <= 0
    BY <1>1
  <2>2. j[a + m] = v
    BY <1>2, <1>3, <2>1
  <2> QED
    BY <1>3, <2>1, <2>2 DEF Near
<1>5. ASSUME NEW t \in Turns, NEW n \in Nat, Near(s, t, n)
      PROVE  Near(j, t, n + m)
  <2>1. PICK k \in 1 .. a : s[k] = t /\ a - k <= n
    BY <1>3, <1>5 DEF Near
  <2>2. k \in 1 .. a + m /\ (a + m) - k <= n + m
    BY <1>1, <2>1
  <2>3. j[k] = t
    BY <1>3, <2>1
  <2> QED
    BY <1>3, <2>2, <2>3 DEF Near
<1> QED
  BY <1>1, <1>3, <1>4, <1>5 DEF j, q

LEMMA NearMore ==
  ASSUME NEW s \in Seq(Turns), NEW t \in Turns, NEW m \in Nat, NEW n \in Nat,
         Near(s, t, m), m <= n
  PROVE  Near(s, t, n)
<1>1. PICK k \in 1 .. Len(s) : s[k] = t /\ Len(s) - k <= m
  BY LenProperties DEF Near
<1>2. Len(s) - k <= n /\ DOMAIN s = 1 .. Len(s)
  BY <1>1, LenProperties
<1> QED
  BY <1>1, <1>2 DEF Near

---------------------------------------------------------------------------
\* Types.

\* The turns are numbered from 1.
LEMMA TurnNumbers ==
  \A t \in Turns : t \in Nat \ {0}
<1>1. Cardinality(Turns) \in Nat /\ Turns = 1 .. Cardinality(Turns)
  BY AssistantAssumption, FS_CardinalityType
<1> QED
  BY <1>1

LEMMA TurnsStep ==
  IInv /\ [Next]_vars => TurnsOK'
<1> SUFFICES ASSUME IInv, [Next]_vars PROVE TurnsOK'
  OBVIOUS
<1>1. /\ Len(sessions) \in Nat /\ Len(sessions') \in Nat /\ Len(sessions) <= Len(sessions')
      /\ sessions' \in Seq(Session)
  BY SenderStep DEF Kept, SessionsOK, IInv
<1>2. \A r : r \in Convs \X (0 .. Len(sessions)) => r \in Convs \X (0 .. Len(sessions'))
  BY <1>1
<1> USE DEF IInv, TurnsOK
<1>3. CASE UNCHANGED <<turn, lapsed>>
  BY <1>2, <1>3 DEF turn, given
<1>4. ASSUME UNCHANGED <<given, history, behind, lapsed>>,
             stage' \in [Turns -> {"new", "reading", "refused", "streaming", "left", "over"}],
             \A t \in Turns : stage[t] = "new" => stage'[t] = "new"
      PROVE  TurnsOK'
  BY <1>2, <1>4 DEF given
<1>5. ASSUME NEW t \in Turns, NEW c \in Convs, NEW i \in Cookies, Knock(t, c, i)
      PROVE  TurnsOK'
  <2>1. <<c, i>> \in Convs \X (0 .. Len(sessions'))
    BY <1>2, CookieFacts
  <2>2. request' \in [Turns -> {<<>>} \cup (Convs \X (0 .. Len(sessions')))]
    BY <1>2, <1>5, <2>1 DEF Knock
  <2>3. lapsed' \subseteq Turns
    BY <1>5 DEF Knock, Lapse
  <2>4. \A s \in Turns : stage'[s] # "new" => request'[s] \in Convs \X (0 .. Len(sessions'))
    BY <1>2, <1>5, <2>1 DEF Knock
  <2> QED
    BY <1>5, <2>2, <2>3, <2>4 DEF Knock
<1>6. ASSUME NEW t \in Turns, NEW found \in BOOLEAN, Identify(t, found), request' = request,
             stage' \in [Turns -> {"new", "reading", "refused", "streaming", "left", "over"}],
             \A s \in Turns : stage[s] = "new" => stage'[s] = "new"
      PROVE  /\ lapsed' \subseteq Turns
             /\ identity' \in [Turns -> Users \cup {NoUser}]
             /\ request' \in [Turns -> {<<>>} \cup (Convs \X (0 .. Len(sessions')))]
             /\ \A s \in Turns : stage'[s] # "new" =>
                  request'[s] \in Convs \X (0 .. Len(sessions'))
  <2>1. request[t] \in Convs \X (0 .. Len(sessions))
    BY <1>6 DEF Identify
  <2>2. Sender(t) \in Users \cup {NoUser}
    <3> DEFINE i == request[t][2]
    <3>1. i \in 0 .. Len(sessions)
      BY <2>1
    <3> HIDE DEF i
    <3>2. i # 0 => sessions[i] \in Session
      BY <3>1 DEF SessionsOK
    <3>3. i # 0 => sessions[i].user \in Users
      BY <3>2 DEF Session
    <3> QED
      BY <3>3 DEF Sender, Owner, NoCookie, i
  <2>3. lapsed' \subseteq Turns
    BY <1>6 DEF Identify, Lapse
  <2>4. identity' \in [Turns -> Users \cup {NoUser}]
    BY <1>6, <2>2 DEF Identify
  <2> QED
    BY <1>2, <1>6, <2>3, <2>4
<1>7. ASSUME NEW t \in Turns, NEW found \in BOOLEAN, Refuse(t, found) PROVE TurnsOK'
  BY <1>6, <1>7 DEF Refuse, Identify
<1>8. ASSUME NEW t \in Turns, NEW found \in BOOLEAN, Ask(t, found) PROVE TurnsOK'
  <2>1. Conv(t) \in Convs
    BY <1>8 DEF Ask, Identify, Conv
  <2>2. base' \in [Turns -> Seq(Turns)] /\ heard' \in [Turns -> SUBSET Turns]
    BY <1>8, <2>1 DEF Ask
  <2>3. alone' \subseteq Turns
    BY <1>8 DEF Ask
  <2>4. /\ Identify(t, found) /\ UNCHANGED <<request, history, behind>>
        /\ stage' = [stage EXCEPT ![t] = "streaming"] /\ stage[t] = "reading"
    BY <1>8 DEF Ask, Identify
  <2> QED
    BY <1>6, <2>2, <2>3, <2>4
<1>9. ASSUME NEW t \in Turns, Leave(t) PROVE TurnsOK'
  BY <1>4, <1>9 DEF Leave, scene
<1>10. ASSUME NEW t \in Turns, NEW n \in Lengths, Finish(t, n) PROVE TurnsOK'
  <2>1. base[t] \o Messages(t, n) \in Seq(Turns) /\ n \in Nat
    BY MessagesFacts
  <2>2. Trim(base[t] \o Messages(t, n)) \in Seq(Turns)
    BY <2>1, TrimFacts
  <2>3. history' \in [Convs -> Seq(Turns)]
    BY <1>10, <2>2 DEF Finish
  <2>4. behind' \in [Turns -> Nat]
    BY <1>10, <2>1 DEF Finish
  <2> QED
    BY <1>2, <1>10, <2>3, <2>4 DEF Finish, scene, given
<1>11. ASSUME NEW t \in Turns, NEW tool, NEW task, CallTool(t, tool, task) PROVE TurnsOK'
  BY <1>4, <1>11 DEF CallTool, scene
<1>12. ASSUME NEW t \in Turns, NEW call \in flight[t], Dispatch(t, call) \/ RunBuild(t, call)
       PROVE  TurnsOK'
  BY <1>4, <1>12, StartFacts DEF Answered, scene
<1>13. ASSUME NEW t \in Turns, NEW call, AfterTool(t, call) PROVE TurnsOK'
  BY <1>4, <1>13 DEF AfterTool, scene
<1>14. ASSUME NEW t \in Turns, EndOfTurn(t) \/ Drain(t) PROVE TurnsOK'
  BY <1>4, <1>14 DEF EndOfTurn, Drain, scene
<1>15. CASE \E task \in Tasks, choice \in {<<{}, NoRoute>>, <<{Backend}, Fullstack>>} :
              SubmitDirect(task, choice[1], choice[2])
  BY <1>3, <1>15 DEF SubmitDirect, scene
<1>16. ASSUME NEW i \in 1 .. Len(runs), Drive(i) PROVE TurnsOK'
  BY <1>3, <1>16, DriveFacts DEF Advanced, scene
<1>17. CASE Aside
  <2>1. lapsed' \subseteq Turns
    BY <1>17, AsideSessions DEF Watched, Lapse
  <2> QED
    BY <1>2, <1>17, <2>1, AsideFacts DEF turn, given
<1> QED
  BY <1>5, <1>7, <1>8, <1>9, <1>10, <1>11, <1>12, <1>13, <1>14, <1>15, <1>16, <1>17, Steps

\* The runs, and whose they are and where they go.
LEMMA RunsStep ==
  IInv /\ [Next]_vars => RunsOK' /\ UserInv' /\ RouteInv'
<1> SUFFICES ASSUME IInv, [Next]_vars PROVE RunsOK' /\ UserInv' /\ RouteInv'
  OBVIOUS
<1>1. /\ runs \in Seq(Run) /\ Len(runs) \in Nat /\ DOMAIN runs = 1 .. Len(runs)
      /\ \A i \in 1 .. Len(runs) : runs[i] \in Run /\ runs[i].turn \in Turns \cup {NoTurn}
  <2>1. /\ runs \in Seq(Run) /\ Len(runs) \in Nat /\ DOMAIN runs = 1 .. Len(runs)
        /\ \A i \in 1 .. Len(runs) : runs[i] \in Run
    BY DEF IInv, RunsOK
  <2> QED
    BY <2>1 DEF Run
<1> DEFINE Ours(run) ==
      /\ IF run.turn = NoTurn
         THEN run.user = NoUser
         ELSE /\ stage'[run.turn] \in {"streaming", "left", "over"}
              /\ run.user = identity'[run.turn]
      /\ \A r \in run.reached : r[2] \subseteq {run.user} \ {NoUser}
      /\ run.turn # NoTurn => Routed(run)
<1>2. ASSUME \A t \in Turns : Asked(t) => Asked(t)' /\ identity'[t] = identity[t],
             NEW i \in 1 .. Len(runs)
      PROVE  Ours(runs[i])
  <2>1. /\ IF runs[i].turn = NoTurn
           THEN runs[i].user = NoUser
           ELSE Asked(runs[i].turn) /\ runs[i].user = identity[runs[i].turn]
        /\ \A r \in runs[i].reached : r[2] \subseteq {runs[i].user} \ {NoUser}
        /\ runs[i].turn # NoTurn => Routed(runs[i])
    BY <1>1 DEF IInv, UserInv, RouteInv
  <2>2. runs[i].turn \in Turns \cup {NoTurn}
    BY <1>1
  <2>3. runs[i].turn # NoTurn =>
          /\ stage'[runs[i].turn] \in {"streaming", "left", "over"}
          /\ identity'[runs[i].turn] = identity[runs[i].turn]
    BY <1>2, <2>1, <2>2 DEF Asked
  <2> QED
    BY <2>1, <2>3
<1>3. ASSUME runs' \in Seq(Run), \A i \in 1 .. Len(runs') : Ours(runs'[i])
      PROVE  RunsOK' /\ UserInv' /\ RouteInv'
  <2>1. DOMAIN runs' = 1 .. Len(runs')
    BY <1>3
  <2> QED
    BY <1>3, <2>1 DEF RunsOK, UserInv, RouteInv, Ours, Asked
<1> HIDE DEF Ours
<1>4. ASSUME runs' = runs, \A t \in Turns : Asked(t) => Asked(t)' /\ identity'[t] = identity[t]
      PROVE  RunsOK' /\ UserInv' /\ RouteInv'
  BY <1>1, <1>2, <1>3, <1>4
<1>5. ASSUME UNCHANGED <<identity, stage>>, NEW run \in Run, Ours(run),
             runs' = Append(runs, run)
      PROVE  RunsOK' /\ UserInv' /\ RouteInv'
  <2>1. \A t \in Turns : Asked(t) => Asked(t)' /\ identity'[t] = identity[t]
    BY <1>5 DEF Asked
  <2>2. /\ runs' \in Seq(Run) /\ Len(runs') = Len(runs) + 1 /\ runs'[Len(runs) + 1] = run
        /\ \A i \in 1 .. Len(runs) : runs'[i] = runs[i]
    BY <1>1, <1>5, AppendFacts
  <2>3. \A i \in 1 .. Len(runs') : Ours(runs'[i])
    BY <1>1, <1>2, <1>5, <2>1, <2>2
  <2> QED
    BY <1>3, <2>2, <2>3
<1> USE DEF IInv, TurnsOK
<1>6. ASSUME NEW t \in Turns, NEW c, NEW i, Knock(t, c, i) PROVE RunsOK' /\ UserInv' /\ RouteInv'
  BY <1>4, <1>6 DEF Knock, Asked
<1>7. ASSUME NEW t \in Turns, NEW found \in BOOLEAN, Refuse(t, found) \/ Ask(t, found)
      PROVE  RunsOK' /\ UserInv' /\ RouteInv'
  BY <1>4, <1>7 DEF Refuse, Ask, Identify, Asked
<1>8. ASSUME NEW t \in Turns, NEW n, Leave(t) \/ Finish(t, n) PROVE RunsOK' /\ UserInv' /\ RouteInv'
  BY <1>4, <1>8 DEF Leave, Finish, Asked, given
<1>9. ASSUME NEW t \in Turns, NEW tool, NEW task, CallTool(t, tool, task)
      PROVE  RunsOK' /\ UserInv' /\ RouteInv'
  BY <1>4, <1>9 DEF CallTool, Asked, given
<1>10. ASSUME NEW t \in Turns, NEW call \in flight[t], Dispatch(t, call) \/ RunBuild(t, call)
       PROVE  RunsOK' /\ UserInv' /\ RouteInv'
  <2>1. /\ Asked(t) /\ UNCHANGED <<identity, stage>>
        /\ runs' = runs \/ \E run \in Run : Started(t, run)
    BY <1>10, StartFacts DEF Answered, given
  <2>2. ASSUME NEW run \in Run, Started(t, run) PROVE Ours(run)
    <3>1. t # NoTurn
      BY TurnNumbers DEF NoTurn
    <3> QED
      BY <2>1, <2>2, <3>1 DEF Ours, Started, Asked
  <2>3. CASE runs' = runs
    BY <1>4, <2>1, <2>3 DEF Asked
  <2>4. CASE \E run \in Run : Started(t, run)
    BY <1>5, <2>1, <2>2, <2>4 DEF Started
  <2> QED
    BY <2>1, <2>3, <2>4
<1>11. ASSUME NEW t \in Turns, NEW call, AfterTool(t, call) PROVE RunsOK' /\ UserInv' /\ RouteInv'
  BY <1>4, <1>11 DEF AfterTool, Asked, given
<1>12. ASSUME NEW t \in Turns, EndOfTurn(t) \/ Drain(t) PROVE RunsOK' /\ UserInv' /\ RouteInv'
  BY <1>4, <1>12 DEF EndOfTurn, Drain, Asked, given
<1>13. ASSUME NEW task \in Tasks, NEW choice \in {<<{}, NoRoute>>, <<{Backend}, Fullstack>>},
              SubmitDirect(task, choice[1], choice[2])
       PROVE  RunsOK' /\ UserInv' /\ RouteInv'
  <2>1. UNCHANGED <<scene, turn>> /\ \E run \in Run : /\ runs' = Append(runs, run)
                                     /\ run.turn = NoTurn /\ run.user = NoUser /\ run.reached = {}
    BY <1>13, DirectFacts
  <2> QED
    BY <1>5, <2>1 DEF Ours, turn, given
<1>14. ASSUME NEW i \in 1 .. Len(runs), Drive(i) PROVE RunsOK' /\ UserInv' /\ RouteInv'
  <2>1. PICK run \in Run : Advanced(i, run)
    BY <1>14, DriveFacts
  <2>2. UNCHANGED <<stage, identity>> /\ runs' = [runs EXCEPT ![i] = run]
    BY <2>1 DEF Advanced, turn, given
  <2>3. /\ runs' \in Seq(Run) /\ Len(runs') = Len(runs)
        /\ \A j \in 1 .. Len(runs) : runs'[j] = IF j = i THEN run ELSE runs[j]
    BY <1>1, <2>2, ExceptSeq
  <2>4. \A j \in 1 .. Len(runs) : Ours(runs[j])
    <3>1. \A t \in Turns : Asked(t) => Asked(t)' /\ identity'[t] = identity[t]
      BY <2>2 DEF Asked
    <3> QED
      BY <1>2, <3>1
  <2>5. Ours(run)
    BY <2>1, <2>4 DEF Ours, Advanced
  <2> QED
    BY <1>3, <2>3, <2>4, <2>5
<1>15. CASE Aside
  BY <1>4, <1>15, AsideFacts DEF turn, given, Asked
<1> QED
  BY <1>6, <1>7, <1>8, <1>9, <1>10, <1>11, <1>12, <1>13, <1>14, <1>15, Steps

---------------------------------------------------------------------------
\* Events.

\* What a turn has told and will tell, by itself.
LEMMA LogFacts ==
  ASSUME IInv, NEW t \in Turns
  PROVE  /\ seen[t] \in Seq(Events) /\ queue[t] \in Seq(Events) /\ Log(t) \in Seq(Events)
         /\ Len(seen[t]) \in Nat /\ Len(queue[t]) \in Nat
         /\ Len(Log(t)) = Len(seen[t]) + Len(queue[t])
         /\ DOMAIN Log(t) = 1 .. Len(Log(t))
         /\ \A k \in 1 .. Len(seen[t]) : Log(t)[k] = seen[t][k]
         /\ \A k \in 1 .. Len(queue[t]) : Log(t)[Len(seen[t]) + k] = queue[t][k]
         /\ \A k \in DOMAIN seen[t] : k \in DOMAIN Log(t) /\ Log(t)[k] = seen[t][k]
         /\ queue[t] # <<>> =>
              /\ Len(seen[t]) + 1 \in DOMAIN Log(t)
              /\ Log(t)[Len(seen[t]) + 1] = Head(queue[t])
              /\ Len(seen[t]) + 1 = Len(Log(t)) => Tail(queue[t]) = <<>>
<1> DEFINE s == seen[t]
           q == queue[t]
<1>1. s \in Seq(Events) /\ q \in Seq(Events)
  BY DEF IInv, EventsOK
<1> HIDE DEF s, q
<1>2. /\ s \o q \in Seq(Events)
      /\ Len(s) \in Nat /\ Len(q) \in Nat
      /\ Len(s \o q) = Len(s) + Len(q)
      /\ DOMAIN (s \o q) = 1 .. Len(s) + Len(q)
      /\ \A k \in 1 .. Len(s) : (s \o q)[k] = s[k]
      /\ \A k \in 1 .. Len(q) : (s \o q)[Len(s) + k] = q[k]
  BY <1>1, JoinFacts
<1>3. ASSUME NEW k \in DOMAIN s PROVE k \in DOMAIN (s \o q) /\ (s \o q)[k] = s[k]
  <2> DEFINE m == Len(s)
             n == Len(q)
  <2>1. m \in Nat /\ n \in Nat /\ k \in 1 .. m /\ DOMAIN (s \o q) = 1 .. m + n
    BY <1>1, <1>2, LenProperties
  <2> HIDE DEF m, n
  <2>2. k \in 1 .. m + n
    BY <2>1
  <2> QED
    BY <1>2, <2>1, <2>2 DEF m
<1>4. ASSUME q # <<>>
      PROVE  /\ Len(s) + 1 \in DOMAIN (s \o q)
             /\ (s \o q)[Len(s) + 1] = Head(q)
             /\ Len(s) + 1 = Len(s \o q) => Tail(q) = <<>>
  <2>1. Len(q) \in Nat \ {0} /\ Head(q) = q[1]
    BY <1>1, <1>4, EmptySeq
  <2>2. Tail(q) \in Seq(Events) /\ Len(Tail(q)) = Len(q) - 1
    BY <1>1, <1>4, HeadTailProperties
  <2>3. Len(q) = 1 => Tail(q) = <<>>
    BY <2>2, EmptySeq
  <2> DEFINE m == Len(s)
             n == Len(q)
  <2>4. m \in Nat /\ n \in Nat \ {0} /\ DOMAIN (s \o q) = 1 .. m + n /\ Len(s \o q) = m + n
    BY <1>2, <2>1
  <2> HIDE DEF m, n
  <2>5. m + 1 \in 1 .. m + n /\ 1 \in 1 .. n /\ (m + 1 = m + n => n = 1)
    BY <2>4
  <2>6. (s \o q)[m + 1] = q[1]
    BY <1>2, <2>5 DEF m, n
  <2> QED
    BY <2>1, <2>3, <2>4, <2>5, <2>6 DEF m, n
<1> QED
  BY <1>1, <1>2, <1>3, <1>4 DEF s, q, Log

\* While the agent works there is no end among the events.
LEMMA WorkingFacts ==
  ASSUME IInv, NEW t \in Turns, Working(t)
  PROVE  /\ Asked(t) /\ stage[t] # "over"
         /\ \A k \in DOMAIN Log(t) : Log(t)[k] # End
<1> DEFINE s == seen[t]
           q == queue[t]
<1>1. s \in Seq(Events) /\ q \in Seq(Events)
  BY DEF IInv, EventsOK
<1>2. \A l \in DOMAIN (q \o s) : (q \o s)[l] # End
  BY DEF Working, ToSet
<1> HIDE DEF s, q
<1>3. ASSUME NEW k \in DOMAIN (s \o q) PROVE (s \o q)[k] # End
  <2>1. \E l \in DOMAIN (q \o s) : (q \o s)[l] = (s \o q)[k]
    BY <1>1, JoinedEitherWay
  <2> QED
    BY <1>2, <2>1
<1> QED
  BY <1>3 DEF s, q, Log, Working, Asked

\* A turn that a step leaves alone.
LEMMA LogStill ==
  ASSUME NEW t \in Turns, LogOK(t), Of(t)' = Of(t),
         seen'[t] = seen[t], queue'[t] = queue[t], flight'[t] = flight[t],
         Asked(t) => Asked(t)', stage'[t] = "over" => stage[t] = "over"
  PROVE  LogOK(t)'
<1>1. Log(t)' = Log(t)
  BY DEF Log
<1>2. \A i \in Nat \ {0} : Told(t, i)' = Told(t, i) /\ Carrying(t, i)' = Carrying(t, i)
  BY <1>1 DEF Told, Carrying
<1>3. \A i \in Nat \ {0} : Heralded(t, i) => Heralded(t, i)'
  BY <1>2 DEF Heralded
<1> QED
  BY <1>1, <1>2, <1>3 DEF LogOK

\* Where the events stay, and the calls that carry runs.
LEMMA LogKept ==
  ASSUME NEW t \in Turns, LogOK(t), Of(t)' = Of(t), Asked(t)',
         Log(t)' = Log(t),
         \A i \in Nat \ {0} : Carrying(t, i)' = Carrying(t, i),
         (\E k \in DOMAIN Log(t) : Log(t)[k] = End) => flight'[t] = {},
         stage'[t] = "over" => queue'[t] = <<>> /\ \E k \in DOMAIN seen'[t] : seen'[t][k] = End
  PROVE  LogOK(t)'
<1>1. \A i \in Nat \ {0} : Told(t, i)' = Told(t, i)
  BY DEF Told
<1>2. \A i \in Nat \ {0} : Heralded(t, i) => Heralded(t, i)'
  BY <1>1 DEF Heralded
<1> QED
  BY <1>1, <1>2 DEF LogOK

\* A run that is appended is of its turn only; one that goes on stays its own.
LEMMA OfAppended ==
  ASSUME IInv, NEW run \in Run, runs' = Append(runs, run), NEW t \in Turns
  PROVE  Of(t)' = Of(t) \cup (IF run.turn = t THEN {Len(runs) + 1} ELSE {})
<1>1. /\ Len(runs) \in Nat /\ DOMAIN runs = 1 .. Len(runs)
      /\ DOMAIN runs' = 1 .. Len(runs) + 1 /\ runs'[Len(runs) + 1] = run
      /\ \A i \in 1 .. Len(runs) : runs'[i] = runs[i]
  BY AppendFacts DEF IInv, RunsOK
<1> DEFINE n == Len(runs)
<1> HIDE DEF n
<1>2. 1 .. n + 1 = 1 .. n \cup {n + 1}
  BY <1>1 DEF n
<1> QED
  BY <1>1, <1>2 DEF Of, n

LEMMA OfAdvanced ==
  ASSUME IInv, NEW i \in 1 .. Len(runs), NEW run \in Run, Advanced(i, run), NEW t \in Turns
  PROVE  Of(t)' = Of(t)
<1>1. /\ runs \in Seq(Run) /\ runs' = [runs EXCEPT ![i] = run] /\ run.turn = runs[i].turn
  BY DEF Advanced, IInv, RunsOK
<1>2. /\ DOMAIN runs' = DOMAIN runs
      /\ \A j \in DOMAIN runs : runs'[j].turn = runs[j].turn
  BY <1>1
<1> QED
  BY <1>2 DEF Of

\* An event more, at the end.
LEMMA LogAppended ==
  ASSUME IInv, NEW t \in Turns, NEW e \in Events,
         seen' = seen, queue' = [queue EXCEPT ![t] = Append(queue[t], e)]
  PROVE  /\ Log(t)' = Append(Log(t), e)
         /\ Len(Log(t)) \in Nat /\ DOMAIN Log(t) = 1 .. Len(Log(t))
         /\ Len(Log(t))' = Len(Log(t)) + 1
         /\ DOMAIN Log(t)' = 1 .. Len(Log(t)) + 1
         /\ \A k \in 1 .. Len(Log(t)) : Log(t)'[k] = Log(t)[k]
         /\ Log(t)'[Len(Log(t)) + 1] = e
         /\ \A i \in Nat \ {0} :
              Told(t, i)' = Told(t, i) \cup (IF e = <<"run", i>> THEN {Len(Log(t)) + 1} ELSE {})
<1>1. seen[t] \in Seq(Events) /\ queue[t] \in Seq(Events)
  BY DEF IInv, EventsOK
<1>2. queue'[t] = Append(queue[t], e) /\ seen'[t] = seen[t]
  BY DEF IInv, EventsOK
<1>3. Log(t)' = Append(Log(t), e)
  <2> DEFINE s == seen[t]
             q == queue[t]
  <2>1. s \in Seq(Events) /\ q \in Seq(Events)
    BY <1>1
  <2> HIDE DEF s, q
  <2>2. s \o Append(q, e) = Append(s \o q, e)
    BY <2>1, QueueFacts
  <2> QED
    BY <1>2, <2>2 DEF Log, s, q
<1> DEFINE l == Log(t)
<1>4. l \in Seq(Events)
  BY LogFacts
<1> HIDE DEF l
<1>5. /\ Len(l) \in Nat /\ DOMAIN l = 1 .. Len(l)
      /\ Len(Append(l, e)) = Len(l) + 1 /\ DOMAIN Append(l, e) = 1 .. Len(l) + 1
      /\ Append(l, e)[Len(l) + 1] = e
      /\ \A k \in 1 .. Len(l) : Append(l, e)[k] = l[k]
  BY <1>4, AppendFacts, LenProperties
<1>6. ASSUME NEW i \in Nat \ {0}
      PROVE  {k \in DOMAIN Append(l, e) : Append(l, e)[k] = <<"run", i>>}
               = {k \in DOMAIN l : l[k] = <<"run", i>>}
                   \cup (IF e = <<"run", i>> THEN {Len(l) + 1} ELSE {})
  <2>1. 1 .. Len(l) + 1 = 1 .. Len(l) \cup {Len(l) + 1}
    BY <1>5
  <2> QED
    BY <1>5, <2>1
<1> QED
  BY <1>3, <1>5, <1>6 DEF l, Told

\* A run is carried by a call that returned with it.
LEMMA CarryFacts ==
  ASSUME IInv, NEW t \in Turns
  PROVE  /\ flight[t] \subseteq Asking \cup Returned
         /\ \A call \in Asking : "run" \notin DOMAIN call
         /\ \A call \in flight[t] : "run" \in DOMAIN call => call \in Returned /\ call.run \in Nat
<1>1. flight[t] \subseteq Asking \cup Returned
  BY DEF IInv, EventsOK
<1>2. \A call \in Asking : "run" \notin DOMAIN call
  BY DEF Asking
<1>3. \A call \in Returned : call.run \in Nat
  BY DEF Returned
<1> QED
  BY <1>1, <1>2, <1>3

\* The end is no run, and a run is known by its number.
LEMMA EventFacts ==
  /\ End \in Events
  /\ \A i \in Nat \ {0} : <<"run", i>> \in Events /\ <<"run", i>> # End
  /\ \A i, j \in Nat \ {0} : <<"run", i>> = <<"run", j>> => i = j
  BY DEF Events, End

\* The types of the events.
LEMMA EventsStep ==
  IInv /\ [Next]_vars => EventsOK'
<1> SUFFICES ASSUME IInv, [Next]_vars PROVE EventsOK'
  OBVIOUS
<1> USE DEF EventsOK
<1>1. EventsOK
  BY DEF IInv
<1>2. ASSUME UNCHANGED <<flight, queue, seen>> PROVE EventsOK'
  BY <1>1, <1>2
<1>3. ASSUME NEW t \in Turns, NEW e \in Events,
             queue' = [queue EXCEPT ![t] = Append(queue[t], e)]
      PROVE  queue' \in [Turns -> Seq(Events)]
  <2>1. Append(queue[t], e) \in Seq(Events)
    BY <1>1, AppendFacts
  <2> QED
    BY <1>1, <1>3, <2>1
<1>4. ASSUME NEW t \in Turns, NEW n, Drain(t) \/ Finish(t, n) PROVE EventsOK'
  <2>1. queue[t] # <<>> /\ seen[t] \in Seq(Events) /\ queue[t] \in Seq(Events)
    BY <1>1, <1>4 DEF Drain, Finish
  <2>2. Head(queue[t]) \in Events /\ Tail(queue[t]) \in Seq(Events)
    BY <2>1, HeadTailProperties
  <2>3. /\ seen' = [seen EXCEPT ![t] = Append(seen[t], Head(queue[t]))]
        /\ queue' = [queue EXCEPT ![t] = Tail(queue[t])] /\ flight' = flight
    BY <1>1, <1>4 DEF Drain, Finish
  <2>4. Append(seen[t], Head(queue[t])) \in Seq(Events)
    BY <2>1, <2>2, AppendFacts
  <2> QED
    BY <1>1, <2>2, <2>3, <2>4
<1>5. ASSUME NEW t \in Turns, NEW c, NEW i, Knock(t, c, i) PROVE EventsOK'
  BY <1>2, <1>5 DEF Knock
<1>6. ASSUME NEW t \in Turns, NEW found, Refuse(t, found) \/ Ask(t, found) PROVE EventsOK'
  BY <1>2, <1>6 DEF Refuse, Ask
<1>7. ASSUME NEW t \in Turns, Leave(t) PROVE EventsOK'
  BY <1>2, <1>7 DEF Leave
<1>8. ASSUME NEW t \in Turns, NEW tool \in Builders \cup {"run_build"}, NEW task \in Tasks,
             CallTool(t, tool, task)
      PROVE  EventsOK'
  <2> DEFINE call == [call |-> calls[t], tool |-> tool, task |-> task]
  <2>1. call \in Asking
    BY <1>8 DEF Asking, IInv, CallsOK
  <2>2. flight' = [flight EXCEPT ![t] = flight[t] \cup {call}] /\ UNCHANGED <<queue, seen>>
    BY <1>1, <1>8 DEF CallTool
  <2> HIDE DEF call
  <2> QED
    BY <1>1, <2>1, <2>2
<1>9. ASSUME NEW t \in Turns, NEW call \in flight[t], Dispatch(t, call) \/ RunBuild(t, call)
      PROVE  EventsOK'
  <2>1. call \in Asking /\ Len(runs) \in Nat
    BY <1>9, StartFacts DEF IInv, RunsOK
  <2>2. PICK n \in Nat : Answered(t, call, n)
    BY <1>9, <2>1, StartFacts
  <2> DEFINE new == [call |-> call.call, run |-> n]
  <2>3. new \in Returned
    BY <2>1 DEF Asking, Returned
  <2>4. flight' = [flight EXCEPT ![t] = (flight[t] \ {call}) \cup {new}] /\ UNCHANGED <<queue, seen>>
    BY <2>2 DEF Answered
  <2> HIDE DEF new
  <2> QED
    BY <1>1, <2>3, <2>4
<1>10. ASSUME NEW t \in Turns, NEW call \in flight[t], AfterTool(t, call) PROVE EventsOK'
  <2>1. call.run \in Nat
    BY <1>10, CarryFacts DEF AfterTool
  <2>2. queue' \in [Turns -> Seq(Events)]
    <3>1. CASE call.run = 0
      BY <1>1, <1>10, <3>1 DEF AfterTool
    <3>2. CASE call.run # 0
      <4>1. <<"run", call.run>> \in Events
        BY <2>1, <3>2 DEF Events
      <4>2. queue' = [queue EXCEPT ![t] = Append(queue[t], <<"run", call.run>>)]
        BY <1>1, <1>10, <3>2 DEF AfterTool
      <4> QED
        BY <1>3, <4>1, <4>2
    <3> QED
      BY <3>1, <3>2
  <2>3. flight' \in [Turns -> SUBSET (Asking \cup Returned)] /\ seen' = seen
    BY <1>1, <1>10 DEF AfterTool
  <2> QED
    BY <1>1, <2>2, <2>3
<1>11. ASSUME NEW t \in Turns, EndOfTurn(t) PROVE EventsOK'
  <2>1. queue' \in [Turns -> Seq(Events)]
    BY <1>1, <1>3, <1>11, EventFacts DEF EndOfTurn
  <2> QED
    BY <1>1, <1>11, <2>1 DEF EndOfTurn
<1>12. CASE \E task \in Tasks, choice \in {<<{}, NoRoute>>, <<{Backend}, Fullstack>>} :
              SubmitDirect(task, choice[1], choice[2])
  BY <1>2, <1>12 DEF SubmitDirect, turn
<1>13. ASSUME NEW i \in 1 .. Len(runs), Drive(i) PROVE EventsOK'
  BY <1>2, <1>13, DriveFacts DEF Advanced, turn
<1>14. CASE Aside
  BY <1>2, <1>14, AsideFacts DEF turn
<1> QED
  BY <1>4, <1>5, <1>6, <1>7, <1>8, <1>9, <1>10, <1>11, <1>12, <1>13, <1>14, Steps

\* The numbers of the calls.
LEMMA CallsStep ==
  IInv /\ [Next]_vars => CallsOK'
<1> SUFFICES ASSUME IInv, [Next]_vars PROVE CallsOK'
  OBVIOUS
<1>1. calls \in [Turns -> Nat]
  BY DEF IInv, CallsOK
<1>2. calls' = calls \/ \E t \in Turns : calls' = [calls EXCEPT ![t] = calls[t] + 1]
  <2>1. ASSUME NEW t \in Turns, NEW c, NEW i, Knock(t, c, i) PROVE calls' = calls
    BY <2>1 DEF Knock
  <2>2. ASSUME NEW t \in Turns, NEW found, Refuse(t, found) \/ Ask(t, found) PROVE calls' = calls
    BY <2>2 DEF Refuse, Ask
  <2>3. ASSUME NEW t \in Turns, NEW tool, NEW task, CallTool(t, tool, task)
        PROVE  calls' = [calls EXCEPT ![t] = calls[t] + 1]
    BY <2>3 DEF CallTool
  <2>4. ASSUME NEW t \in Turns, NEW call \in flight[t], Dispatch(t, call) \/ RunBuild(t, call)
        PROVE  calls' = calls
    BY <2>4, StartFacts DEF Answered
  <2>5. ASSUME NEW t \in Turns, NEW call, AfterTool(t, call) PROVE calls' = calls
    BY <2>5 DEF AfterTool
  <2>6. ASSUME NEW t \in Turns, NEW n, Leave(t) \/ EndOfTurn(t) \/ Drain(t) \/ Finish(t, n)
        PROVE  calls' = calls
    BY <2>6 DEF Leave, EndOfTurn, Drain, Finish
  <2>7. CASE \E task \in Tasks, choice \in {<<{}, NoRoute>>, <<{Backend}, Fullstack>>} :
               SubmitDirect(task, choice[1], choice[2])
    BY <2>7 DEF SubmitDirect, turn
  <2>8. ASSUME NEW i \in 1 .. Len(runs), Drive(i) PROVE calls' = calls
    BY <2>8, DriveFacts DEF Advanced, turn
  <2>9. CASE Aside
    BY <2>9, AsideFacts DEF turn
  <2> QED
    BY <2>1, <2>2, <2>3, <2>4, <2>5, <2>6, <2>7, <2>8, <2>9, Steps
<1>3. CASE calls' = calls
  BY <1>1, <1>3 DEF CallsOK
<1>4. CASE \E t \in Turns : calls' = [calls EXCEPT ![t] = calls[t] + 1]
  BY <1>1, <1>4 DEF CallsOK
<1> QED
  BY <1>2, <1>3, <1>4

\* A step tells of the runs it starts once, and of each of them.
LEMMA LogStep ==
  IInv /\ [Next]_vars => LogInv'
<1> SUFFICES ASSUME IInv, [Next]_vars PROVE \A s \in Turns : LogOK(s)'
  BY DEF LogInv
<1>1. \A s \in Turns : LogOK(s)
  BY DEF IInv, LogInv
<1>2. ASSUME runs' = runs PROVE \A s \in Turns : Of(s)' = Of(s)
  BY <1>2 DEF Of
<1>3. ASSUME UNCHANGED <<seen, queue, flight>>,
             \A s \in Turns : /\ Of(s)' = Of(s)
                              /\ Asked(s) => Asked(s)'
                              /\ stage'[s] = "over" => stage[s] = "over"
      PROVE  \A s \in Turns : LogOK(s)'
  BY <1>1, <1>3, LogStill
<1>4. ASSUME NEW t \in Turns, UNCHANGED stage,
             \A s \in Turns : s # t => /\ seen'[s] = seen[s] /\ queue'[s] = queue[s]
                                       /\ flight'[s] = flight[s] /\ Of(s)' = Of(s),
             LogOK(t)'
      PROVE  \A s \in Turns : LogOK(s)'
  BY <1>1, <1>4, LogStill DEF Asked
<1> HIDE DEF IInv
<1>5. ASSUME NEW t \in Turns, NEW c, NEW i, Knock(t, c, i)
      PROVE  \A s \in Turns : LogOK(s)'
  BY <1>2, <1>3, <1>5 DEF Knock, Asked, IInv, TurnsOK
<1>6. ASSUME NEW t \in Turns, NEW found, Refuse(t, found) \/ Ask(t, found)
      PROVE  \A s \in Turns : LogOK(s)'
  BY <1>2, <1>3, <1>6 DEF Refuse, Ask, Identify, Asked, IInv, TurnsOK
<1>7. ASSUME NEW t \in Turns, Leave(t) PROVE \A s \in Turns : LogOK(s)'
  BY <1>2, <1>3, <1>7 DEF Leave, Asked, IInv, TurnsOK
<1>8. ASSUME NEW t \in Turns, NEW tool \in Builders \cup {"run_build"}, NEW task \in Tasks,
             CallTool(t, tool, task)
      PROVE  \A s \in Turns : LogOK(s)'
  <2> DEFINE call == [call |-> calls[t], tool |-> tool, task |-> task]
  <2>1. Working(t) /\ flight' = [flight EXCEPT ![t] = flight[t] \cup {call}]
        /\ UNCHANGED <<stage, queue, seen, runs>>
    BY <1>8 DEF CallTool, IInv, EventsOK
  <2>2. "run" \notin DOMAIN call
    OBVIOUS
  <2> HIDE DEF call
  <2>3. flight'[t] = flight[t] \cup {call}
    BY <2>1 DEF IInv, EventsOK
  <2>4. \A i \in Nat \ {0} : Carrying(t, i)' = Carrying(t, i)
    BY <2>2, <2>3 DEF Carrying
  <2>5. Log(t)' = Log(t) /\ Asked(t)' /\ stage'[t] # "over" /\ \A s \in Turns : Of(s)' = Of(s)
    BY <1>2, <2>1, WorkingFacts DEF Log, Asked
  <2>6. \A k \in DOMAIN Log(t) : Log(t)[k] # End
    BY <2>1, WorkingFacts
  <2>7. LogOK(t)'
    BY <1>1, <2>4, <2>5, <2>6, LogKept
  <2> QED
    BY <1>4, <2>1, <2>5, <2>7 DEF IInv, EventsOK
<1>9. ASSUME NEW t \in Turns, NEW call \in flight[t], Dispatch(t, call) \/ RunBuild(t, call)
      PROVE  \A s \in Turns : LogOK(s)'
  <2>1. call \in Asking /\ Asked(t) /\ Len(runs) \in Nat /\ flight[t] # {}
    BY <1>9, StartFacts DEF IInv, RunsOK
  <2>2. stage[t] # "over" /\ \A k \in DOMAIN Log(t) : Log(t)[k] # End
    <3>1. \A k \in DOMAIN Log(t) : Log(t)[k] # End
      BY <1>1, <2>1 DEF LogOK
    <3>2. stage[t] = "over" => \E k \in DOMAIN Log(t) : Log(t)[k] = End
      BY <1>1, LogFacts DEF LogOK
    <3> QED
      BY <3>1, <3>2
  <2>3. ASSUME NEW n \in Nat, Answered(t, call, n)
        PROVE  /\ UNCHANGED <<stage, queue, seen>> /\ Log(t)' = Log(t) /\ Asked(t)'
               /\ \A s \in Turns : s # t => flight'[s] = flight[s]
               /\ \A i \in Nat \ {0} :
                    Carrying(t, i)' = Carrying(t, i)
                      \cup (IF i = n THEN {[call |-> call.call, run |-> n]} ELSE {})
    <3> DEFINE new == [call |-> call.call, run |-> n]
    <3>1. "run" \in DOMAIN new /\ new.run = n /\ "run" \notin DOMAIN call
      BY <2>1, CarryFacts
    <3>2. UNCHANGED <<stage, queue, seen>> /\ flight' = [flight EXCEPT ![t] = (flight[t] \ {call}) \cup {new}]
      BY <2>3 DEF Answered
    <3> HIDE DEF new
    <3>3. flight'[t] = (flight[t] \ {call}) \cup {new} /\ \A s \in Turns : s # t => flight'[s] = flight[s]
      BY <3>2 DEF IInv, EventsOK
    <3>4. ASSUME NEW i \in Nat \ {0}
          PROVE  Carrying(t, i)' = Carrying(t, i) \cup (IF i = n THEN {new} ELSE {})
      BY <3>1, <3>3 DEF Carrying
    <3>5. Log(t)' = Log(t) /\ Asked(t)'
      BY <2>1, <3>2 DEF Log, Asked
    <3> QED
      BY <3>2, <3>3, <3>4, <3>5 DEF new
  <2>4. CASE Answered(t, call, 0) /\ runs' = runs
    <3>1. \A i \in Nat \ {0} : Carrying(t, i)' = Carrying(t, i)
      BY <2>3, <2>4
    <3>2. LogOK(t)'
      BY <1>1, <1>2, <2>2, <2>3, <2>4, <3>1, LogKept
    <3> QED
      BY <1>2, <1>4, <2>3, <2>4, <3>2
  <2>5. ASSUME Answered(t, call, Len(runs) + 1), NEW run \in Run, Started(t, run)
        PROVE  \A s \in Turns : LogOK(s)'
    <3>0. PICK n \in Nat : n = Len(runs) + 1
      BY <2>1
    <3> DEFINE new == [call |-> call.call, run |-> n]
    <3>1. n \in Nat \ {0} /\ \A i \in DOMAIN runs : i # n
      BY <2>1, <3>0 DEF IInv, RunsOK
    <3>2. n \notin Of(t)
      BY <3>1 DEF Of
    <3>3. \A s \in Turns : Of(s)' = Of(s) \cup (IF s = t THEN {n} ELSE {})
      BY <2>5, <3>0, OfAppended DEF Started
    <3>4. /\ UNCHANGED <<stage, queue, seen>> /\ Log(t)' = Log(t) /\ Asked(t)'
          /\ \A s \in Turns : s # t => flight'[s] = flight[s]
          /\ \A i \in Nat \ {0} : Carrying(t, i)' = Carrying(t, i) \cup (IF i = n THEN {new} ELSE {})
      BY <2>3, <2>5, <3>0, <3>1
    <3> HIDE DEF new
    <3>5. \A i \in Nat \ {0} : Told(t, i)' = Told(t, i)
      BY <3>4 DEF Told
    <3>6. Heralded(t, n)'
      <4>1. Told(t, n) = {} /\ Carrying(t, n) = {}
        BY <1>1, <3>1, <3>2 DEF LogOK
      <4>2. Told(t, n)' = {}
        BY <3>1, <3>5, <4>1
      <4>3. Carrying(t, n)' = {new}
        BY <3>1, <3>4, <4>1
      <4> QED
        BY <4>2, <4>3 DEF Heralded
    <3>7. ASSUME NEW i \in Nat \ {0}, i # n
          PROVE  IF i \in Of(t)' THEN Heralded(t, i)' ELSE Told(t, i)' = {} /\ Carrying(t, i)' = {}
      <4>1. Told(t, i)' = Told(t, i) /\ Carrying(t, i)' = Carrying(t, i)
        BY <3>4, <3>5, <3>7
      <4>2. i \in Of(t)' <=> i \in Of(t)
        BY <3>3, <3>7
      <4>3. IF i \in Of(t) THEN Heralded(t, i) ELSE Told(t, i) = {} /\ Carrying(t, i) = {}
        BY <1>1 DEF LogOK
      <4> QED
        BY <4>1, <4>2, <4>3 DEF Heralded
    <3>8. n \in Of(t)'
      BY <3>3
    <3>9. \A i \in Nat \ {0} :
            IF i \in Of(t)' THEN Heralded(t, i)' ELSE Told(t, i)' = {} /\ Carrying(t, i)' = {}
      BY <3>6, <3>7, <3>8
    <3>10. LogOK(t)'
      BY <2>2, <3>4, <3>9 DEF LogOK
    <3> QED
      BY <1>4, <3>3, <3>4, <3>10
  <2> QED
    BY <1>9, <2>4, <2>5, StartFacts
<1>10. ASSUME NEW t \in Turns, NEW call \in flight[t], AfterTool(t, call)
       PROVE  \A s \in Turns : LogOK(s)'
  <2> DEFINE n == call.run
  <2>1. /\ "run" \in DOMAIN call /\ n \in Nat
        /\ flight' = [flight EXCEPT ![t] = flight[t] \ {call}]
        /\ queue' = [queue EXCEPT ![t] = IF n = 0 THEN queue[t] ELSE Append(queue[t], <<"run", n>>)]
        /\ UNCHANGED <<stage, seen, runs>>
    BY <1>10, CarryFacts DEF AfterTool, IInv, EventsOK
  <2>2. /\ flight'[t] = flight[t] \ {call} /\ flight[t] # {}
        /\ \A s \in Turns : s # t => flight'[s] = flight[s] /\ queue'[s] = queue[s]
    BY <2>1 DEF IInv, EventsOK
  <2>3. /\ Asked(t) /\ Asked(t)' /\ stage'[t] = stage[t]
        /\ \A k \in DOMAIN Log(t) : Log(t)[k] # End
    BY <1>1, <2>1, <2>2 DEF LogOK, Asked
  <2>4. stage[t] # "over"
    BY <1>1, <2>3, LogFacts DEF LogOK
  <2> HIDE DEF n
  <2>5. CASE n = 0
    <3>1. \A i \in Nat \ {0} : Carrying(t, i)' = Carrying(t, i)
      BY <2>2, <2>5 DEF Carrying, n
    <3>2. queue' = queue
      BY <2>1, <2>5 DEF IInv, EventsOK
    <3>3. Log(t)' = Log(t)
      BY <2>1, <3>2 DEF Log
    <3>4. LogOK(t)'
      BY <1>1, <1>2, <2>1, <2>3, <2>4, <3>1, <3>3, LogKept
    <3> QED
      BY <1>2, <1>4, <2>1, <2>2, <3>4
  <2>6. CASE n # 0
    <3> DEFINE e == <<"run", n>>
               l == Len(Log(t))
    <3>1. n \in Nat \ {0} /\ e \in Events /\ e # End
      BY <2>1, <2>6, EventFacts
    <3>2. queue' = [queue EXCEPT ![t] = Append(queue[t], e)] /\ seen' = seen
      BY <2>1, <2>6
    <3>3. \A i \in Nat \ {0} : e = <<"run", i>> <=> i = n
      OBVIOUS
    <3> HIDE DEF e
    <3>4. /\ l \in Nat /\ DOMAIN Log(t) = 1 .. l /\ DOMAIN Log(t)' = 1 .. l + 1
          /\ \A k \in 1 .. l : Log(t)'[k] = Log(t)[k]
          /\ Log(t)'[l + 1] = e
          /\ \A i \in Nat \ {0} : Told(t, i)' = Told(t, i) \cup (IF e = <<"run", i>> THEN {l + 1} ELSE {})
      BY <3>1, <3>2, LogAppended
    <3> HIDE DEF l
    <3>5. \A k \in DOMAIN Log(t)' : Log(t)'[k] # End
      <4>1. \A k \in 1 .. l + 1 : k \in 1 .. l \/ k = l + 1
        BY <3>4
      <4> QED
        BY <2>3, <3>1, <3>4, <4>1
    <3>6. call \in Carrying(t, n)
      BY <2>1 DEF Carrying, n
    <3>7. n \in Of(t) /\ Told(t, n) = {} /\ Carrying(t, n) = {call}
      BY <1>1, <3>1, <3>6 DEF LogOK, Heralded
    <3>8. Told(t, n)' = {l + 1} /\ Carrying(t, n)' = {}
      <4>1. Told(t, n)' = {l + 1}
        BY <3>1, <3>3, <3>4, <3>7
      <4>2. Carrying(t, n)' = Carrying(t, n) \ {call}
        BY <2>2 DEF Carrying
      <4> QED
        BY <3>7, <4>1, <4>2
    <3>9. Of(t)' = Of(t) /\ \A s \in Turns : Of(s)' = Of(s)
      BY <1>2, <2>1
    <3>10. ASSUME NEW i \in Nat \ {0}, i # n
           PROVE  IF i \in Of(t)' THEN Heralded(t, i)' ELSE Told(t, i)' = {} /\ Carrying(t, i)' = {}
      <4>1. Told(t, i)' = Told(t, i)
        BY <3>3, <3>4, <3>10
      <4>2. Carrying(t, i)' = Carrying(t, i)
        BY <2>2, <3>10 DEF Carrying, n
      <4>3. IF i \in Of(t) THEN Heralded(t, i) ELSE Told(t, i) = {} /\ Carrying(t, i) = {}
        BY <1>1 DEF LogOK
      <4> QED
        BY <3>9, <4>1, <4>2, <4>3 DEF Heralded
    <3>11. Heralded(t, n)'
      BY <3>8 DEF Heralded
    <3>12. LogOK(t)'
      BY <2>3, <2>4, <3>5, <3>7, <3>9, <3>10, <3>11 DEF LogOK
    <3> QED
      BY <1>4, <2>1, <2>2, <3>9, <3>12
  <2> QED
    BY <2>5, <2>6
<1>11. ASSUME NEW t \in Turns, EndOfTurn(t) PROVE \A s \in Turns : LogOK(s)'
  <2> DEFINE l == Len(Log(t))
  <2>1. /\ Working(t) /\ flight[t] = {}
        /\ queue' = [queue EXCEPT ![t] = Append(queue[t], End)]
        /\ UNCHANGED <<stage, flight, seen, runs>>
    BY <1>11 DEF EndOfTurn, IInv, EventsOK
  <2>2. /\ Asked(t) /\ Asked(t)' /\ stage'[t] # "over" /\ stage'[t] = stage[t]
        /\ \A k \in DOMAIN Log(t) : Log(t)[k] # End
    BY <2>1, WorkingFacts DEF Asked
  <2>3. /\ l \in Nat /\ DOMAIN Log(t) = 1 .. l /\ DOMAIN Log(t)' = 1 .. l + 1 /\ Len(Log(t))' = l + 1
        /\ \A k \in 1 .. l : Log(t)'[k] = Log(t)[k]
        /\ \A i \in Nat \ {0} : Told(t, i)' = Told(t, i) \cup (IF End = <<"run", i>> THEN {l + 1} ELSE {})
    BY <2>1, EventFacts, LogAppended
  <2> HIDE DEF l
  <2>4. \A k \in DOMAIN Log(t)' : Log(t)'[k] = End => k = Len(Log(t))' /\ flight'[t] = {}
    <3>1. \A k \in 1 .. l + 1 : k \in 1 .. l \/ k = l + 1
      BY <2>3
    <3> QED
      BY <2>1, <2>2, <2>3, <3>1
  <2>5. \A i \in Nat \ {0} : Told(t, i)' = Told(t, i) /\ Carrying(t, i)' = Carrying(t, i)
    BY <2>1, <2>3, EventFacts DEF Carrying
  <2>6. \A i \in Nat \ {0} : Heralded(t, i) => Heralded(t, i)'
    BY <2>5 DEF Heralded
  <2>7. \A s \in Turns : Of(s)' = Of(s)
    BY <1>2, <2>1
  <2>8. LogOK(t)'
    BY <1>1, <2>2, <2>4, <2>5, <2>6, <2>7 DEF LogOK
  <2> QED
    BY <1>4, <2>1, <2>7, <2>8 DEF IInv, EventsOK
<1>12. ASSUME NEW t \in Turns, NEW n, Drain(t) \/ Finish(t, n)
       PROVE  /\ Log(t)' = Log(t) /\ UNCHANGED <<flight, runs>> /\ stage[t] = "streaming"
              /\ queue[t] # <<>> /\ queue'[t] = Tail(queue[t])
              /\ seen'[t] = Append(seen[t], Head(queue[t]))
              /\ \A s \in Turns : s # t => /\ seen'[s] = seen[s] /\ queue'[s] = queue[s]
                                           /\ stage'[s] = stage[s]
  <2>1. /\ UNCHANGED <<flight, runs>> /\ stage[t] = "streaming"
        /\ queue[t] # <<>> /\ queue'[t] = Tail(queue[t])
        /\ seen'[t] = Append(seen[t], Head(queue[t]))
        /\ \A s \in Turns : s # t => /\ seen'[s] = seen[s] /\ queue'[s] = queue[s]
                                     /\ stage'[s] = stage[s]
    BY <1>12 DEF Drain, Finish, IInv, EventsOK, TurnsOK
  <2> DEFINE s == seen[t]
             q == queue[t]
  <2>2. s \in Seq(Events) /\ q \in Seq(Events) /\ q # <<>>
    BY <2>1, LogFacts
  <2> HIDE DEF s, q
  <2>3. Append(s, Head(q)) \o Tail(q) = s \o q
    BY <2>2, DrainFacts
  <2>4. Log(t)' = Log(t)
    BY <2>1, <2>3 DEF s, q, Log
  <2> QED
    BY <2>1, <2>4
<1>13. ASSUME NEW t \in Turns, Drain(t) PROVE \A s \in Turns : LogOK(s)'
  <2>1. stage' = stage /\ stage[t] = "streaming"
    BY <1>13 DEF Drain
  <2>2. /\ Log(t)' = Log(t) /\ UNCHANGED <<flight, runs>>
        /\ \A s \in Turns : s # t => seen'[s] = seen[s] /\ queue'[s] = queue[s]
    BY <1>12, <1>13
  <2>3. (\E k \in DOMAIN Log(t) : Log(t)[k] = End) => flight'[t] = {}
    BY <1>1, <2>2 DEF LogOK
  <2>4. \A i \in Nat \ {0} : Carrying(t, i)' = Carrying(t, i)
    BY <2>2 DEF Carrying
  <2>5. LogOK(t)'
    BY <1>1, <1>2, <2>1, <2>2, <2>3, <2>4, LogKept DEF Asked
  <2> QED
    BY <1>2, <1>4, <2>1, <2>2, <2>5
<1>14. ASSUME NEW t \in Turns, NEW n \in Lengths, Finish(t, n) PROVE \A s \in Turns : LogOK(s)'
  <2>1. /\ Log(t)' = Log(t) /\ UNCHANGED <<flight, runs>> /\ stage[t] = "streaming"
        /\ queue[t] # <<>> /\ queue'[t] = Tail(queue[t])
        /\ seen'[t] = Append(seen[t], Head(queue[t]))
        /\ \A s \in Turns : s # t => /\ seen'[s] = seen[s] /\ queue'[s] = queue[s]
                                     /\ stage'[s] = stage[s]
    BY <1>12, <1>14
  <2>2. stage'[t] = "over" /\ Head(queue[t]) = End
    BY <1>14 DEF Finish, IInv, TurnsOK
  <2>3. /\ Len(seen[t]) + 1 \in DOMAIN Log(t)
        /\ Log(t)[Len(seen[t]) + 1] = End
        /\ Len(seen[t]) + 1 = Len(Log(t)) => Tail(queue[t]) = <<>>
    BY <2>1, <2>2, LogFacts
  <2>4. Len(seen[t]) + 1 = Len(Log(t)) /\ flight[t] = {}
    BY <1>1, <2>3 DEF LogOK
  <2>5. queue'[t] = <<>>
    BY <2>1, <2>3, <2>4
  <2>6. \E k \in DOMAIN seen'[t] : seen'[t][k] = End
    <3> DEFINE s == seen[t]
    <3>1. s \in Seq(Events) /\ Len(s) \in Nat
      BY LogFacts
    <3> HIDE DEF s
    <3>2. Len(s) + 1 \in DOMAIN Append(s, End) /\ Append(s, End)[Len(s) + 1] = End
      BY <3>1, EventFacts, AppendFacts
    <3> QED
      BY <2>1, <2>2, <3>2 DEF s
  <2>7. \A i \in Nat \ {0} : Carrying(t, i)' = Carrying(t, i)
    BY <2>1 DEF Carrying
  <2>8. LogOK(t)'
    BY <1>1, <1>2, <2>1, <2>2, <2>4, <2>5, <2>6, <2>7, LogKept DEF Asked
  <2>9. ASSUME NEW s \in Turns, s # t PROVE LogOK(s)'
    BY <1>1, <1>2, <2>1, <2>9, LogStill DEF Asked
  <2> QED
    BY <2>8, <2>9
<1>15. ASSUME NEW task \in Tasks, NEW choice \in {<<{}, NoRoute>>, <<{Backend}, Fullstack>>},
              SubmitDirect(task, choice[1], choice[2])
       PROVE  \A s \in Turns : LogOK(s)'
  <2>1. UNCHANGED <<stage, flight, queue, seen>>
    BY <1>15 DEF SubmitDirect, turn
  <2>2. \A s \in Turns : Of(s)' = Of(s)
    <3>1. PICK run \in Run : runs' = Append(runs, run) /\ run.turn = NoTurn
      BY <1>15, DirectFacts
    <3>2. \A s \in Turns : s # NoTurn
      BY TurnNumbers DEF NoTurn
    <3> QED
      BY <3>1, <3>2, OfAppended
  <2> QED
    BY <1>3, <2>1, <2>2 DEF Asked
<1>16. ASSUME NEW i \in 1 .. Len(runs), Drive(i) PROVE \A s \in Turns : LogOK(s)'
  <2>1. PICK run \in Run : Advanced(i, run)
    BY <1>16, DriveFacts
  <2>2. UNCHANGED <<stage, flight, queue, seen>>
    BY <2>1 DEF Advanced, turn
  <2> QED
    BY <1>3, <2>1, <2>2, OfAdvanced DEF Asked
<1>17. CASE Aside
  BY <1>2, <1>3, <1>17, AsideFacts DEF turn, Asked
<1> QED
  BY <1>5, <1>6, <1>7, <1>8, <1>9, <1>10, <1>11, <1>13, <1>14, <1>15, <1>16, <1>17, Steps

---------------------------------------------------------------------------
\* The history.

\* A step that asks for no turn and ends none.
LEMMA HeardStill ==
  ASSUME IInv, UNCHANGED <<history, base, alone, heard, behind>>,
         \A t \in Turns : /\ stage'[t] = "over" <=> stage[t] = "over"
                          /\ Asked(t)' <=> Asked(t)
                          /\ stage'[t] = "streaming" => stage[t] = "streaming"
                          /\ Asked(t) => request'[t] = request[t]
  PROVE  HeardInv' /\ AloneInv' /\ HistoryInv'
<1>2. \A t \in Turns : Asked(t) => Conv(t)' = Conv(t)
  BY DEF Conv
<1>3. \A t \in Turns : stage[t] = "over" => Asked(t)
  BY DEF Asked
<1>4. heard \in [Turns -> SUBSET Turns] /\ alone \subseteq Turns
  BY DEF IInv, TurnsOK
<1>5. HeardInv'
  <2>1. HeardInv
    BY DEF IInv
  <2>2. ASSUME NEW u \in Turns, NEW t \in heard[u]
        PROVE  stage'[t] = "over" /\ Conv(t)' = Conv(u)'
    BY <1>2, <1>3, <1>4, <2>1, <2>2 DEF HeardInv
  <2> QED
    BY <2>1, <2>2 DEF HeardInv
<1>6. AloneInv'
  <2>1. AloneInv
    BY DEF IInv
  <2>2. ASSUME NEW t \in alone, NEW u \in Turns, t # u, Asked(t)', u \in Open', Conv(t)' = Conv(u)'
        PROVE  stage'[t] # "streaming" /\ (stage'[t] = "over" => t \in heard[u])
    <3>1. t \in Turns /\ Asked(t) /\ u \in Open /\ Asked(u)
      BY <1>4, <2>2 DEF Open, Asked
    <3>2. Conv(t) = Conv(u)
      BY <1>2, <2>2, <3>1
    <3> QED
      BY <2>1, <2>2, <3>1, <3>2 DEF AloneInv
  <2> QED
    BY <2>2 DEF AloneInv
<1>7. HistoryInv'
  <2>1. HistoryInv
    BY DEF IInv
  <2>2. ASSUME NEW t \in Turns, stage'[t] = "over"
        PROVE  stage[t] = "over" /\ Conv(t)' = Conv(t)
    BY <1>2, <1>3, <2>2
  <2> QED
    BY <2>1, <2>2 DEF HistoryInv
<1> QED
  BY <1>5, <1>6, <1>7

\* A turn that is asked for hears what is over.
LEMMA HeardAsk ==
  ASSUME IInv, NEW u \in Turns, NEW found \in BOOLEAN, Ask(u, found)
  PROVE  HeardInv' /\ AloneInv' /\ HistoryInv'
<1> DEFINE others == {s \in Open : Conv(s) = Conv(u)}
<1>1. /\ heard \in [Turns -> SUBSET Turns] /\ alone \subseteq Turns
      /\ stage[u] = "reading" /\ stage' = [stage EXCEPT ![u] = "streaming"]
      /\ base' = [base EXCEPT ![u] = history[Conv(u)]]
      /\ heard' = [heard EXCEPT ![u] = {s \in Turns : stage[s] = "over" /\ Conv(s) = Conv(u)}]
      /\ alone' = IF others = {} THEN alone ELSE alone \ (others \cup {u})
      /\ UNCHANGED <<request, history, behind>>
  BY DEF Ask, Identify, IInv, TurnsOK
<1>2. /\ stage \in [Turns -> {"new", "reading", "refused", "streaming", "left", "over"}]
      /\ DOMAIN base = Turns
  BY DEF IInv, TurnsOK
<1>3. /\ \A t \in Turns : t # u => stage'[t] = stage[t] /\ heard'[t] = heard[t] /\ base'[t] = base[t]
      /\ stage'[u] = "streaming" /\ base'[u] = history[Conv(u)]
      /\ heard'[u] = {s \in Turns : stage[s] = "over" /\ Conv(s) = Conv(u)}
      /\ \A t \in Turns : Conv(t)' = Conv(t)
  BY <1>1, <1>2 DEF Conv
<1>4. HeardInv /\ AloneInv /\ HistoryInv
  BY DEF IInv
<1> HIDE DEF others
<1>5. alone' \subseteq alone
  BY <1>1
<1>7. HeardInv'
  <2>1. ASSUME NEW s \in Turns, s # u
        PROVE  /\ heard'[s] # {} => Asked(s)'
               /\ \A t \in heard'[s] : stage'[t] = "over" /\ Conv(t)' = Conv(s)'
               /\ \A t \in heard'[s] \cap alone' :
                    behind'[t] < Retained => Near(base'[s], t, behind'[t])
    <3>1. heard'[s] = heard[s] /\ base'[s] = base[s] /\ heard[s] \subseteq Turns
      BY <1>1, <1>3, <2>1
    <3>2. \A t \in heard[s] : t # u /\ stage'[t] = "over" /\ Conv(t)' = Conv(s)'
      BY <1>1, <1>3, <1>4, <3>1 DEF HeardInv
    <3>4. heard[s] # {} => Asked(s)'
      BY <1>3, <1>4, <2>1 DEF HeardInv, Asked
    <3> QED
      BY <1>1, <1>4, <1>5, <3>1, <3>2, <3>4 DEF HeardInv
  <2>2. Asked(u)' /\ \A t \in heard'[u] : stage'[t] = "over" /\ Conv(t)' = Conv(u)'
    BY <1>1, <1>3 DEF Asked
  <2>3. ASSUME NEW t \in heard'[u] \cap alone'
        PROVE  behind'[t] < Retained => Near(base'[u], t, behind'[t])
    <3>1. t \in Turns /\ t \in alone /\ stage[t] = "over" /\ Conv(t) = Conv(u)
      BY <1>3, <1>5, <2>3
    <3> QED
      BY <1>1, <1>3, <1>4, <3>1 DEF HistoryInv
  <2> QED
    BY <2>1, <2>2, <2>3 DEF HeardInv
<1>8. AloneInv'
  <2>1. ASSUME NEW t \in alone', NEW v \in Turns, t # v, Asked(t)', v \in Open', Conv(t)' = Conv(v)'
        PROVE  stage'[t] # "streaming" /\ (stage'[t] = "over" => t \in heard'[v])
    <3>1. t \in Turns /\ t \in alone /\ Conv(t) = Conv(v)
      BY <1>1, <1>3, <1>5, <2>1
    <3>2. CASE v = u
      <4>1. stage'[t] = stage[t]
        BY <1>3, <2>1, <3>1, <3>2
      <4>2. stage[t] # "streaming"
        BY <1>1, <2>1, <3>1, <3>2 DEF others, Open
      <4> QED
        BY <1>3, <3>1, <3>2, <4>1, <4>2
    <3>3. CASE v # u
      <4>1. v \in Open
        BY <1>3, <2>1, <3>3 DEF Open
      <4>2. t # u
        BY <1>1, <2>1, <3>1, <4>1 DEF others
      <4>3. Asked(t) /\ stage'[t] = stage[t] /\ heard'[v] = heard[v]
        BY <1>3, <2>1, <3>1, <3>3, <4>2 DEF Asked
      <4> QED
        BY <1>4, <2>1, <3>1, <4>1, <4>3 DEF AloneInv
    <3> QED
      BY <3>2, <3>3
  <2> QED
    BY <2>1 DEF AloneInv
<1>9. HistoryInv'
  <2>1. ASSUME NEW t \in Turns
        PROVE  /\ Conv(t)' = Conv(t) /\ (t \in alone' => t \in alone)
               /\ stage'[t] = "over" <=> stage[t] = "over"
    BY <1>1, <1>3, <1>5
  <2> QED
    BY <1>1, <1>4, <2>1 DEF HistoryInv
<1> QED
  BY <1>7, <1>8, <1>9

\* A turn that is over is in the history.
LEMMA HeardFinish ==
  ASSUME IInv, NEW v \in Turns, NEW m \in Lengths, Finish(v, m)
  PROVE  HeardInv' /\ AloneInv' /\ HistoryInv'
<1> DEFINE more == base[v] \o Messages(v, m)
<1>1. /\ heard \in [Turns -> SUBSET Turns] /\ alone \subseteq Turns
      /\ base \in [Turns -> Seq(Turns)] /\ behind \in [Turns -> Nat]
      /\ Conv(v) \in Convs /\ v \in Open
      /\ stage[v] = "streaming" /\ stage' = [stage EXCEPT ![v] = "over"]
      /\ history' = [history EXCEPT ![Conv(v)] = Trim(more)]
      /\ behind' = [s \in Turns |->
                      IF stage[s] = "over" /\ Conv(s) = Conv(v) THEN behind[s] + m ELSE behind[s]]
      /\ UNCHANGED <<request, base, alone, heard>>
  BY DEF Finish, IInv, TurnsOK, Conv, Open, given
<1>2. /\ \A t \in Turns : t # v => stage'[t] = stage[t]
      /\ stage'[v] = "over"
      /\ \A t \in Turns : Conv(t)' = Conv(t) /\ (Asked(t)' <=> Asked(t))
      /\ history'[Conv(v)] = Trim(more)
      /\ \A c \in Convs : c # Conv(v) => history'[c] = history[c]
  BY <1>1 DEF IInv, TurnsOK, Conv, Asked
<1>3. HeardInv /\ AloneInv /\ HistoryInv
  BY DEF IInv
<1>4. /\ m \in Nat /\ Retained \in Nat /\ more \in Seq(Turns) /\ Near(more, v, 0)
      /\ \A t \in Turns, n \in Nat : Near(base[v], t, n) => Near(more, t, n + m)
  BY <1>1, MessagesFacts, AssistantAssumption
<1>5. ASSUME NEW t \in Turns
      PROVE  /\ behind[t] \in Nat /\ behind'[t] \in Nat /\ behind[t] <= behind'[t]
             /\ behind'[t] = IF stage[t] = "over" /\ Conv(t) = Conv(v)
                              THEN behind[t] + m ELSE behind[t]
  BY <1>1, <1>4
<1> HIDE DEF more
<1>6. HeardInv'
  <2>1. ASSUME NEW u \in Turns, NEW t \in heard[u]
        PROVE  /\ stage'[t] = "over" /\ Conv(t)' = Conv(u)' /\ Asked(u)'
               /\ t \in alone /\ behind'[t] < Retained => Near(base[u], t, behind'[t])
    <3>1. t \in Turns /\ stage[t] = "over" /\ Conv(t) = Conv(u) /\ Asked(u)
      BY <1>1, <1>3, <2>1 DEF HeardInv
    <3>2. ASSUME t \in alone, behind'[t] < Retained PROVE Near(base[u], t, behind'[t])
      <4>1. behind[t] < Retained
        BY <1>4, <1>5, <3>1, <3>2
      <4>2. Near(base[u], t, behind[t]) /\ base[u] \in Seq(Turns)
        BY <1>1, <1>3, <2>1, <3>2, <4>1 DEF HeardInv
      <4> QED
        BY <1>5, <3>1, <4>2, NearMore
    <3> QED
      BY <1>1, <1>2, <3>1, <3>2
  <2> QED
    BY <1>1, <2>1 DEF HeardInv
<1>7. AloneInv'
  <2>1. ASSUME NEW t \in alone, NEW u \in Turns, t # u, Asked(t)', u \in Open', Conv(t)' = Conv(u)'
        PROVE  stage'[t] # "streaming" /\ (stage'[t] = "over" => t \in heard[u])
    <3>1. t \in Turns /\ Asked(t) /\ Conv(t) = Conv(u) /\ u # v /\ u \in Open
      BY <1>1, <1>2, <2>1 DEF Open
    <3>2. stage[t] # "streaming" /\ (stage[t] = "over" => t \in heard[u])
      BY <1>3, <2>1, <3>1 DEF AloneInv
    <3>3. t # v
      BY <1>1, <3>2
    <3> QED
      BY <1>2, <3>1, <3>2, <3>3
  <2> QED
    BY <1>1, <2>1 DEF AloneInv
<1>8. ASSUME NEW t \in alone, stage'[t] = "over", behind'[t] < Retained
      PROVE  Near(history'[Conv(t)], t, behind'[t])
  <2>1. t \in Turns /\ Conv(t) \in Convs
    <3>1. t \in Turns /\ Asked(t)
      BY <1>1, <1>2, <1>8 DEF Asked
    <3> QED
      BY <3>1 DEF Asked, Conv, IInv, TurnsOK
  <2>2. CASE t = v
    <3>1. behind'[t] = 0
      BY <1>1, <1>3, <1>5, <2>2 DEF HistoryInv
    <3>2. Near(Trim(more), v, 0)
      BY <1>4, <1>8, <3>1, TrimFacts
    <3> QED
      BY <1>2, <2>2, <3>1, <3>2
  <2>3. CASE t # v /\ Conv(t) # Conv(v)
    <3>1. stage[t] = "over" /\ behind'[t] = behind[t] /\ history'[Conv(t)] = history[Conv(t)]
      BY <1>2, <1>5, <1>8, <2>1, <2>3
    <3> QED
      BY <1>3, <1>8, <2>1, <3>1 DEF HistoryInv
  <2>4. CASE t # v /\ Conv(t) = Conv(v)
    <3>1. stage[t] = "over" /\ behind'[t] = behind[t] + m /\ behind[t] \in Nat
      BY <1>2, <1>5, <1>8, <2>1, <2>4
    <3>2. t \in heard[v]
      BY <1>1, <1>3, <2>1, <2>4, <3>1 DEF AloneInv, Asked
    <3>3. behind[t] < Retained
      BY <1>4, <1>8, <3>1
    <3>4. Near(base[v], t, behind[t])
      BY <1>3, <3>2, <3>3 DEF HeardInv
    <3>5. Near(more, t, behind'[t]) /\ behind'[t] \in Nat
      BY <1>4, <1>5, <2>1, <3>1, <3>4
    <3>6. Near(Trim(more), t, behind'[t])
      BY <1>4, <1>8, <2>1, <3>5, TrimFacts
    <3> QED
      BY <1>2, <2>4, <3>6
  <2> QED
    BY <2>2, <2>3, <2>4
<1>9. ASSUME NEW t \in Turns, stage'[t] # "over" PROVE behind'[t] = 0
  BY <1>2, <1>3, <1>5, <1>9 DEF HistoryInv
<1>10. HistoryInv'
  BY <1>1, <1>2, <1>8, <1>9 DEF HistoryInv
<1> QED
  BY <1>6, <1>7, <1>10

---------------------------------------------------------------------------
\* Every step keeps what the turns hear.
LEMMA HeardStep ==
  IInv /\ [Next]_vars => HeardInv' /\ AloneInv' /\ HistoryInv'
<1> SUFFICES ASSUME IInv, [Next]_vars PROVE HeardInv' /\ AloneInv' /\ HistoryInv'
  OBVIOUS
<1>1. /\ stage \in [Turns -> {"new", "reading", "refused", "streaming", "left", "over"}]
      /\ DOMAIN request = Turns
  BY DEF IInv, TurnsOK
<1>2. ASSUME UNCHANGED <<given, history, behind, stage>>
      PROVE  HeardInv' /\ AloneInv' /\ HistoryInv'
  BY <1>2, HeardStill DEF given, Asked
<1>3. ASSUME NEW t \in Turns, NEW c, NEW i, Knock(t, c, i)
      PROVE  HeardInv' /\ AloneInv' /\ HistoryInv'
  <2>1. /\ stage[t] = "new" /\ stage' = [stage EXCEPT ![t] = "reading"]
        /\ request' = [request EXCEPT ![t] = <<c, i>>]
        /\ UNCHANGED <<history, behind, base, alone, heard>>
    BY <1>3 DEF Knock
  <2>2. \A s \in Turns : s # t => stage'[s] = stage[s] /\ request'[s] = request[s]
    BY <1>1, <2>1
  <2>3. ~Asked(t) /\ stage'[t] = "reading"
    BY <1>1, <2>1 DEF Asked
  <2> QED
    BY <2>1, <2>2, <2>3, HeardStill DEF Asked
<1>4. ASSUME NEW t \in Turns, NEW found, Refuse(t, found)
      PROVE  HeardInv' /\ AloneInv' /\ HistoryInv'
  <2>1. /\ stage[t] = "reading" /\ stage' = [stage EXCEPT ![t] = "refused"]
        /\ UNCHANGED <<request, history, behind, base, alone, heard>>
    BY <1>4 DEF Refuse, Identify
  <2>2. \A s \in Turns : s # t => stage'[s] = stage[s]
    BY <1>1, <2>1
  <2>3. stage'[t] = "refused"
    BY <1>1, <2>1
  <2> QED
    BY <2>1, <2>2, <2>3, HeardStill DEF Asked
<1>5. ASSUME NEW t \in Turns, NEW found \in BOOLEAN, Ask(t, found)
      PROVE  HeardInv' /\ AloneInv' /\ HistoryInv'
  BY <1>5, HeardAsk
<1>6. ASSUME NEW t \in Turns, Leave(t)
      PROVE  HeardInv' /\ AloneInv' /\ HistoryInv'
  <2>1. /\ stage[t] = "streaming" /\ stage' = [stage EXCEPT ![t] = "left"]
        /\ UNCHANGED <<request, history, behind, base, alone, heard>>
    BY <1>6 DEF Leave, given
  <2>2. \A s \in Turns : s # t => stage'[s] = stage[s]
    BY <1>1, <2>1
  <2>3. stage'[t] = "left"
    BY <1>1, <2>1
  <2> QED
    BY <2>1, <2>2, <2>3, HeardStill DEF Asked
<1>7. ASSUME NEW t \in Turns, NEW tool, NEW task, CallTool(t, tool, task)
      PROVE  HeardInv' /\ AloneInv' /\ HistoryInv'
  BY <1>2, <1>7 DEF CallTool
<1>8. ASSUME NEW t \in Turns, NEW call \in flight[t], Dispatch(t, call) \/ RunBuild(t, call)
      PROVE  HeardInv' /\ AloneInv' /\ HistoryInv'
  BY <1>2, <1>8, StartFacts DEF Answered
<1>9. ASSUME NEW t \in Turns, NEW call \in flight[t], AfterTool(t, call)
      PROVE  HeardInv' /\ AloneInv' /\ HistoryInv'
  BY <1>2, <1>9 DEF AfterTool
<1>10. ASSUME NEW t \in Turns, EndOfTurn(t) \/ Drain(t)
       PROVE  HeardInv' /\ AloneInv' /\ HistoryInv'
  BY <1>2, <1>10 DEF EndOfTurn, Drain
<1>11. ASSUME NEW t \in Turns, NEW n \in Lengths, Finish(t, n)
       PROVE  HeardInv' /\ AloneInv' /\ HistoryInv'
  BY <1>11, HeardFinish
<1>12. CASE \E task \in Tasks, choice \in {<<{}, NoRoute>>, <<{Backend}, Fullstack>>} :
              SubmitDirect(task, choice[1], choice[2])
  BY <1>2, <1>12 DEF SubmitDirect, turn
<1>13. ASSUME NEW i \in 1 .. Len(runs), Drive(i)
       PROVE  HeardInv' /\ AloneInv' /\ HistoryInv'
  BY <1>2, <1>13, DriveFacts DEF Advanced, turn
<1>14. CASE Aside
  BY <1>2, <1>14, AsideFacts DEF turn
<1> QED
  BY <1>3, <1>4, <1>5, <1>6, <1>7, <1>8, <1>9, <1>10, <1>11, <1>12, <1>13, <1>14, Steps

---------------------------------------------------------------------------
\* Nobody has asked for anything.
LEMMA Initially ==
  Init => IInv
<1> SUFFICES ASSUME Init PROVE IInv
  OBVIOUS
<1> USE DEF Init, IdentityInit
<1>1. SessionsOK
  BY DEF SessionsOK, NoCookie
<1>2. TurnsOK
  BY DEF TurnsOK
<1>3. EventsOK /\ CallsOK
  BY DEF EventsOK, CallsOK
<1>4. RunsOK
  BY DEF RunsOK
<1>5. \A t \in Turns : ~Asked(t) /\ stage[t] = "new" /\ heard[t] = {}
  BY DEF Asked
<1>6. SenderInv
  BY <1>5 DEF SenderInv
<1>7. DOMAIN runs = {}
  OBVIOUS
<1>8. UserInv /\ RouteInv
  BY <1>7 DEF UserInv, RouteInv
<1>9. ASSUME NEW t \in Turns PROVE LogOK(t)
  <2>1. Log(t) = <<>> /\ flight[t] = {} /\ DOMAIN Log(t) = {}
    BY DEF Log
  <2>2. \A i : Told(t, i) = {} /\ Carrying(t, i) = {} /\ i \notin Of(t)
    BY <1>7, <2>1 DEF Told, Carrying, Of
  <2> QED
    BY <1>5, <2>1, <2>2 DEF LogOK
<1>10. HeardInv /\ AloneInv /\ HistoryInv
  BY <1>5 DEF HeardInv, AloneInv, HistoryInv
<1> QED
  BY <1>1, <1>2, <1>3, <1>4, <1>6, <1>8, <1>9, <1>10 DEF IInv, LogInv

LEMMA Inductive ==
  Spec => []IInv
<1>1. Init => IInv
  BY Initially
<1>2. IInv /\ [Next]_vars => IInv'
  BY SenderStep, TurnsStep, EventsStep, CallsStep, RunsStep, LogStep, HeardStep DEF IInv, Kept
<1> QED
  BY <1>1, <1>2, PTL DEF Spec

\* What the agent of a turn starts never dies for want of a route, and what
\* run_build starts never becomes a review, which builds nothing: chat.py asks
\* the router before it submits, and the engine asks it again with the same
\* answer.
THEOREM ChatRunsAreAlwaysRouted == Spec => []ChatRunsAreRouted
<1>1. IInv => ChatRunsAreRouted
  <2> SUFFICES ASSUME IInv PROVE ChatRunsAreRouted
    OBVIOUS
  <2>1. ASSUME NEW i \in DOMAIN runs, runs[i].turn # NoTurn
        PROVE  /\ runs[i].status # NoRoute
               /\ ~runs[i].explicit /\ ReadOnly(runs[i].ref) => runs[i].status = "submitted"
    BY <2>1 DEF IInv, RouteInv, Routed, ReadOnly
  <2> QED
    BY <2>1 DEF ChatRunsAreRouted
<1> QED
  BY <1>1, Inductive, PTL

\* A run is kept for the user who sent the turn that started it, and for nobody
\* when it is from outside the chat or the session ended while the request was
\* read, whatever happens to the sessions after that; no role of it names
\* another.
THEOREM RunsAreAlwaysAttributed == Spec => []RunsAreAttributed
<1>1. IInv => RunsAreAttributed
  <2> SUFFICES ASSUME IInv PROVE RunsAreAttributed
    OBVIOUS
  <2>1. ASSUME NEW i \in DOMAIN runs
        PROVE  LET t == runs[i].turn
                   user == IF t = NoTurn \/ t \in lapsed THEN NoUser ELSE Sender(t) IN
               /\ runs[i].user = user
               /\ \A r \in runs[i].reached : r[2] \subseteq {user} \ {NoUser}
    <3> DEFINE t == runs[i].turn
               user == IF t = NoTurn \/ t \in lapsed THEN NoUser ELSE Sender(t)
    <3>1. /\ \A r \in runs[i].reached : r[2] \subseteq {runs[i].user} \ {NoUser}
          /\ IF t = NoTurn THEN runs[i].user = NoUser ELSE Asked(t) /\ runs[i].user = identity[t]
      BY DEF IInv, UserInv
    <3>2. t \in Turns \cup {NoTurn}
      <4>1. runs[i] \in Run
        BY DEF IInv, RunsOK
      <4> QED
        BY <4>1 DEF Run
    <3>3. runs[i].user = user
      <4>1. CASE t = NoTurn
        BY <3>1, <4>1
      <4>2. CASE t # NoTurn
        BY <3>1, <3>2, <4>2 DEF IInv, SenderInv
      <4> QED
        BY <4>1, <4>2
    <3> HIDE DEF t, user
    <3>4. \A r \in runs[i].reached : r[2] \subseteq {user} \ {NoUser}
      BY <3>1, <3>3
    <3> QED
      BY <3>3, <3>4 DEF t, user
  <2> QED
    BY <2>1 DEF RunsAreAttributed
<1> QED
  BY <1>1, Inductive, PTL

\* A browser that stays to the end of a turn is told once of each run of the
\* turn and of no other: the end of the events waits for the calls in flight.
THEOREM RunsAreAlwaysAnnounced == Spec => []RunsAreAnnounced
<1>1. IInv => RunsAreAnnounced
  <2> SUFFICES ASSUME IInv PROVE RunsAreAnnounced
    OBVIOUS
  <2>1. ASSUME NEW t \in Turns, stage[t] = "over", NEW i \in DOMAIN runs
        PROVE  Cardinality({k \in DOMAIN seen[t] : seen[t][k] = <<"run", i>>})
                 = IF runs[i].turn = t THEN 1 ELSE 0
    <3>1. LogOK(t) /\ seen[t] \in Seq(Events) /\ runs \in Seq(Run)
      BY DEF IInv, LogInv, EventsOK, RunsOK
    <3>2. queue[t] = <<>> /\ \E k \in DOMAIN seen[t] : seen[t][k] = End
      BY <2>1, <3>1 DEF LogOK
    <3>3. Log(t) = seen[t]
      BY <3>1, <3>2, ConcatEmptySeq DEF Log
    <3>4. flight[t] = {}
      BY <3>1, <3>2, <3>3 DEF LogOK
    <3>5. i \in Nat \ {0}
      BY <3>1
    <3>6. Carrying(t, i) = {}
      BY <3>4 DEF Carrying
    <3>7. Told(t, i) = {k \in DOMAIN seen[t] : seen[t][k] = <<"run", i>>}
      BY <3>3 DEF Told
    <3>8. CASE runs[i].turn = t
      <4>1. Heralded(t, i)
        BY <3>1, <3>5, <3>8 DEF LogOK, Of
      <4>2. PICK k : Told(t, i) = {k}
        BY <3>6, <4>1 DEF Heralded
      <4> QED
        BY <3>7, <3>8, <4>2, FS_Singleton
    <3>9. CASE runs[i].turn # t
      <4>1. Told(t, i) = {}
        BY <3>1, <3>5, <3>9 DEF LogOK, Of
      <4> QED
        BY <3>7, <3>9, <4>1, FS_EmptySet
    <3> QED
      BY <3>8, <3>9
  <2> QED
    BY <2>1 DEF RunsAreAnnounced
<1> QED
  BY <1>1, Inductive, PTL

\* The last message of a turn that overlapped no other of its conversation is
\* in the history, and in what each turn asked for since was given, until as
\* many messages as are retained have been kept behind it.
THEOREM FinishedTurnsAreAlwaysHeard == Spec => []FinishedTurnsAreHeard
<1>1. IInv => FinishedTurnsAreHeard
  <2> SUFFICES ASSUME IInv,
                      NEW t \in alone, stage[t] = "over", behind[t] < Retained
               PROVE  /\ t \in ToSet(history[Conv(t)])
                      /\ \A u \in Turns : t \in heard[u] => t \in ToSet(base[u])
    BY DEF FinishedTurnsAreHeard
  <2>0. t \in Turns
    BY DEF IInv, TurnsOK
  <2>1. t \in ToSet(history[Conv(t)])
    <3>1. Near(history[Conv(t)], t, behind[t])
      BY <2>0 DEF IInv, HistoryInv
    <3> QED
      BY <3>1 DEF Near, ToSet
  <2>2. ASSUME NEW u \in Turns, t \in heard[u]
        PROVE  t \in ToSet(base[u])
    <3>1. Near(base[u], t, behind[t])
      BY <2>2 DEF IInv, HeardInv
    <3> QED
      BY <3>1 DEF Near, ToSet
  <2> QED
    BY <2>1, <2>2
<1> QED
  BY <1>1, Inductive, PTL
===========================================================================

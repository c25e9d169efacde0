------------------------- MODULE Deployment_proofs --------------------------
(***************************************************************************)
(* Theorems about Deployment for every set of scripts, keys and exported   *)
(* settings, and any number of starts, deaths and errors: what the files   *)
(* say was true, roles grant what the runtimes use, and a deployment that  *)
(* meets no trouble succeeds.                                              *)
(***************************************************************************)
EXTENDS Deployment, SequenceTheorems, TLAPS

Kinds == {"none", "deploy", "cleanup", "key", "configure"}

\* What is left to do of a script of each kind.
DeployPlans ==
  {<<"role", "grant", "apply", "await", "record">>,
   <<"grant", "apply", "await", "record">>, <<"apply", "await", "record">>,
   <<"await", "record">>, <<"record">>, <<>>}

CleanupStep ==
  {"delete", "revoke", "unrole", "repo", "provider", "workload", "unrecord", "unset"}

KeyPlans ==
  {<<"ensure", "store", "sidecar">>, <<"store", "sidecar">>, <<"sidecar">>,
   <<"provider", "forget">>, <<"forget">>, <<>>}

ConfigurePlans ==
  {<<"collect", "replace", "pin">>, <<"replace", "pin">>, <<"pin">>, <<>>}

Planned(p) ==
  /\ p.kind = "none" => p.todo = <<>>
  /\ p.kind = "deploy" => p.todo \in DeployPlans
  /\ p.kind = "cleanup" => p.todo \in Seq(CleanupStep)
  /\ p.kind = "key" => p.todo \in KeyPlans
  /\ p.kind = "configure" => p.todo \in ConfigurePlans

Ids == Nat \cup {Cut}

Ends == {"CREATING", "UPDATING", "READY", "FAILED"}

Run == [id : Nat, status : Ends \cup {"GONE"},
        uses : SUBSET {"mount", "gateway", "model", "mantle", "users", "key"}]

Statements == UNION {Role(a) : a \in Agents}

Policy == [grants : SUBSET Statements, scope : {"nothing", "point", "account"}]

Script ==
  [kind : Kinds, agent : Agents \cup {"none"},
   todo : DeployPlans \cup KeyPlans \cup ConfigurePlans \cup Seq(CleanupStep),
   ok : BOOLEAN, calm : BOOLEAN, exported : SUBSET {"gateway", "model"},
   ap : BOOLEAN, id : Ids, key : Keys \cup {NoKey},
   arns : {<<>>} \cup [Coordinated -> Ids]]

TypeInv ==
  /\ subject \in Agents
  /\ runtime \in [Agents -> Run]
  /\ role \subseteq Agents
  /\ policy \in [Agents -> Policy]
  /\ ap \in BOOLEAN
  /\ record \in [Agents -> Ids]
  /\ shelf \in [Agents -> Ids]
  /\ proc \in [Scripts -> Script]
  /\ made \in Nat

\* A script follows its plan, and it is run for the subject or for no agent.
PlanInv ==
  \A s \in Scripts :
    /\ Planned(proc[s])
    /\ proc[s].agent = IF proc[s].kind \in {"deploy", "cleanup"} THEN subject ELSE "none"

\* What is READY has been READY, and so has what a file names or what a script
\* is about to write into one.
ReadyInv ==
  /\ \A a \in Agents :
       /\ runtime[a].status = "READY" => <<a, runtime[a].id>> \in ready
       /\ record[a] \notin {Nothing, Cut} => <<a, record[a]>> \in ready
       /\ shelf[a] # Nothing => <<a, shelf[a]>> \in ready
  /\ \A a \in DOMAIN project : <<a, project[a]>> \in ready
  /\ \A s \in Scripts :
       /\ At(s, "record") => <<subject, proc[s].id>> \in ready
       /\ At(s, "replace") =>
            \A a \in DOMAIN proc[s].arns : <<a, proc[s].arns[a]>> \in ready

\* A key is in the vault before the sidecar tells of it.
KeyInv ==
  /\ sidecar \in held /\ NoKey \in held
  /\ \A s \in Scripts : At(s, "sidecar") => proc[s].key \in held

\* A policy is the one of its agent, in a role that is there, and a runtime is
\* configured with no more.  It has been put before there is a runtime, and
\* before one is made.
GrantInv ==
  /\ \A a \in Agents :
       /\ policy[a] # NoPolicy =>
            a \in role /\ policy[a].grants = Role(a) /\ policy[a].scope # "nothing"
       /\ {Needs(u) : u \in runtime[a].uses} \subseteq Role(a)
       /\ runtime[a] # NoRuntime => policy[a] # NoPolicy \/ a \in revoked
  /\ \A s \in Scripts :
       At(s, "apply") => policy[subject] # NoPolicy \/ subject \in revoked

\* A deployment that nothing disturbs is alone with its agent; its role is
\* there, then its policy, and then its runtime, which fails for want of an
\* image only.
CalmInv ==
  \A s \in Scripts :
    proc[s].kind = "deploy" /\ proc[s].calm /\ proc[s].todo # <<>> =>
      /\ Busy(subject) = {s}
      /\ ~At(s, "role") => subject \in role
      /\ ~At(s, "role") /\ ~At(s, "grant") => policy[subject] # NoPolicy
      /\ At(s, "await") =>
           /\ runtime[subject].id = proc[s].id
           /\ runtime[subject].status \in Ends
           /\ runtime[subject].status = "FAILED" => subject \notin image

IInv == TypeInv /\ PlanInv /\ ReadyInv /\ KeyInv /\ GrantInv /\ CalmInv

---------------------------------------------------------------------------
\* The plans are told apart by what comes first in them.
LEMMA DeployPlan ==
  ASSUME NEW t \in DeployPlans, t # <<>>
  PROVE  \/ /\ t = <<"role", "grant", "apply", "await", "record">>
            /\ Head(t) = "role" /\ Tail(t) = <<"grant", "apply", "await", "record">>
         \/ /\ t = <<"grant", "apply", "await", "record">>
            /\ Head(t) = "grant" /\ Tail(t) = <<"apply", "await", "record">>
         \/ /\ t = <<"apply", "await", "record">>
            /\ Head(t) = "apply" /\ Tail(t) = <<"await", "record">>
         \/ t = <<"await", "record">> /\ Head(t) = "await" /\ Tail(t) = <<"record">>
         \/ t = <<"record">> /\ Head(t) = "record" /\ Tail(t) = <<>>
<1>1. CASE t = <<"grant", "apply", "await", "record">>
  BY <1>1
<1>2. CASE t = <<"apply", "await", "record">>
  BY <1>2
<1>3. CASE t = <<"await", "record">>
  BY <1>3
<1>4. CASE t = <<"record">>
  BY <1>4
<1>5. CASE t = <<"role", "grant", "apply", "await", "record">>
  BY <1>5
<1> QED
  BY <1>1, <1>2, <1>3, <1>4, <1>5 DEF DeployPlans

LEMMA KeyPlan ==
  ASSUME NEW t \in KeyPlans, t # <<>>
  PROVE  \/ /\ t = <<"ensure", "store", "sidecar">>
            /\ Head(t) = "ensure" /\ Tail(t) = <<"store", "sidecar">>
         \/ t = <<"store", "sidecar">> /\ Head(t) = "store" /\ Tail(t) = <<"sidecar">>
         \/ t = <<"sidecar">> /\ Head(t) = "sidecar" /\ Tail(t) = <<>>
         \/ t = <<"provider", "forget">> /\ Head(t) = "provider" /\ Tail(t) = <<"forget">>
         \/ t = <<"forget">> /\ Head(t) = "forget" /\ Tail(t) = <<>>
<1>1. CASE t = <<"ensure", "store", "sidecar">>
  BY <1>1
<1>2. CASE t = <<"store", "sidecar">>
  BY <1>2
<1>3. CASE t = <<"sidecar">>
  BY <1>3
<1>4. CASE t = <<"provider", "forget">>
  BY <1>4
<1>5. CASE t = <<"forget">>
  BY <1>5
<1> QED
  BY <1>1, <1>2, <1>3, <1>4, <1>5 DEF KeyPlans

LEMMA ConfigurePlan ==
  ASSUME NEW t \in ConfigurePlans, t # <<>>
  PROVE  \/ /\ t = <<"collect", "replace", "pin">>
            /\ Head(t) = "collect" /\ Tail(t) = <<"replace", "pin">>
         \/ t = <<"replace", "pin">> /\ Head(t) = "replace" /\ Tail(t) = <<"pin">>
         \/ t = <<"pin">> /\ Head(t) = "pin" /\ Tail(t) = <<>>
<1>1. CASE t = <<"collect", "replace", "pin">>
  BY <1>1
<1>2. CASE t = <<"replace", "pin">>
  BY <1>2
<1>3. CASE t = <<"pin">>
  BY <1>3
<1> QED
  BY <1>1, <1>2, <1>3 DEF ConfigurePlans

\* The steps of a cleanup.
LEMMA Cleanups ==
  ASSUME NEW a \in Agents, NEW keep \in BOOLEAN
  PROVE  CleanupSteps(a, keep) \in Seq(CleanupStep)
<1>1. /\ <<"delete", "revoke", "unrole">> \in Seq(CleanupStep)
      /\ <<"provider", "workload">> \in Seq(CleanupStep)
      /\ <<>> \in Seq(CleanupStep)
      /\ <<"unrecord", "unset">> \in Seq(CleanupStep)
  BY DEF CleanupStep
<1>2. KiroCleanup(keep) \in Seq(CleanupStep)
  <2>1. (IF keep THEN <<>> ELSE <<"provider", "workload">>) \in Seq(CleanupStep)
    BY <1>1
  <2> QED
    BY <1>1, <2>1, ConcatProperties DEF KiroCleanup
<1>3. /\ <<"delete", "revoke", "unrole", "repo", "unrecord", "unset">> \in Seq(CleanupStep)
      /\ <<"delete", "revoke", "unrole", "unrecord", "unset">> \in Seq(CleanupStep)
  BY DEF CleanupStep
<1> QED
  BY <1>2, <1>3
     DEF CleanupSteps, ClaudeCleanup, ValidatorCleanup, OpencodeCleanup,
         CodexCleanup, Agents, Adopters

\* A runtime is configured only with what its agent's role grants.
LEMMA RoleGrantsUses ==
  ASSUME NEW a \in Agents, NEW exported \in SUBSET {"gateway", "model"},
         NEW known \in BOOLEAN
  PROVE  /\ Uses(a, exported, known)
              \in SUBSET {"mount", "gateway", "model", "mantle", "users", "key"}
         /\ {Needs(u) : u \in Uses(a, exported, known)} \subseteq Role(a)
<1> USE DEF Uses, Role, Needs, Mounted, Shared
<1>1. CASE a = "claude-code"
  BY <1>1 DEF ClaudeRuntime, ClaudeRole
<1>2. CASE a = "claude-code-validator"
  BY <1>2 DEF ValidatorRuntime, ValidatorRole
<1>3. CASE a = "opencode"
  BY <1>3 DEF OpencodeRuntime, OpencodeRole
<1>4. CASE a = "codex"
  BY <1>4 DEF CodexRuntime, CodexRole
<1>5. CASE a = "kiro"
  BY <1>5 DEF KiroRuntime, KiroRole
<1> QED
  BY <1>1, <1>2, <1>3, <1>4, <1>5 DEF Agents, Adopters

\* What is first in the plan of a script, and what is left then.
LEMMA Position ==
  ASSUME NEW p \in Script, Planned(p), p.todo # <<>>
  PROVE  /\ p.kind # "none"
         /\ Planned([p EXCEPT !.todo = Tail(@)])
         /\ Tail(p.todo) \in DeployPlans \cup KeyPlans \cup ConfigurePlans
                               \cup Seq(CleanupStep)
         /\ Head(p.todo) \in {"role", "grant", "apply", "await", "record"}
              => p.kind = "deploy" /\ p.todo \in DeployPlans \ {<<>>}
         /\ Head(p.todo) \in CleanupStep => p.kind \in {"cleanup", "key"}
         /\ Head(p.todo) \in CleanupStep \ {"provider"} => p.kind = "cleanup"
         /\ Head(p.todo) \in {"ensure", "store", "sidecar", "forget"}
              => p.kind = "key" /\ p.todo \in KeyPlans \ {<<>>}
         /\ Head(p.todo) \in {"collect", "replace", "pin"}
              => p.kind = "configure" /\ p.todo \in ConfigurePlans \ {<<>>}
<1>1. p.kind \in Kinds /\ p.kind # "none"
  BY DEF Script, Planned
<1>2. CASE p.kind = "deploy"
  <2>1. p.todo \in DeployPlans
    BY <1>2 DEF Planned
  <2>2. Tail(p.todo) \in DeployPlans
    BY <2>1, DeployPlan DEF DeployPlans
  <2>3. Head(p.todo) \in {"role", "grant", "apply", "await", "record"}
    BY <2>1, DeployPlan
  <2> QED
    BY <1>2, <2>1, <2>2, <2>3 DEF Script, Planned, CleanupStep
<1>3. CASE p.kind = "key"
  <2>1. p.todo \in KeyPlans
    BY <1>3 DEF Planned
  <2>2. Tail(p.todo) \in KeyPlans
    BY <2>1, KeyPlan DEF KeyPlans
  <2>3. Head(p.todo) \in {"ensure", "store", "sidecar", "provider", "forget"}
    BY <2>1, KeyPlan
  <2> QED
    BY <1>3, <2>1, <2>2, <2>3 DEF Script, Planned, CleanupStep
<1>4. CASE p.kind = "configure"
  <2>1. p.todo \in ConfigurePlans
    BY <1>4 DEF Planned
  <2>2. Tail(p.todo) \in ConfigurePlans
    BY <2>1, ConfigurePlan DEF ConfigurePlans
  <2>3. Head(p.todo) \in {"collect", "replace", "pin"}
    BY <2>1, ConfigurePlan
  <2> QED
    BY <1>4, <2>1, <2>2, <2>3 DEF Script, Planned, CleanupStep
<1>5. CASE p.kind = "cleanup"
  <2>1. p.todo \in Seq(CleanupStep)
    BY <1>5 DEF Planned
  <2>2. Head(p.todo) \in CleanupStep /\ Tail(p.todo) \in Seq(CleanupStep)
    BY <2>1, HeadTailProperties
  <2> QED
    BY <1>5, <2>2 DEF Script, Planned, CleanupStep
<1> QED
  BY <1>1, <1>2, <1>3, <1>4, <1>5 DEF Kinds

---------------------------------------------------------------------------
\* The table of the scripts stays one when a script goes on, fails, begins or
\* dies, or when the scripts of an agent are stirred.
Shape == proc \in [Scripts -> Script] /\ PlanInv

LEMMA DeployAt ==
  ASSUME TypeInv, PlanInv, NEW s \in Scripts,
         \/ At(s, "role") \/ At(s, "grant") \/ At(s, "apply")
         \/ At(s, "await") \/ At(s, "record")
  PROVE  /\ proc[s] \in Script /\ proc[s].kind = "deploy"
         /\ proc[s].todo \in DeployPlans \ {<<>>}
         /\ proc[s].agent = subject /\ subject \in Agents
<1>1. proc[s] \in Script /\ Planned(proc[s]) /\ proc[s].todo # <<>>
  BY DEF TypeInv, PlanInv, At
<1>2. Head(proc[s].todo) \in {"role", "grant", "apply", "await", "record"}
  BY DEF At
<1> QED
  BY <1>1, <1>2, Position DEF PlanInv, TypeInv

LEMMA ShapeGoes ==
  ASSUME TypeInv, PlanInv, subject' = subject, NEW s \in Scripts,
         proc[s].todo # <<>>, NEW q \in Script, q.kind = proc[s].kind,
         q.agent = proc[s].agent, q.todo = proc[s].todo, Goes(s, q)
  PROVE  Shape'
<1> DEFINE r == [q EXCEPT !.todo = Tail(@)]
<1>1. Planned(q) /\ q.todo # <<>>
  BY DEF PlanInv, Planned
<1>2. r \in Script /\ Planned(r)
  BY <1>1, Position DEF Script
<1>3. r.kind = q.kind /\ r.agent = q.agent
  BY DEF Script
<1>4. proc' = [proc EXCEPT ![s] = r]
  BY DEF Goes
<1> HIDE DEF r
<1> QED
  BY <1>2, <1>3, <1>4 DEF Shape, PlanInv, TypeInv

LEMMA ShapeGoesOn ==
  ASSUME TypeInv, PlanInv, subject' = subject, NEW s \in Scripts,
         proc[s].todo # <<>>, GoesOn(s)
  PROVE  Shape'
  BY ShapeGoes DEF GoesOn, TypeInv

LEMMA ShapeFails ==
  ASSUME TypeInv, PlanInv, subject' = subject, NEW s \in Scripts,
         NEW calm \in BOOLEAN, Fails(s, calm)
  PROVE  Shape'
<1> DEFINE r == [proc[s] EXCEPT !.todo = <<>>, !.ok = FALSE, !.calm = @ /\ calm]
<1>1. proc' = [proc EXCEPT ![s] = r]
  BY DEF Fails, TypeInv
<1>2. r \in Script
  BY DEF TypeInv, Script, DeployPlans
<1>3. r.kind = proc[s].kind /\ r.agent = proc[s].agent /\ r.todo = <<>>
  BY DEF TypeInv, Script
<1>4. Planned(r)
  BY <1>3 DEF Planned, DeployPlans, KeyPlans, ConfigurePlans
<1> HIDE DEF r
<1> QED
  BY <1>1, <1>2, <1>3, <1>4 DEF Shape, PlanInv, TypeInv

LEMMA ShapeStirred ==
  ASSUME TypeInv, PlanInv, NEW a
  PROVE  /\ Stirred(a) \in [Scripts -> Script]
         /\ \A t \in Scripts :
              /\ Stirred(a)[t].kind = proc[t].kind
              /\ Stirred(a)[t].agent = proc[t].agent
              /\ Stirred(a)[t].todo = proc[t].todo
              /\ Stirred(a)[t].ok = proc[t].ok
              /\ Stirred(a)[t].id = proc[t].id
              /\ Stirred(a)[t].key = proc[t].key
              /\ Stirred(a)[t].arns = proc[t].arns
              /\ Planned(Stirred(a)[t])
              /\ Stirred(a)[t].calm => proc[t].calm /\ t \notin Busy(a)
<1> SUFFICES ASSUME NEW t \in Scripts
             PROVE  /\ Stirred(a)[t] \in Script
                    /\ Stirred(a)[t].kind = proc[t].kind
                    /\ Stirred(a)[t].agent = proc[t].agent
                    /\ Stirred(a)[t].todo = proc[t].todo
                    /\ Stirred(a)[t].ok = proc[t].ok
                    /\ Stirred(a)[t].id = proc[t].id
                    /\ Stirred(a)[t].key = proc[t].key
                    /\ Stirred(a)[t].arns = proc[t].arns
                    /\ Planned(Stirred(a)[t])
                    /\ Stirred(a)[t].calm => proc[t].calm /\ t \notin Busy(a)
  BY DEF Stirred
<1>1. proc[t] \in Script /\ Planned(proc[t])
  BY DEF TypeInv, PlanInv
<1>2. CASE t \in Busy(a)
  BY <1>1, <1>2 DEF Stirred, Script, Planned
<1>3. CASE t \notin Busy(a)
  BY <1>1, <1>3 DEF Stirred
<1> QED
  BY <1>2, <1>3

LEMMA ShapeBegins ==
  ASSUME TypeInv, PlanInv, NEW s \in Scripts, NEW p \in Script, Planned(p),
         p.agent = IF p.kind \in {"deploy", "cleanup"} THEN subject ELSE "none",
         Begins(s, p)
  PROVE  Shape' /\ proc'[s] = [p EXCEPT !.calm = Busy(p.agent) = {}]
<1> DEFINE r == [p EXCEPT !.calm = Busy(p.agent) = {}]
<1>1. r \in Script /\ Planned(r) /\ r.kind = p.kind /\ r.agent = p.agent
  BY DEF Script, Planned
<1>2. proc' = [Stirred(p.agent) EXCEPT ![s] = r] /\ subject' = subject
  BY DEF Begins
<1> HIDE DEF r
<1>3. proc' \in [Scripts -> Script] /\ proc'[s] = r
  BY <1>1, <1>2, ShapeStirred
<1>4. \A t \in Scripts \ {s} : proc'[t] = Stirred(p.agent)[t]
  BY <1>2, ShapeStirred
<1>5. PlanInv'
  <2> SUFFICES ASSUME NEW t \in Scripts
               PROVE  /\ Planned(proc'[t])
                      /\ proc'[t].agent = IF proc'[t].kind \in {"deploy", "cleanup"}
                                          THEN subject ELSE "none"
    BY <1>2 DEF PlanInv, Planned
  <2>1. CASE t = s
    BY <2>1, <1>1, <1>3
  <2>2. CASE t # s
    BY <2>2, <1>4, ShapeStirred DEF PlanInv
  <2> QED
    BY <2>1, <2>2
<1> QED
  BY <1>3, <1>5 DEF Shape, r

\* A script that is over, or has never begun.
LEMMA IdleIsScript ==
  Idle \in Script /\ Planned(Idle) /\ Idle.kind = "none" /\ Idle.agent = "none"
       /\ Idle.todo = <<>>
  BY DEF Idle, Script, Kinds, Planned, DeployPlans, Ids, Nothing

\* A script begins at the beginning of a plan.
Fresh(p) ==
  /\ p \in Script /\ Planned(p) /\ p.ok
  /\ p.agent = IF p.kind \in {"deploy", "cleanup"} THEN subject ELSE "none"
  /\ p.kind = "deploy" => p.todo = DeploySteps
  /\ p.kind = "key" => p.todo \in {<<"ensure", "store", "sidecar">>, <<"provider", "forget">>}
  /\ p.kind = "configure" => p.todo = <<"collect", "replace", "pin">>

LEMMA StartsFresh ==
  ASSUME DeploymentAssumption, TypeInv, NEW s \in Scripts, Starts(s)
  PROVE  \E p : Fresh(p) /\ Begins(s, p)
<1> USE DEF Idle, Script, Kinds, Planned, Fresh, Ids, Nothing
<1>1. CASE \E exported \in Exports : Deploy(s, exported)
  <2>1. PICK exported \in Exports : Deploy(s, exported)
    BY <1>1
  <2> DEFINE p == [Idle EXCEPT !.kind = "deploy", !.agent = subject,
                      !.todo = DeploySteps, !.exported = exported, !.ap = ap]
  <2>2. Fresh(p)
    BY DEF TypeInv, DeploymentAssumption, DeploySteps, DeployPlans
  <2> QED
    BY <2>1, <2>2 DEF Deploy
<1>2. CASE \E keep \in BOOLEAN : Cleanup(s, keep)
  <2>1. PICK keep \in BOOLEAN : Cleanup(s, keep)
    BY <1>2
  <2> DEFINE p == [Idle EXCEPT !.kind = "cleanup", !.agent = subject,
                      !.todo = CleanupSteps(subject, keep), !.id = record[subject]]
  <2>2. Fresh(p)
    BY Cleanups DEF TypeInv
  <2> QED
    BY <2>1, <2>2 DEF Cleanup
<1>3. CASE \E k \in Keys : SaveKey(s, k)
  <2>1. PICK k \in Keys : SaveKey(s, k)
    BY <1>3
  <2> DEFINE p == [Idle EXCEPT !.kind = "key", !.todo = SaveSteps, !.key = k]
  <2>2. Fresh(p)
    BY DEF SaveSteps, KeyPlans
  <2> QED
    BY <2>1, <2>2 DEF SaveKey
<1>4. CASE ClearKey(s)
  <2> DEFINE p == [Idle EXCEPT !.kind = "key", !.todo = <<"provider", "forget">>]
  <2>1. Fresh(p)
    BY DEF KeyPlans, NoKey
  <2> QED
    BY <1>4, <2>1 DEF ClearKey
<1>5. CASE Configure(s)
  <2> DEFINE p == [Idle EXCEPT !.kind = "configure",
                               !.todo = <<"collect", "replace", "pin">>]
  <2>1. Fresh(p)
    BY DEF ConfigurePlans, NoKey
  <2> QED
    BY <1>5, <2>1 DEF Configure
<1> QED
  BY <1>1, <1>2, <1>3, <1>4, <1>5 DEF Starts

\* An update of the subject's runtime.
LEMMA UpdateSets ==
  ASSUME TypeInv, NEW status \in Ends,
         NEW uses \in SUBSET {"mount", "gateway", "model", "mantle", "users", "key"},
         runtime' = [runtime EXCEPT ![subject].status = status, ![subject].uses = uses]
  PROVE  /\ runtime' \in [Agents -> Run]
         /\ runtime'[subject].status = status
         /\ runtime'[subject].uses = uses
         /\ runtime'[subject].id = runtime[subject].id
         /\ \A b \in Agents \ {subject} : runtime'[b] = runtime[b]
<1> DEFINE q == [runtime[subject] EXCEPT !.status = status, !.uses = uses]
<1>1. q \in Run /\ q.status = status /\ q.uses = uses /\ q.id = runtime[subject].id
  BY DEF Run, TypeInv
<1>2. runtime' = [runtime EXCEPT ![subject] = q]
  BY DEF Run, TypeInv
<1>3. runtime \in [Agents -> Run] /\ subject \in Agents
  BY DEF TypeInv
<1> HIDE DEF q
<1> QED
  BY <1>1, <1>2, <1>3

\* What a deployment configures the subject's runtime with is of the type.
LEMMA UsesAreTyped ==
  ASSUME TypeInv, NEW s \in Scripts
  PROVE  /\ Uses(subject, proc[s].exported, proc[s].ap)
              \in SUBSET {"mount", "gateway", "model", "mantle", "users", "key"}
         /\ {Needs(u) : u \in Uses(subject, proc[s].exported, proc[s].ap)}
              \subseteq Role(subject)
<1>1. /\ proc[s].exported \in SUBSET {"gateway", "model"} /\ proc[s].ap \in BOOLEAN
      /\ subject \in Agents
  BY DEF Script, TypeInv
<1> QED
  BY <1>1, RoleGrantsUses

\* A step keeps the types and the plans.
LEMMA ShapeStep ==
  IInv /\ [Next]_vars => TypeInv' /\ PlanInv'
<1> SUFFICES ASSUME IInv, [Next]_vars PROVE TypeInv' /\ Shape'
  BY DEF Shape
<1> USE DeploymentAssumption
     DEF IInv, iam, registry, identity, files, console, planned, fixed
<1>1. ASSUME NEW s \in Scripts, Starts(s) PROVE TypeInv' /\ Shape'
  <2>1. PICK p : Fresh(p) /\ Begins(s, p)
    BY <1>1, StartsFresh
  <2>2. Shape'
    BY <2>1, ShapeBegins DEF Fresh
  <2> QED
    BY <2>1, <2>2 DEF Begins, TypeInv, Shape
<1>2. ASSUME NEW s \in Scripts, Grant(s) PROVE TypeInv' /\ Shape'
  <2>1. policy' \in [Agents -> Policy]
    <3>1. Role(subject) \in SUBSET Statements
      BY DEF Statements, TypeInv
    <3>2. Scope(proc[s].ap) \in {"nothing", "point", "account"}
      BY DEF Scope
    <3>3. proc[s].agent = subject
      BY <1>2, DeployAt DEF Grant
    <3>4. [grants |-> Role(subject), scope |-> Scope(proc[s].ap)] \in Policy
      BY <3>1, <3>2 DEF Policy
    <3>5. \/ UNCHANGED policy
          \/ policy' = [policy EXCEPT ![subject] =
                          [grants |-> Role(subject), scope |-> Scope(proc[s].ap)]]
      BY <1>2, <3>3 DEF Grant
    <3> QED
      BY <3>4, <3>5 DEF TypeInv
  <2>2. Shape'
    BY <1>2, ShapeGoesOn, ShapeFails DEF Grant, At
  <2> QED
    BY <1>2, <2>1, <2>2 DEF Grant, TypeInv, Shape
<1>3. ASSUME NEW s \in Scripts, Apply(s) PROVE TypeInv' /\ Shape'
  <2>1. proc[s] \in Script /\ proc[s].agent = subject /\ subject \in Agents
    BY <1>3, DeployAt DEF Apply
  <2> DEFINE u == Uses(subject, proc[s].exported, proc[s].ap)
  <2>5. u \in SUBSET {"mount", "gateway", "model", "mantle", "users", "key"}
    BY UsesAreTyped
  <2>2. CASE Update(s, subject)
    <3>1. runtime' \in [Agents -> Run]
      <4>1. runtime \in [Agents -> Run] /\ "UPDATING" \in Ends
        BY DEF TypeInv, Ends
      <4>2. \/ UNCHANGED runtime
            \/ runtime' = [runtime EXCEPT ![subject].status = "UPDATING",
                                          ![subject].uses = u]
        BY <2>2 DEF Update
      <4> HIDE DEF u
      <4> QED
        BY <4>1, <4>2, <2>5, UpdateSets
    <3>2. Shape'
      <4>1. CASE Fails(s, TRUE)
        BY <4>1, <1>3, ShapeFails DEF Apply
      <4>2. CASE Goes(s, [proc[s] EXCEPT !.id = runtime[subject].id])
        <5>1. runtime[subject].id \in Ids
          BY <2>1 DEF TypeInv, Run, Ids
        <5> QED
          BY <4>2, <5>1, <2>1, <1>3, ShapeGoes DEF Apply, At, Script
      <4> QED
        BY <2>2, <4>1, <4>2 DEF Update
    <3> QED
      BY <1>3, <2>2, <3>1, <3>2 DEF Apply, Update, TypeInv, Shape
  <2>3. CASE Create(s, subject)
    <3>1. runtime' \in [Agents -> Run] /\ made' \in Nat
      <4>1. [id |-> made + 1, status |-> "CREATING", uses |-> u] \in Run
        <5> HIDE DEF u
        <5> QED
          BY <2>5 DEF TypeInv, Run, Ends
      <4> QED
        BY <2>1, <2>3, <4>1 DEF Create, TypeInv
    <3>2. made + 1 \in Ids
      BY DEF TypeInv, Ids
    <3>3. Shape'
      BY <2>1, <2>3, <3>2, <1>3, ShapeGoes DEF Apply, At, Script, Create
    <3> QED
      BY <1>3, <3>1, <3>3 DEF Apply, TypeInv, Shape
  <2>4. CASE \E calm \in BOOLEAN : Fails(s, calm) /\ UNCHANGED <<runtime, made>>
    <3>1. Shape'
      BY <1>3, <2>4, ShapeFails DEF Apply
    <3> QED
      BY <1>3, <2>4, <3>1 DEF Apply, TypeInv, Shape
  <2> QED
    BY <1>3, <2>1, <2>2, <2>3, <2>4 DEF Apply, Conflict
<1>4. ASSUME NEW s \in Scripts, Await(s) PROVE TypeInv' /\ Shape'
  <2>1. Shape'
    BY <1>4, ShapeGoesOn, ShapeFails DEF Await, At
  <2> QED
    BY <1>4, <2>1 DEF Await, TypeInv, Shape
<1>5. ASSUME NEW s \in Scripts, Record(s) PROVE TypeInv' /\ Shape'
  <2>1. Shape'
    BY <1>5, ShapeGoesOn DEF Record, At
  <2> QED
    BY <1>5, <2>1 DEF Record, TypeInv, Shape, Script
<1>6. ASSUME NEW s \in Scripts, Delete(s) PROVE TypeInv' /\ Shape'
  <2>1. Shape'
    BY <1>6, ShapeGoesOn DEF Delete, At, BestEffort
  <2> QED
    BY <1>6, <2>1 DEF Delete, TypeInv, Shape, BestEffort, NoRuntime, Nothing, Run
<1>7. ASSUME NEW s \in Scripts, Revoke(s) PROVE TypeInv' /\ Shape'
  <2>1. CASE GoesOn(s)
    <3>1. Shape'
      BY <1>7, <2>1, ShapeGoesOn DEF Revoke, At
    <3>2. policy' \in [Agents -> Policy]
      <4>1. NoPolicy \in Policy
        BY DEF NoPolicy, Policy
      <4> QED
        BY <1>7, <4>1 DEF Revoke, TypeInv
    <3> QED
      BY <1>7, <3>1, <3>2 DEF Revoke, TypeInv, Shape
  <2>2. CASE Goes(s, [proc[s] EXCEPT !.ok = FALSE])
    <3> DEFINE q == [proc[s] EXCEPT !.ok = FALSE]
    <3>1. /\ q \in Script /\ q.kind = proc[s].kind
          /\ q.agent = proc[s].agent /\ q.todo = proc[s].todo
      <4>1. proc[s] \in Script
        BY DEF TypeInv
      <4> QED
        BY <4>1 DEF Script
    <3>2. Goes(s, q)
      BY <2>2
    <3> HIDE DEF q
    <3>3. Shape'
      BY <1>7, <3>1, <3>2, ShapeGoes DEF Revoke, At
    <3>4. policy' \in [Agents -> Policy]
      <4>1. NoPolicy \in Policy
        BY DEF NoPolicy, Policy
      <4> QED
        BY <1>7, <4>1 DEF Revoke, TypeInv
    <3> QED
      BY <1>7, <3>3, <3>4 DEF Revoke, TypeInv, Shape
  <2> QED
    BY <1>7, <2>1, <2>2 DEF Revoke
<1>8. ASSUME NEW s \in Scripts, DropImage(s) PROVE TypeInv' /\ Shape'
  <2>1. Shape'
    BY <1>8, ShapeGoesOn DEF DropImage, At, BestEffort
  <2> QED
    BY <1>8, <2>1 DEF DropImage, TypeInv, Shape, BestEffort
<1>9. ASSUME NEW s \in Scripts, Unrecord(s) PROVE TypeInv' /\ Shape'
  <2>1. Shape'
    BY <1>9, ShapeGoesOn DEF Unrecord, At
  <2> QED
    BY <1>9, <2>1 DEF Unrecord, TypeInv, Shape, Ids, Nothing
<1>10. ASSUME NEW s \in Scripts, Unset(s) PROVE TypeInv' /\ Shape'
  <2>1. Shape'
    BY <1>10, ShapeGoesOn DEF Unset, At
  <2> QED
    BY <1>10, <2>1 DEF Unset, TypeInv, Shape
<1>11. ASSUME NEW s \in Scripts, DropProvider(s) PROVE TypeInv' /\ Shape'
  <2>1. Shape'
    BY <1>11, ShapeGoesOn DEF DropProvider, At, BestEffort
  <2> QED
    BY <1>11, <2>1 DEF DropProvider, TypeInv, Shape, BestEffort
<1>12. ASSUME NEW s \in Scripts, DropWorkload(s) PROVE TypeInv' /\ Shape'
  <2>1. Shape'
    BY <1>12, ShapeGoesOn DEF DropWorkload, At, BestEffort
  <2> QED
    BY <1>12, <2>1 DEF DropWorkload, TypeInv, Shape, BestEffort
<1>13. ASSUME NEW s \in Scripts, Ensure(s) PROVE TypeInv' /\ Shape'
  <2>1. Shape'
    BY <1>13, ShapeGoesOn DEF Ensure, At, BestEffort
  <2> QED
    BY <1>13, <2>1 DEF Ensure, TypeInv, Shape, BestEffort
<1>14. ASSUME NEW s \in Scripts, Store(s) PROVE TypeInv' /\ Shape'
  <2>1. Shape'
    BY <1>14, ShapeGoesOn, ShapeFails DEF Store, At
  <2> QED
    BY <1>14, <2>1 DEF Store, TypeInv, Shape
<1>15. ASSUME NEW s \in Scripts, WriteStatus(s) PROVE TypeInv' /\ Shape'
  <2>1. Shape'
    BY <1>15, ShapeGoesOn DEF WriteStatus, At
  <2> QED
    BY <1>15, <2>1 DEF WriteStatus, TypeInv, Shape
<1>16. ASSUME NEW s \in Scripts, Forget(s) PROVE TypeInv' /\ Shape'
  <2>1. Shape'
    BY <1>16, ShapeGoesOn DEF Forget, At
  <2> QED
    BY <1>16, <2>1 DEF Forget, TypeInv, Shape
<1>17. ASSUME NEW s \in Scripts, Collect(s) PROVE TypeInv' /\ Shape'
  <2>1. CASE Fails(s, FALSE)
    BY <1>17, <2>1, ShapeFails DEF Collect, TypeInv, Shape
  <2>2. CASE Goes(s, [proc[s] EXCEPT !.arns = [a \in Coordinated |-> record[a]]])
    <3>1. [a \in Coordinated |-> record[a]] \in [Coordinated -> Ids]
      BY DEF TypeInv, Coordinated, Agents, Adopters
    <3> DEFINE q == [proc[s] EXCEPT !.arns = [a \in Coordinated |-> record[a]]]
    <3>2. /\ q \in Script /\ q.kind = proc[s].kind
          /\ q.agent = proc[s].agent /\ q.todo = proc[s].todo
      <4> DEFINE f == [a \in Coordinated |-> record[a]]
      <4>1. f \in {<<>>} \cup [Coordinated -> Ids] /\ proc[s] \in Script
        BY <3>1 DEF TypeInv
      <4> HIDE DEF f
      <4> QED
        BY <4>1 DEF Script, f
    <3>3. Goes(s, q)
      BY <2>2
    <3> HIDE DEF q
    <3>4. Shape'
      BY <1>17, <3>2, <3>3, ShapeGoes DEF Collect, At
    <3> QED
      BY <1>17, <3>4 DEF Collect, TypeInv, Shape
  <2> QED
    BY <1>17, <2>1, <2>2 DEF Collect
<1>18. ASSUME NEW s \in Scripts, Replace(s) PROVE TypeInv' /\ Shape'
  <2>1. Shape'
    BY <1>18, ShapeGoesOn DEF Replace, At
  <2> QED
    BY <1>18, <2>1 DEF Replace, TypeInv, Shape
<1>19. ASSUME NEW s \in Scripts, Pin(s) PROVE TypeInv' /\ Shape'
  <2>1. Shape'
    BY <1>19, ShapeGoesOn DEF Pin, At
  <2> QED
    BY <1>19, <2>1 DEF Pin, TypeInv, Shape
<1>20. ASSUME NEW s \in Scripts, Die(s) PROVE TypeInv' /\ Shape'
  <2>1. Shape'
    BY <1>20, IdleIsScript DEF Die, TypeInv, PlanInv, Shape
  <2> QED
    <3>1. record' \in [Agents -> Ids]
      BY <1>20 DEF Die, TypeInv, Ids, Cut
    <3>2. shelf' \in [Agents -> Ids]
      BY <1>20 DEF Die, TypeInv, Ids, Nothing
    <3> QED
      BY <1>20, <2>1, <3>1, <3>2 DEF Die, TypeInv, Shape
<1>21. CASE Settle(subject)
  <2>1. Shape'
    BY <1>21, ShapeStirred DEF Settle, TypeInv, PlanInv, Shape
  <2> QED
    <3>1. runtime' \in [Agents -> Run]
      <4>1. \E status \in Ends : runtime' = [runtime EXCEPT ![subject].status = status]
        BY <1>21 DEF Settle, Ends
      <4>2. ASSUME NEW status \in Ends
            PROVE  [runtime EXCEPT ![subject].status = status] \in [Agents -> Run]
        BY DEF TypeInv, Run
      <4> QED
        BY <4>1, <4>2
    <3> QED
      BY <1>21, <2>1, <3>1 DEF Settle, TypeInv, Shape
<1>22. CASE ShelfDeploy(subject)
  BY <1>22 DEF ShelfDeploy, TypeInv, PlanInv, Shape, Real, Ids, Nothing
<1>23. CASE ShelfReset
  BY <1>23 DEF ShelfReset, TypeInv, PlanInv, Shape, Ids, Nothing
<1>24. CASE Setup(subject)
  <2>1. Shape'
    BY <1>24, ShapeStirred DEF Setup, TypeInv, PlanInv, Shape
  <2> QED
    BY <1>24, <2>1 DEF Setup, TypeInv, Shape
<1>25. CASE NameAccessPoint
  BY <1>25 DEF NameAccessPoint, TypeInv, PlanInv, Shape
<1>26. CASE UNCHANGED vars
  BY <1>26 DEF vars, TypeInv, PlanInv, Shape
<1>27. ASSUME NEW s \in Scripts, MakeRole(s) PROVE TypeInv' /\ Shape'
  <2>1. Shape'
    BY <1>27, ShapeGoesOn, ShapeFails DEF MakeRole, At
  <2>2. proc[s].agent \in Agents
    BY <1>27, DeployAt DEF MakeRole
  <2> QED
    BY <1>27, <2>1, <2>2 DEF MakeRole, TypeInv, Shape
<1>28. ASSUME NEW s \in Scripts, DropRole(s) PROVE TypeInv' /\ Shape'
  <2>1. Shape'
    BY <1>28, ShapeGoesOn DEF DropRole, At, BestEffort
  <2> QED
    BY <1>28, <2>1 DEF DropRole, TypeInv, Shape, BestEffort
<1> QED
  BY <1>1, <1>2, <1>3, <1>4, <1>5, <1>6, <1>7, <1>8, <1>9, <1>10, <1>11,
     <1>12, <1>13, <1>14, <1>15, <1>16, <1>17, <1>18, <1>19, <1>20, <1>21,
     <1>22, <1>23, <1>24, <1>25, <1>26, <1>27, <1>28
     DEF Next, Step

---------------------------------------------------------------------------
\* What a step does to a script: nothing, but that it may be stirred; it ends
\* it; it begins it; or it is a step of the script.
Same(t) ==
  /\ proc'[t].kind = proc[t].kind /\ proc'[t].agent = proc[t].agent
  /\ proc'[t].key = proc[t].key

Keeps(t) ==
  /\ Same(t) /\ proc'[t].todo = proc[t].todo /\ proc'[t].ok = proc[t].ok
  /\ proc'[t].id = proc[t].id /\ proc'[t].arns = proc[t].arns
  /\ proc'[t].calm => proc[t].calm

Ended(t) ==
  /\ proc'[t].todo = <<>>
  /\ proc'[t].ok \/ (Step(t) /\ \E calm \in BOOLEAN : Fails(t, calm))

New(t) ==
  /\ \E p : Fresh(p) /\ Begins(t, p) /\ proc'[t] = [p EXCEPT !.calm = Busy(p.agent) = {}]
  /\ proc'[t].todo # <<>>
  /\ proc'[t].kind = "deploy" => proc'[t].todo = DeploySteps
  /\ Head(proc'[t].todo) \notin {"grant", "apply", "await", "record", "sidecar", "replace"}

On(t) ==
  /\ Step(t) /\ Same(t) /\ proc[t].todo # <<>> /\ proc'[t].todo = Tail(proc[t].todo)
  /\ proc'[t].calm = proc[t].calm
  /\ proc'[t].ok = proc[t].ok \/ At(t, "revoke")
  /\ proc'[t].id = proc[t].id \/ At(t, "apply")
  /\ proc'[t].arns = proc[t].arns \/ At(t, "collect")

LEMMA GoesMoves ==
  ASSUME TypeInv, NEW s \in Scripts, proc[s].todo # <<>>, GoesOn(s), Step(s)
  PROVE  On(s) /\ \A t \in Scripts \ {s} : Keeps(t)
<1>1. proc \in [Scripts -> Script]
  BY DEF TypeInv
<1>2. proc' = [proc EXCEPT ![s] = [proc[s] EXCEPT !.todo = Tail(@)]]
  BY DEF GoesOn, Goes
<1> QED
  BY <1>1, <1>2 DEF On, Keeps, Same, Script

LEMMA FailsEnds ==
  ASSUME TypeInv, NEW s \in Scripts, NEW calm \in BOOLEAN, Fails(s, calm), Step(s)
  PROVE  /\ Ended(s) /\ \A t \in Scripts \ {s} : Keeps(t)
         /\ ~proc'[s].ok /\ (proc'[s].calm => calm)
<1>1. proc \in [Scripts -> Script]
  BY DEF TypeInv
<1>2. proc' = [proc EXCEPT ![s] = [proc[s] EXCEPT !.todo = <<>>, !.ok = FALSE,
                                                  !.calm = @ /\ calm]]
  BY <1>1 DEF Fails
<1> QED
  BY <1>1, <1>2 DEF Ended, Keeps, Same, Script

LEMMA StirredKeeps ==
  ASSUME TypeInv, PlanInv, NEW a, proc' = Stirred(a)
  PROVE  \A t \in Scripts : Keeps(t)
  BY ShapeStirred DEF Keeps, Same

LEMMA BeginsNew ==
  ASSUME TypeInv, PlanInv, NEW s \in Scripts, NEW p, Fresh(p), Begins(s, p)
  PROVE  (Ended(s) \/ New(s)) /\ \A t \in Scripts \ {s} : Keeps(t)
<1>1. proc'[s] = [p EXCEPT !.calm = Busy(p.agent) = {}]
  BY ShapeBegins DEF Fresh
<1>2. proc'[s].todo = p.todo /\ proc'[s].kind = p.kind
  BY <1>1 DEF Fresh, Script
<1>3. p.todo # <<>> =>
        Head(p.todo) \notin {"grant", "apply", "await", "record", "sidecar", "replace"}
  <2>1. CASE p.kind = "deploy"
    BY <2>1 DEF Fresh, DeploySteps
  <2>2. CASE p.kind = "key"
    BY <2>2 DEF Fresh
  <2>3. CASE p.kind = "configure"
    BY <2>3 DEF Fresh
  <2>4. CASE p.kind = "cleanup"
    BY <2>4, HeadTailProperties DEF Fresh, Planned, CleanupStep
  <2> QED
    BY <2>1, <2>2, <2>3, <2>4 DEF Fresh, Script, Kinds, Planned
<1>4. \A t \in Scripts \ {s} : proc'[t] = Stirred(p.agent)[t]
  BY ShapeStirred DEF Begins
<1>5. \A t \in Scripts \ {s} : Keeps(t)
  BY <1>4, ShapeStirred DEF Keeps, Same
<1> QED
  BY <1>1, <1>2, <1>3, <1>5 DEF Ended, New, Fresh, Script

\* Each script is kept, ended, begun or taken a step on, and what has been
\* READY or in the vault is not forgotten.
LEMMA Moves ==
  ASSUME IInv, [Next]_vars
  PROVE  /\ \A t \in Scripts : Keeps(t) \/ Ended(t) \/ New(t) \/ On(t)
         /\ subject' = subject /\ ready \subseteq ready' /\ held \subseteq held'
<1> DEFINE G == /\ \A t \in Scripts : Keeps(t) \/ Ended(t) \/ New(t) \/ On(t)
                /\ subject' = subject /\ ready \subseteq ready' /\ held \subseteq held'
<1> USE DeploymentAssumption
     DEF iam, registry, identity, files, console, planned, fixed
<1>0. TypeInv /\ PlanInv /\ proc \in [Scripts -> Script]
  BY DEF IInv, TypeInv
<1>1. ASSUME NEW s \in Scripts, Starts(s) PROVE G
  <2>1. PICK p : Fresh(p) /\ Begins(s, p)
    BY <1>0, <1>1, StartsFresh
  <2> QED
    BY <1>0, <2>1, BeginsNew DEF Begins
<1>2. ASSUME NEW s \in Scripts, Grant(s) PROVE G
  BY <1>0, <1>2, GoesMoves, FailsEnds DEF Grant, At, Step
<1>3. ASSUME NEW s \in Scripts, Apply(s) PROVE G
  <2>1. proc[s].agent = subject /\ proc[s].todo # <<>>
    BY <1>0, <1>3, DeployAt DEF Apply, At
  <2>2. CASE \E calm \in BOOLEAN : Fails(s, calm)
    BY <1>0, <1>3, <2>2, FailsEnds DEF Apply, Step
  <2>3. CASE \E id : Goes(s, [proc[s] EXCEPT !.id = id])
    <3>1. PICK id : Goes(s, [proc[s] EXCEPT !.id = id])
      BY <2>3
    <3>2. proc' = [proc EXCEPT ![s] = [[proc[s] EXCEPT !.id = id] EXCEPT !.todo = Tail(@)]]
      BY <3>1 DEF Goes
    <3>3. On(s) /\ \A t \in Scripts \ {s} : Keeps(t)
      <4> DEFINE r == [[proc[s] EXCEPT !.id = id] EXCEPT !.todo = Tail(@)]
      <4>1. /\ r.todo = Tail(proc[s].todo) /\ r.kind = proc[s].kind
            /\ r.agent = proc[s].agent /\ r.key = proc[s].key /\ r.ok = proc[s].ok
            /\ r.calm = proc[s].calm /\ r.arns = proc[s].arns
        BY <1>0 DEF Script
      <4>2. proc' = [proc EXCEPT ![s] = r]
        BY <3>2
      <4>3. Step(s) /\ At(s, "apply") /\ proc[s].todo # <<>>
        BY <1>3 DEF Step, Apply, At
      <4> HIDE DEF r
      <4> QED
        BY <1>0, <4>1, <4>2, <4>3 DEF On, Keeps, Same
    <3> QED
      BY <1>3, <3>3 DEF Apply
  <2> QED
    BY <1>3, <2>2, <2>3 DEF Apply, Update, Create, Conflict
<1>4. ASSUME NEW s \in Scripts, Await(s) PROVE G
  BY <1>0, <1>4, GoesMoves, FailsEnds DEF Await, At, Step
<1>5. ASSUME NEW s \in Scripts, Record(s) PROVE G
  BY <1>0, <1>5, GoesMoves DEF Record, At, Step
<1>6. ASSUME NEW s \in Scripts, Delete(s) PROVE G
  BY <1>0, <1>6, GoesMoves DEF Delete, At, Step, BestEffort
<1>7. ASSUME NEW s \in Scripts, Revoke(s) PROVE G
  <2>1. CASE GoesOn(s)
    BY <1>0, <1>7, <2>1, GoesMoves DEF Revoke, At, Step
  <2>2. CASE Goes(s, [proc[s] EXCEPT !.ok = FALSE])
    <3> DEFINE r == [[proc[s] EXCEPT !.ok = FALSE] EXCEPT !.todo = Tail(@)]
    <3>1. /\ r.todo = Tail(proc[s].todo) /\ r.kind = proc[s].kind
          /\ r.agent = proc[s].agent /\ r.key = proc[s].key /\ r.id = proc[s].id
          /\ r.calm = proc[s].calm /\ r.arns = proc[s].arns
      BY <1>0 DEF Script
    <3>2. proc' = [proc EXCEPT ![s] = r]
      BY <2>2 DEF Goes
    <3>3. Step(s) /\ At(s, "revoke") /\ proc[s].todo # <<>>
      BY <1>7 DEF Step, Revoke, At
    <3> HIDE DEF r
    <3>4. On(s) /\ \A t \in Scripts \ {s} : Keeps(t)
      BY <1>0, <3>1, <3>2, <3>3 DEF On, Keeps, Same
    <3> QED
      BY <1>7, <3>4 DEF Revoke
  <2> QED
    BY <1>7, <2>1, <2>2 DEF Revoke
<1>8. ASSUME NEW s \in Scripts, DropImage(s) PROVE G
  BY <1>0, <1>8, GoesMoves DEF DropImage, At, Step, BestEffort
<1>9. ASSUME NEW s \in Scripts, Unrecord(s) PROVE G
  BY <1>0, <1>9, GoesMoves DEF Unrecord, At, Step
<1>10. ASSUME NEW s \in Scripts, Unset(s) PROVE G
  BY <1>0, <1>10, GoesMoves DEF Unset, At, Step
<1>11. ASSUME NEW s \in Scripts, DropProvider(s) PROVE G
  BY <1>0, <1>11, GoesMoves DEF DropProvider, At, Step, BestEffort
<1>12. ASSUME NEW s \in Scripts, DropWorkload(s) PROVE G
  BY <1>0, <1>12, GoesMoves DEF DropWorkload, At, Step, BestEffort
<1>13. ASSUME NEW s \in Scripts, Ensure(s) PROVE G
  BY <1>0, <1>13, GoesMoves DEF Ensure, At, Step, BestEffort
<1>14. ASSUME NEW s \in Scripts, Store(s) PROVE G
  BY <1>0, <1>14, GoesMoves, FailsEnds DEF Store, At, Step
<1>15. ASSUME NEW s \in Scripts, WriteStatus(s) PROVE G
  BY <1>0, <1>15, GoesMoves DEF WriteStatus, At, Step
<1>16. ASSUME NEW s \in Scripts, Forget(s) PROVE G
  BY <1>0, <1>16, GoesMoves DEF Forget, At, Step
<1>17. ASSUME NEW s \in Scripts, Collect(s) PROVE G
  <2>1. CASE Fails(s, FALSE)
    BY <1>0, <1>17, <2>1, FailsEnds DEF Collect, Step
  <2>2. CASE Goes(s, [proc[s] EXCEPT !.arns = [a \in Coordinated |-> record[a]]])
    <3> DEFINE f == [a \in Coordinated |-> record[a]]
    <3>1. proc' = [proc EXCEPT ![s] = [[proc[s] EXCEPT !.arns = f] EXCEPT !.todo = Tail(@)]]
      BY <2>2 DEF Goes
    <3> HIDE DEF f
    <3>2. On(s) /\ \A t \in Scripts \ {s} : Keeps(t)
      <4> DEFINE r == [[proc[s] EXCEPT !.arns = f] EXCEPT !.todo = Tail(@)]
      <4>1. /\ r.todo = Tail(proc[s].todo) /\ r.kind = proc[s].kind
            /\ r.agent = proc[s].agent /\ r.key = proc[s].key /\ r.ok = proc[s].ok
            /\ r.calm = proc[s].calm /\ r.id = proc[s].id
        BY <1>0 DEF Script
      <4>2. proc' = [proc EXCEPT ![s] = r]
        BY <3>1
      <4>3. Step(s) /\ At(s, "collect") /\ proc[s].todo # <<>>
        BY <1>17 DEF Step, Collect, At
      <4> HIDE DEF r
      <4> QED
        BY <1>0, <4>1, <4>2, <4>3 DEF On, Keeps, Same
    <3> QED
      BY <1>17, <3>2 DEF Collect
  <2> QED
    BY <1>17, <2>1, <2>2 DEF Collect
<1>18. ASSUME NEW s \in Scripts, Replace(s) PROVE G
  BY <1>0, <1>18, GoesMoves DEF Replace, At, Step
<1>19. ASSUME NEW s \in Scripts, Pin(s) PROVE G
  BY <1>0, <1>19, GoesMoves DEF Pin, At, Step
<1>20. ASSUME NEW s \in Scripts, Die(s) PROVE G
  BY <1>0, <1>20, IdleIsScript DEF Die, Keeps, Same, Ended, Idle
<1>21. CASE Settle(subject)
  <2>1. \A t \in Scripts : Keeps(t)
    BY <1>0, <1>21, StirredKeeps DEF Settle, Keeps, Same
  <2> QED
    BY <1>21, <2>1 DEF Settle
<1>22. CASE ShelfDeploy(subject) \/ ShelfReset \/ NameAccessPoint
  BY <1>22 DEF ShelfDeploy, ShelfReset, NameAccessPoint, Keeps, Same
<1>23. CASE Setup(subject)
  BY <1>0, <1>23, StirredKeeps DEF Setup
<1>24. CASE UNCHANGED vars
  BY <1>24 DEF vars, Keeps, Same
<1>25. ASSUME NEW s \in Scripts, MakeRole(s) PROVE G
  BY <1>0, <1>25, GoesMoves, FailsEnds DEF MakeRole, At, Step
<1>26. ASSUME NEW s \in Scripts, DropRole(s) PROVE G
  BY <1>0, <1>26, GoesMoves DEF DropRole, At, Step, BestEffort
<1> QED
  BY <1>1, <1>2, <1>3, <1>4, <1>5, <1>6, <1>7, <1>8, <1>9, <1>10, <1>11,
     <1>12, <1>13, <1>14, <1>15, <1>16, <1>17, <1>18, <1>19, <1>20, <1>21,
     <1>22, <1>23, <1>24, <1>25, <1>26
     DEF Next, Step

\* What comes after what in a plan.
LEMMA After ==
  ASSUME TypeInv, PlanInv, NEW s \in Scripts, proc[s].todo # <<>>, Tail(proc[s].todo) # <<>>
  PROVE  /\ Head(Tail(proc[s].todo)) = "grant" => At(s, "role")
         /\ Head(Tail(proc[s].todo)) = "apply" => At(s, "grant")
         /\ Head(Tail(proc[s].todo)) = "await" => At(s, "apply")
         /\ Head(Tail(proc[s].todo)) = "record" => At(s, "await")
         /\ Head(Tail(proc[s].todo)) = "sidecar" => At(s, "store")
         /\ Head(Tail(proc[s].todo)) = "replace" => At(s, "collect")
<1>1. Planned(proc[s]) /\ proc[s].kind \in Kinds
  BY DEF PlanInv, TypeInv, Script
<1>2. CASE proc[s].kind = "deploy"
  <2>1. proc[s].todo \in DeployPlans
    BY <1>1, <1>2 DEF Planned
  <2>2. Tail(proc[s].todo) \in DeployPlans
    BY <2>1, DeployPlan DEF DeployPlans
  <2> QED
    BY <2>1, <2>2, DeployPlan DEF At
<1>3. CASE proc[s].kind = "key"
  <2>1. proc[s].todo \in KeyPlans
    BY <1>1, <1>3 DEF Planned
  <2>2. Tail(proc[s].todo) \in KeyPlans
    BY <2>1, KeyPlan DEF KeyPlans
  <2>3. Head(Tail(proc[s].todo)) \in {"ensure", "store", "sidecar", "provider", "forget"}
    BY <2>2, KeyPlan
  <2>4. Head(Tail(proc[s].todo)) = "sidecar" => At(s, "store")
    BY <2>1, <2>2, KeyPlan DEF At
  <2> QED
    BY <2>3, <2>4
<1>4. CASE proc[s].kind = "configure"
  <2>1. proc[s].todo \in ConfigurePlans
    BY <1>1, <1>4 DEF Planned
  <2>2. Tail(proc[s].todo) \in ConfigurePlans
    BY <2>1, ConfigurePlan DEF ConfigurePlans
  <2> QED
    BY <2>1, <2>2, ConfigurePlan DEF At
<1>5. CASE proc[s].kind = "cleanup"
  <2>1. Tail(proc[s].todo) \in Seq(CleanupStep)
    BY <1>1, <1>5, HeadTailProperties DEF Planned
  <2>2. Head(Tail(proc[s].todo)) \in CleanupStep
    BY <2>1, HeadTailProperties
  <2> QED
    BY <2>2 DEF CleanupStep
<1> QED
  BY <1>1, <1>2, <1>3, <1>4, <1>5 DEF Kinds, Planned

\* Which actions write what.
LEMMA Writers ==
  ASSUME [Next]_vars
  PROVE  /\ UNCHANGED runtime \/ Settle(subject)
              \/ \E s \in Scripts : Apply(s) \/ Delete(s)
         /\ UNCHANGED role \/ \E s \in Scripts : MakeRole(s) \/ DropRole(s)
         /\ UNCHANGED <<policy, revoked>> \/ \E s \in Scripts : Grant(s) \/ Revoke(s)
         /\ UNCHANGED image \/ Setup(subject) \/ \E s \in Scripts : DropImage(s)
         /\ UNCHANGED record \/ \E s \in Scripts : Record(s) \/ Unrecord(s) \/ Die(s)
         /\ UNCHANGED shelf \/ ShelfDeploy(subject) \/ ShelfReset
              \/ \E s \in Scripts : Die(s)
         /\ UNCHANGED project \/ \E s \in Scripts : Replace(s)
         /\ UNCHANGED sidecar \/ \E s \in Scripts : WriteStatus(s) \/ Forget(s)
<1> DEFINE G ==
         /\ UNCHANGED runtime \/ Settle(subject)
              \/ \E s \in Scripts : Apply(s) \/ Delete(s)
         /\ UNCHANGED role \/ \E s \in Scripts : MakeRole(s) \/ DropRole(s)
         /\ UNCHANGED <<policy, revoked>> \/ \E s \in Scripts : Grant(s) \/ Revoke(s)
         /\ UNCHANGED image \/ Setup(subject) \/ \E s \in Scripts : DropImage(s)
         /\ UNCHANGED record \/ \E s \in Scripts : Record(s) \/ Unrecord(s) \/ Die(s)
         /\ UNCHANGED shelf \/ ShelfDeploy(subject) \/ ShelfReset
              \/ \E s \in Scripts : Die(s)
         /\ UNCHANGED project \/ \E s \in Scripts : Replace(s)
         /\ UNCHANGED sidecar \/ \E s \in Scripts : WriteStatus(s) \/ Forget(s)
<1> USE DEF iam, registry, identity, files, console, planned, fixed
<1>1. ASSUME NEW s \in Scripts, Starts(s) PROVE G
  BY <1>1 DEF Starts, Deploy, Cleanup, SaveKey, ClearKey, Configure, Begins
<1>2. ASSUME NEW s \in Scripts, Grant(s) PROVE G
  <2>1. UNCHANGED <<runtime, role, image, record, shelf, project, sidecar>>
    BY <1>2 DEF Grant
  <2> QED
    BY <1>2, <2>1
<1>3. ASSUME NEW s \in Scripts, Apply(s) PROVE G
  <2>1. UNCHANGED <<iam, image, record, shelf, project, sidecar>>
    BY <1>3 DEF Apply
  <2> QED
    BY <1>3, <2>1
<1>4. ASSUME NEW s \in Scripts, Await(s) PROVE G
  <2>1. UNCHANGED <<runtime, iam, image, record, shelf, project, sidecar>>
    BY <1>4 DEF Await
  <2> QED
    BY <1>4, <2>1
<1>5. ASSUME NEW s \in Scripts, Record(s) PROVE G
  <2>1. UNCHANGED <<runtime, iam, image, shelf, project, sidecar>>
    BY <1>5 DEF Record
  <2> QED
    BY <1>5, <2>1
<1>6. ASSUME NEW s \in Scripts, Delete(s) PROVE G
  <2>1. UNCHANGED <<iam, image, record, shelf, project, sidecar>>
    BY <1>6 DEF Delete
  <2> QED
    BY <1>6, <2>1
<1>7. ASSUME NEW s \in Scripts, Revoke(s) PROVE G
  <2>1. UNCHANGED <<runtime, role, image, record, shelf, project, sidecar>>
    BY <1>7 DEF Revoke
  <2> QED
    BY <1>7, <2>1
<1>8. ASSUME NEW s \in Scripts, DropImage(s) PROVE G
  <2>1. UNCHANGED <<runtime, iam, record, shelf, project, sidecar>>
    BY <1>8 DEF DropImage
  <2> QED
    BY <1>8, <2>1
<1>9. ASSUME NEW s \in Scripts, Unrecord(s) PROVE G
  <2>1. UNCHANGED <<runtime, iam, image, shelf, project, sidecar>>
    BY <1>9 DEF Unrecord
  <2> QED
    BY <1>9, <2>1
<1>10. ASSUME NEW s \in Scripts, Unset(s) PROVE G
  <2>1. UNCHANGED <<runtime, iam, image, record, shelf, project, sidecar>>
    BY <1>10 DEF Unset
  <2> QED
    BY <1>10, <2>1
<1>11. ASSUME NEW s \in Scripts, DropProvider(s) PROVE G
  <2>1. UNCHANGED <<runtime, iam, image, record, shelf, project, sidecar>>
    BY <1>11 DEF DropProvider
  <2> QED
    BY <1>11, <2>1
<1>12. ASSUME NEW s \in Scripts, DropWorkload(s) PROVE G
  <2>1. UNCHANGED <<runtime, iam, image, record, shelf, project, sidecar>>
    BY <1>12 DEF DropWorkload
  <2> QED
    BY <1>12, <2>1
<1>13. ASSUME NEW s \in Scripts, Ensure(s) PROVE G
  <2>1. UNCHANGED <<runtime, iam, image, record, shelf, project, sidecar>>
    BY <1>13 DEF Ensure
  <2> QED
    BY <1>13, <2>1
<1>14. ASSUME NEW s \in Scripts, Store(s) PROVE G
  <2>1. UNCHANGED <<runtime, iam, image, record, shelf, project, sidecar>>
    BY <1>14 DEF Store
  <2> QED
    BY <1>14, <2>1
<1>15. ASSUME NEW s \in Scripts, WriteStatus(s) PROVE G
  <2>1. UNCHANGED <<runtime, iam, image, record, shelf, project>>
    BY <1>15 DEF WriteStatus
  <2> QED
    BY <1>15, <2>1
<1>16. ASSUME NEW s \in Scripts, Forget(s) PROVE G
  <2>1. UNCHANGED <<runtime, iam, image, record, shelf, project>>
    BY <1>16 DEF Forget
  <2> QED
    BY <1>16, <2>1
<1>17. ASSUME NEW s \in Scripts, Collect(s) PROVE G
  <2>1. UNCHANGED <<runtime, iam, image, record, shelf, project, sidecar>>
    BY <1>17 DEF Collect
  <2> QED
    BY <1>17, <2>1
<1>18. ASSUME NEW s \in Scripts, Replace(s) PROVE G
  <2>1. UNCHANGED <<runtime, iam, image, record, shelf, sidecar>>
    BY <1>18 DEF Replace
  <2> QED
    BY <1>18, <2>1
<1>19. ASSUME NEW s \in Scripts, Pin(s) PROVE G
  <2>1. UNCHANGED <<runtime, iam, image, record, shelf, project, sidecar>>
    BY <1>19 DEF Pin
  <2> QED
    BY <1>19, <2>1
<1>20. ASSUME NEW s \in Scripts, Die(s) PROVE G
  <2>1. UNCHANGED <<runtime, iam, image, project, sidecar>>
    BY <1>20 DEF Die
  <2> QED
    BY <1>20, <2>1
<1>21. CASE Settle(subject)
  <2>1. UNCHANGED <<iam, image, record, shelf, project, sidecar>>
    BY <1>21 DEF Settle
  <2> QED
    BY <1>21, <2>1
<1>22. CASE ShelfDeploy(subject) \/ ShelfReset
  <2>1. UNCHANGED <<runtime, iam, image, record, project, sidecar>>
    BY <1>22 DEF ShelfDeploy, ShelfReset
  <2> QED
    BY <1>22, <2>1
<1>23. CASE Setup(subject)
  <2>1. UNCHANGED <<runtime, iam, record, shelf, project, sidecar>>
    BY <1>23 DEF Setup
  <2> QED
    BY <1>23, <2>1
<1>24. CASE NameAccessPoint \/ UNCHANGED vars
  BY <1>24 DEF NameAccessPoint, vars
<1>25. ASSUME NEW s \in Scripts, MakeRole(s) PROVE G
  <2>1. UNCHANGED <<runtime, policy, revoked, image, record, shelf, project, sidecar>>
    BY <1>25 DEF MakeRole
  <2> QED
    BY <1>25, <2>1
<1>26. ASSUME NEW s \in Scripts, DropRole(s) PROVE G
  <2>1. UNCHANGED <<runtime, policy, revoked, image, record, shelf, project, sidecar>>
    BY <1>26 DEF DropRole
  <2> QED
    BY <1>26, <2>1
<1> QED
  BY <1>1, <1>2, <1>3, <1>4, <1>5, <1>6, <1>7, <1>8, <1>9, <1>10, <1>11,
     <1>12, <1>13, <1>14, <1>15, <1>16, <1>17, <1>18, <1>19, <1>20, <1>21,
     <1>22, <1>23, <1>24, <1>25, <1>26
     DEF Next, Step

\* What stands first in the plan of a script is the step it takes.
LEMMA StepIs ==
  ASSUME NEW s \in Scripts, Step(s)
  PROVE  /\ proc[s].todo # <<>>
         /\ At(s, "role") => MakeRole(s)
         /\ At(s, "grant") => Grant(s)
         /\ At(s, "apply") => Apply(s)
         /\ At(s, "await") => Await(s)
         /\ At(s, "record") => Record(s)
         /\ At(s, "store") => Store(s)
         /\ At(s, "collect") => Collect(s)
  BY DEF Step, At, MakeRole, Grant, Apply, Await, Record, Delete, Revoke,
         DropRole, DropImage, Unrecord, Unset, DropProvider, DropWorkload, Ensure, Store,
         WriteStatus, Forget, Collect, Replace, Pin

---------------------------------------------------------------------------
\* A step writes into the files only what has been READY.
LEMMA ReadyStep ==
  IInv /\ [Next]_vars => ReadyInv'
<1> SUFFICES ASSUME IInv, [Next]_vars PROVE ReadyInv'
  OBVIOUS
<1>0. /\ TypeInv /\ PlanInv /\ ReadyInv /\ proc \in [Scripts -> Script]
      /\ subject' = subject /\ ready \subseteq ready'
  BY Moves DEF IInv, TypeInv
<1>1. ASSUME NEW a \in Agents, runtime'[a].status = "READY"
      PROVE  <<a, runtime'[a].id>> \in ready'
  <2>1. CASE UNCHANGED runtime
    BY <1>0, <1>1, <2>1 DEF ReadyInv
  <2>2. CASE Settle(subject)
    <3>1. CASE a = subject
      <4>1. \E status \in Ends : runtime' = [runtime EXCEPT ![subject].status = status]
        BY <2>2 DEF Settle, Ends
      <4>2. runtime'[subject].id = runtime[subject].id
        BY <1>0, <4>1 DEF TypeInv, Run
      <4>3. PICK status \in Ends : runtime' = [runtime EXCEPT ![subject].status = status]
        BY <4>1
      <4>4. status = "READY"
        BY <1>0, <1>1, <3>1, <4>3 DEF TypeInv, Run
      <4>5. CASE ready' = ready \cup {<<subject, runtime[subject].id>>}
        BY <3>1, <4>2, <4>5
      <4>6. CASE runtime' = [runtime EXCEPT ![subject].status = "FAILED"]
        BY <1>0, <1>1, <3>1, <4>6 DEF TypeInv, Run
      <4> QED
        BY <1>1, <2>2, <3>1, <4>5, <4>6 DEF Settle
    <3>2. CASE a # subject
      <4>1. runtime'[a] = runtime[a]
        BY <1>0, <2>2, <3>2 DEF Settle, TypeInv
      <4> QED
        BY <1>0, <1>1, <4>1 DEF ReadyInv
    <3> QED
      BY <3>1, <3>2
  <2>3. ASSUME NEW s \in Scripts, Apply(s)
        PROVE  <<a, runtime'[a].id>> \in ready'
    <3>1. proc[s].agent = subject
      BY <1>0, <2>3, DeployAt DEF Apply
    <3>2. runtime' = runtime \/ (a # subject /\ runtime'[a] = runtime[a])
      <4>1. CASE UNCHANGED runtime
        BY <4>1
      <4>2. CASE Create(s, subject)
        <5>1. runtime'[subject].status = "CREATING" /\ \A b \in Agents \ {subject} : runtime'[b] = runtime[b]
          BY <1>0, <4>2 DEF Create, TypeInv
        <5> QED
          BY <1>1, <5>1
      <4>3. CASE Update(s, subject)
        <5>1. \/ UNCHANGED runtime
              \/ \E u : runtime' = [runtime EXCEPT ![subject].status = "UPDATING",
                                                   ![subject].uses = u]
          BY <4>3 DEF Update
        <5>2. ASSUME NEW u, runtime' = [runtime EXCEPT ![subject].status = "UPDATING",
                                                     ![subject].uses = u]
              PROVE  /\ runtime'[subject].status = "UPDATING"
                     /\ \A b \in Agents \ {subject} : runtime'[b] = runtime[b]
          BY <1>0, <5>2 DEF TypeInv, Run
        <5> QED
          BY <1>1, <5>1, <5>2
      <4> QED
        BY <2>3, <3>1, <4>1, <4>2, <4>3 DEF Apply, Conflict
    <3> QED
      BY <1>0, <1>1, <3>2 DEF ReadyInv
  <2>4. ASSUME NEW s \in Scripts, Delete(s)
        PROVE  <<a, runtime'[a].id>> \in ready'
    <3>1. runtime'[a] = runtime[a] \/ runtime'[a] = NoRuntime
      BY <1>0, <2>4 DEF Delete, BestEffort, TypeInv
    <3>2. NoRuntime.status # "READY"
      BY DEF NoRuntime
    <3>3. runtime'[a] = runtime[a]
      BY <1>1, <3>1, <3>2
    <3> QED
      BY <1>0, <1>1, <3>3 DEF ReadyInv
  <2> QED
    BY <2>1, <2>2, <2>3, <2>4, Writers
<1>2. ASSUME NEW a \in Agents, record'[a] \notin {Nothing, Cut}
      PROVE  <<a, record'[a]>> \in ready'
  <2>1. CASE UNCHANGED record
    BY <1>0, <1>2, <2>1 DEF ReadyInv
  <2>2. ASSUME NEW s \in Scripts, Record(s) PROVE <<a, record'[a]>> \in ready'
    <3>1. proc[s].agent = subject /\ <<subject, proc[s].id>> \in ready
      BY <1>0, <2>2, DeployAt DEF Record, ReadyInv
    <3> QED
      BY <1>0, <1>2, <2>2, <3>1 DEF Record, ReadyInv, TypeInv
  <2>3. ASSUME NEW s \in Scripts, Unrecord(s) \/ Die(s)
        PROVE  <<a, record'[a]>> \in ready'
    <3>1. record'[a] \in {record[a], Nothing, Cut}
      BY <1>0, <2>3 DEF Unrecord, Die, TypeInv
    <3> QED
      BY <1>0, <1>2, <3>1 DEF ReadyInv
  <2> QED
    BY <2>1, <2>2, <2>3, Writers
<1>3. ASSUME NEW a \in Agents, shelf'[a] # Nothing PROVE <<a, shelf'[a]>> \in ready'
  <2>1. CASE ShelfDeploy(subject)
    <3>1. shelf'[a] \in {shelf[a], Real(a)}
      BY <1>0, <2>1 DEF ShelfDeploy, TypeInv
    <3> QED
      BY <1>0, <1>3, <3>1 DEF ReadyInv, Real
  <2>2. CASE UNCHANGED shelf \/ ShelfReset \/ \E s \in Scripts : Die(s)
    BY <1>0, <1>3, <2>2 DEF ReadyInv, ShelfReset, Die
  <2> QED
    BY <2>1, <2>2, Writers
<1>4. ASSUME NEW a \in DOMAIN project' PROVE <<a, project'[a]>> \in ready'
  <2>1. CASE UNCHANGED project
    BY <1>0, <2>1, <1>4 DEF ReadyInv
  <2>2. CASE \E s \in Scripts : Replace(s)
    BY <1>0, <2>2 DEF Replace, ReadyInv
  <2> QED
    BY <2>1, <2>2, Writers
<1>5. ASSUME NEW t \in Scripts, proc'[t].todo # <<>>, Head(proc'[t].todo) = "record"
      PROVE  <<subject, proc'[t].id>> \in ready'
  <2>1. CASE Keeps(t)
    BY <1>0, <1>5, <2>1 DEF Keeps, ReadyInv, At
  <2>2. CASE On(t)
    <3>1. At(t, "await")
      BY <1>0, <1>5, <2>2, After DEF On
    <3>2. Await(t) /\ proc'[t].id = proc[t].id /\ proc[t].agent = subject
      BY <1>0, <2>2, <3>1, StepIs, DeployAt DEF On, At
    <3>3. runtime[subject].id = proc[t].id /\ runtime[subject].status = "READY"
      BY <1>0, <1>5, <2>2, <3>2, FailsEnds DEF Await, Ended, On
    <3> QED
      BY <1>0, <3>2, <3>3 DEF ReadyInv, TypeInv
  <2> QED
    BY <1>5, <2>1, <2>2, Moves DEF Ended, New
<1>6. ASSUME NEW t \in Scripts, proc'[t].todo # <<>>, Head(proc'[t].todo) = "replace",
             NEW a \in DOMAIN proc'[t].arns
      PROVE  <<a, proc'[t].arns[a]>> \in ready'
  <2>1. CASE Keeps(t)
    BY <1>0, <1>6, <2>1 DEF Keeps, ReadyInv, At
  <2>2. CASE On(t)
    <3>1. At(t, "collect")
      BY <1>0, <1>6, <2>2, After DEF On
    <3>2. Collect(t)
      BY <2>2, <3>1, StepIs DEF On
    <3>3. /\ \A b \in Coordinated : record[b] \notin {Nothing, Cut}
          /\ Goes(t, [proc[t] EXCEPT !.arns = [b \in Coordinated |-> record[b]]])
      BY <1>0, <1>6, <2>2, <3>2, FailsEnds DEF Collect, Ended, On
    <3>4. proc'[t].arns = [b \in Coordinated |-> record[b]]
      <4> DEFINE f == [b \in Coordinated |-> record[b]]
      <4>1. proc' = [proc EXCEPT ![t] = [[proc[t] EXCEPT !.arns = f] EXCEPT !.todo = Tail(@)]]
        BY <3>3 DEF Goes
      <4> HIDE DEF f
      <4>2. proc'[t].arns = f
        BY <1>0, <4>1 DEF Script
      <4> QED
        BY <4>2 DEF f
    <3>5. a \in Coordinated /\ a \in Agents
      BY <1>6, <3>4 DEF Coordinated, Agents, Adopters
    <3> QED
      BY <1>0, <3>3, <3>4, <3>5 DEF ReadyInv
  <2> QED
    BY <1>6, <2>1, <2>2, Moves DEF Ended, New
<1> QED
  BY <1>0, <1>1, <1>2, <1>3, <1>4, <1>5, <1>6 DEF ReadyInv, At

\* The sidecar tells only of a key that has been stored.
LEMMA KeyStep ==
  IInv /\ [Next]_vars => KeyInv'
<1> SUFFICES ASSUME IInv, [Next]_vars PROVE KeyInv'
  OBVIOUS
<1>0. TypeInv /\ PlanInv /\ KeyInv /\ held \subseteq held'
  BY Moves DEF IInv
<1>1. sidecar' \in held'
  BY <1>0, Writers DEF KeyInv, WriteStatus, Forget
<1>2. ASSUME NEW t \in Scripts, proc'[t].todo # <<>>, Head(proc'[t].todo) = "sidecar"
      PROVE  proc'[t].key \in held'
  <2>1. CASE Keeps(t)
    BY <1>0, <1>2, <2>1 DEF Keeps, Same, KeyInv, At
  <2>2. CASE On(t)
    <3>1. At(t, "store")
      BY <1>0, <1>2, <2>2, After DEF On
    <3>2. Store(t) /\ proc'[t].key = proc[t].key
      BY <2>2, <3>1, StepIs DEF On, Same
    <3> QED
      BY <1>0, <1>2, <2>2, <3>2, FailsEnds DEF Store, Ended, On
  <2> QED
    BY <1>2, <2>1, <2>2, Moves DEF Ended, New
<1> QED
  BY <1>0, <1>1, <1>2 DEF KeyInv, At

\* create_execution_role puts the policy, or the script ends.
LEMMA GrantGives ==
  ASSUME TypeInv, PlanInv, NEW s \in Scripts, Grant(s)
  PROVE  \/ policy'[subject] # NoPolicy /\ ~\E calm \in BOOLEAN : Fails(s, calm)
         \/ UNCHANGED policy /\ proc'[s].todo = <<>>
<1>1. /\ proc[s].agent = subject /\ subject \in Agents /\ proc \in [Scripts -> Script]
      /\ policy \in [Agents -> Policy] /\ At(s, "grant")
  BY DeployAt DEF Grant, TypeInv
<1>2. CASE /\ policy' = [policy EXCEPT ![subject] = [grants |-> Role(subject),
                                                   scope |-> Scope(proc[s].ap)]]
           /\ GoesOn(s)
  <2>1. policy'[subject] = [grants |-> Role(subject), scope |-> Scope(proc[s].ap)]
    BY <1>1, <1>2
  <2>2. policy'[subject].scope = Scope(proc[s].ap)
    BY <2>1
  <2>3. NoPolicy.scope = "nothing" /\ Scope(proc[s].ap) # "nothing"
    BY DEF NoPolicy, Scope
  <2>4. On(s)
    BY <1>1, <1>2, GoesMoves DEF Step, At
  <2>5. proc'[s].ok = proc[s].ok /\ proc'[s].todo # <<>>
    <3>1. /\ Head(proc[s].todo) = "grant" /\ proc[s].todo \in DeployPlans
          /\ proc[s].todo # <<>>
      BY <1>1, DeployAt DEF At
    <3>2. Tail(proc[s].todo) = <<"apply", "await", "record">>
      BY <3>1, DeployPlan
    <3>3. <<"apply", "await", "record">> # <<>>
      OBVIOUS
    <3> QED
      BY <2>4, <3>1, <3>2, <3>3 DEF On, At
  <2> QED
    BY <1>1, <2>2, <2>3, <2>5, FailsEnds DEF Ended, Step
<1>3. CASE (\E calm \in BOOLEAN : Fails(s, calm)) /\ UNCHANGED policy
  BY <1>1, <1>3, FailsEnds DEF Ended, Step
<1> QED
  BY <1>1, <1>2, <1>3 DEF Grant

\* A policy is put in a role that is there, or is taken and held to be taken.
LEMMA PolicyStep ==
  ASSUME IInv, [Next]_vars, NEW a \in Agents
  PROVE  /\ \/ policy'[a] = policy[a] /\ (a \in revoked => a \in revoked')
            \/ /\ a \in role' /\ policy'[a].grants = Role(a)
               /\ policy'[a].scope # "nothing" /\ policy'[a] # NoPolicy
            \/ policy'[a] = NoPolicy /\ a \in revoked'
         /\ policy[a] # NoPolicy \/ a \in revoked
              => policy'[a] # NoPolicy \/ a \in revoked'
<1>0. TypeInv /\ PlanInv /\ GrantInv /\ policy \in [Agents -> Policy]
  BY DEF IInv, TypeInv
<1> DEFINE G == \/ policy'[a] = policy[a] /\ (a \in revoked => a \in revoked')
                \/ /\ a \in role' /\ policy'[a].grants = Role(a)
                   /\ policy'[a].scope # "nothing" /\ policy'[a] # NoPolicy
                \/ policy'[a] = NoPolicy /\ a \in revoked'
<1>1. CASE UNCHANGED <<policy, revoked>>
  BY <1>1
<1>2. ASSUME NEW s \in Scripts, Grant(s) PROVE G
  <2>1. proc[s].agent = subject /\ subject \in Agents /\ UNCHANGED role
    BY <1>0, <1>2, DeployAt DEF Grant
  <2>2. \/ UNCHANGED <<policy, revoked>>
        \/ /\ policy' = [policy EXCEPT ![subject] = [grants |-> Role(subject),
                                                    scope |-> Scope(proc[s].ap)]]
           /\ subject \in role /\ revoked' = revoked \ {subject}
    BY <1>2, <2>1 DEF Grant
  <2>3. Scope(proc[s].ap) # "nothing" /\ NoPolicy.scope = "nothing"
    BY DEF Scope, NoPolicy
  <2>4. CASE a # subject
    BY <1>0, <2>2, <2>4
  <2>5. CASE UNCHANGED <<policy, revoked>>
    BY <2>5
  <2>6. CASE /\ a = subject /\ subject \in role
             /\ policy' = [policy EXCEPT ![subject] = [grants |-> Role(subject),
                                                      scope |-> Scope(proc[s].ap)]]
    <3>1. policy'[a] = [grants |-> Role(a), scope |-> Scope(proc[s].ap)]
      BY <1>0, <2>6
    <3>2. policy'[a].grants = Role(a) /\ policy'[a].scope = Scope(proc[s].ap)
      BY <3>1
    <3> QED
      BY <2>1, <2>3, <2>6, <3>2
  <2> QED
    BY <2>2, <2>4, <2>5, <2>6
<1>3. ASSUME NEW s \in Scripts, Revoke(s) PROVE G
  <2>1. \/ UNCHANGED <<policy, revoked>>
        \/ /\ policy' = [policy EXCEPT ![proc[s].agent] = NoPolicy]
           /\ revoked' = IF policy[proc[s].agent] = NoPolicy THEN revoked
                         ELSE revoked \cup {proc[s].agent}
    BY <1>3 DEF Revoke
  <2>2. CASE a = proc[s].agent
    BY <1>0, <2>1, <2>2
  <2>3. CASE a # proc[s].agent
    BY <1>0, <2>1, <2>3
  <2> QED
    BY <2>2, <2>3
<1>4. G
  BY <1>1, <1>2, <1>3, Writers
<1> QED
  BY <1>4

\* A role that carries a policy stays.
LEMMA RoleStays ==
  ASSUME IInv, [Next]_vars, NEW a \in role, policy[a] # NoPolicy
  PROVE  a \in role'
<1>1. \A s \in Scripts : MakeRole(s) => a \in role'
  BY DEF MakeRole
<1>2. \A s \in Scripts : DropRole(s) => a \in role'
  BY DEF DropRole, BestEffort
<1> QED
  BY <1>1, <1>2, Writers

\* A policy is put, and a runtime configured, as the agent's.
LEMMA GrantStep ==
  IInv /\ [Next]_vars => GrantInv'
<1> SUFFICES ASSUME IInv, [Next]_vars PROVE GrantInv'
  OBVIOUS
<1>0. TypeInv /\ PlanInv /\ GrantInv /\ subject' = subject /\ subject \in Agents
  BY Moves DEF IInv, TypeInv
<1>1. ASSUME NEW a \in Agents, policy'[a] # NoPolicy
      PROVE  a \in role' /\ policy'[a].grants = Role(a) /\ policy'[a].scope # "nothing"
  <2>1. CASE policy'[a] = policy[a]
    <3>1. a \in role /\ policy[a].grants = Role(a) /\ policy[a].scope # "nothing"
      BY <1>0, <1>1, <2>1 DEF GrantInv
    <3>2. a \in role'
      BY <1>1, <2>1, <3>1, RoleStays
    <3> QED
      BY <2>1, <3>1, <3>2
  <2> QED
    BY <1>1, <2>1, PolicyStep
<1>2. ASSUME NEW a \in Agents PROVE {Needs(u) : u \in runtime'[a].uses} \subseteq Role(a)
  <2>1. \/ runtime'[a].uses = runtime[a].uses
        \/ runtime'[a].uses = {}
        \/ \E s \in Scripts : /\ a = subject
                              /\ runtime'[a].uses = Uses(subject, proc[s].exported, proc[s].ap)
    <3>1. CASE UNCHANGED runtime
      BY <3>1
    <3>2. CASE Settle(subject)
      <4>1. \E status \in Ends : runtime' = [runtime EXCEPT ![subject].status = status]
        BY <3>2 DEF Settle, Ends
      <4> QED
        BY <1>0, <4>1 DEF TypeInv, Run
    <3>3. ASSUME NEW s \in Scripts, Apply(s)
          PROVE  \/ runtime'[a].uses = runtime[a].uses
                 \/ /\ a = subject
                    /\ runtime'[a].uses = Uses(subject, proc[s].exported, proc[s].ap)
      <4> DEFINE u == Uses(subject, proc[s].exported, proc[s].ap)
      <4>1. proc[s].agent = subject
        BY <1>0, <3>3, DeployAt DEF Apply
      <4>2. \/ UNCHANGED runtime
            \/ \E id : runtime' = [runtime EXCEPT ![subject] =
                                     [id |-> id, status |-> "CREATING", uses |-> u]]
            \/ runtime' = [runtime EXCEPT ![subject].status = "UPDATING",
                                          ![subject].uses = u]
        BY <3>3, <4>1 DEF Apply, Create, Update, Conflict
      <4> HIDE DEF u
      <4>3. runtime'[a].uses = runtime[a].uses \/ (a = subject /\ runtime'[a].uses = u)
        BY <1>0, <4>2 DEF TypeInv, Run
      <4> QED
        BY <4>3 DEF u
    <3>4. ASSUME NEW s \in Scripts, Delete(s)
          PROVE  runtime'[a].uses = runtime[a].uses \/ runtime'[a].uses = {}
      BY <1>0, <3>4 DEF Delete, BestEffort, NoRuntime, TypeInv
    <3> QED
      BY <3>1, <3>2, <3>3, <3>4, Writers
  <2> QED
    BY <1>0, <2>1, UsesAreTyped DEF GrantInv
<1>3. ASSUME NEW s \in Scripts, At(s, "apply")
      PROVE  policy'[subject] # NoPolicy \/ subject \in revoked'
  BY <1>0, <1>3, PolicyStep DEF GrantInv
<1>4. ASSUME NEW a \in Agents, runtime'[a] # NoRuntime
      PROVE  policy'[a] # NoPolicy \/ a \in revoked'
  <2>1. ASSUME runtime[a] # NoRuntime PROVE policy'[a] # NoPolicy \/ a \in revoked'
    BY <1>0, <2>1, PolicyStep DEF GrantInv
  <2>2. CASE UNCHANGED runtime
    BY <1>4, <2>1, <2>2
  <2>3. CASE Settle(subject)
    <3>1. runtime[subject].status \in Settling
      BY <2>3 DEF Settle
    <3>2. runtime[subject] # NoRuntime
      BY <3>1 DEF NoRuntime, Settling
    <3>3. a # subject => runtime'[a] = runtime[a]
      BY <1>0, <2>3 DEF Settle, TypeInv
    <3> QED
      BY <1>4, <2>1, <3>2, <3>3
  <2>4. ASSUME NEW s \in Scripts, Apply(s)
        PROVE  policy'[a] # NoPolicy \/ a \in revoked'
    <3>1. proc[s].agent = subject /\ At(s, "apply")
      BY <1>0, <2>4, DeployAt DEF Apply
    <3>2. a # subject => runtime'[a] = runtime[a]
      BY <1>0, <2>4, <3>1 DEF Apply, Create, Update, Conflict, TypeInv
    <3> QED
      BY <1>3, <1>4, <2>1, <3>1, <3>2
  <2>5. ASSUME NEW s \in Scripts, Delete(s)
        PROVE  policy'[a] # NoPolicy \/ a \in revoked'
    <3>1. runtime'[a] \in {runtime[a], NoRuntime}
      BY <1>0, <2>5 DEF Delete, BestEffort, TypeInv
    <3> QED
      BY <1>4, <2>1, <3>1
  <2> QED
    BY <2>2, <2>3, <2>4, <2>5, Writers
<1>5. ASSUME NEW t \in Scripts, proc'[t].todo # <<>>, Head(proc'[t].todo) = "apply"
      PROVE  policy'[subject] # NoPolicy \/ subject \in revoked'
  <2>1. CASE Keeps(t)
    BY <1>3, <1>5, <2>1 DEF Keeps, At
  <2>2. CASE On(t)
    <3>1. At(t, "grant")
      BY <1>0, <1>5, <2>2, After DEF On
    <3>2. Grant(t)
      BY <2>2, <3>1, StepIs DEF On
    <3> QED
      BY <1>0, <1>5, <3>2, GrantGives
  <2> QED
    BY <1>5, <2>1, <2>2, Moves DEF Ended, New
<1>6. ASSUME NEW t \in Scripts, At(t, "apply")'
      PROVE  (policy[subject] # NoPolicy \/ subject \in revoked)'
  BY <1>0, <1>5, <1>6 DEF At
<1> QED
  BY <1>1, <1>2, <1>4, <1>6 DEF GrantInv

---------------------------------------------------------------------------
\* A deployment that nothing has disturbed.
CalmDeploy(t) == proc[t].kind = "deploy" /\ proc[t].calm /\ proc[t].todo # <<>>

\* Such a deployment is the only script of its agent.
LEMMA CalmIsAlone ==
  ASSUME IInv, NEW t \in Scripts, CalmDeploy(t), NEW s \in Scripts
  PROVE  /\ proc[s].todo # <<>> /\ proc[s].agent = subject => s = t
         /\ Grant(s) \/ Apply(s) => s = t
         /\ ~Delete(s) /\ ~Revoke(s) /\ ~DropRole(s) /\ ~DropImage(s)
<1>1. TypeInv /\ PlanInv /\ Busy(subject) = {t}
  BY DEF IInv, CalmInv, CalmDeploy
<1>2. proc[s].todo # <<>> /\ proc[s].agent = subject => s = t
  BY <1>1 DEF Busy
<1>3. Grant(s) \/ Apply(s) => s = t
  BY <1>1, <1>2, DeployAt DEF Grant, Apply, At
<1>4. At(s, "delete") \/ At(s, "revoke") \/ At(s, "unrole") \/ At(s, "repo") => FALSE
  <2>1. At(s, "delete") \/ At(s, "revoke") \/ At(s, "unrole") \/ At(s, "repo")
          => proc[s].kind = "cleanup" /\ proc[s].agent = subject
    BY <1>1, Position DEF At, PlanInv, TypeInv, CleanupStep
  <2> QED
    BY <1>2, <2>1 DEF At, CalmDeploy
<1> QED
  BY <1>2, <1>3, <1>4 DEF Delete, Revoke, DropRole, DropImage

\* The scripts of an agent are stirred when another of them begins.
LEMMA BeginsStirs ==
  ASSUME IInv, NEW t \in Scripts, CalmDeploy(t), NEW s \in Scripts \ {t}, New(s),
         proc'[s].agent = subject
  PROVE  ~proc'[t].calm
<1>1. TypeInv /\ PlanInv /\ t \in Busy(subject)
  BY DEF IInv, CalmInv, CalmDeploy
<1>2. PICK p : /\ Fresh(p) /\ Begins(s, p)
               /\ proc'[s] = [p EXCEPT !.calm = Busy(p.agent) = {}]
  BY DEF New
<1>3. p.agent = subject
  BY <1>2 DEF Fresh, Script
<1>4. proc'[t] = Stirred(subject)[t]
  BY <1>1, <1>2, <1>3, ShapeStirred DEF Begins
<1> QED
  BY <1>1, <1>4, ShapeStirred

\* A script that goes on from deploy_runtime waits for the runtime that it has
\* made or updated.
LEMMA ApplySets ==
  ASSUME TypeInv, PlanInv, NEW s \in Scripts, Apply(s), proc'[s].todo # <<>>
  PROVE  runtime'[subject].id = proc'[s].id /\ runtime'[subject].status \in Settling
<1> DEFINE u == Uses(subject, proc[s].exported, proc[s].ap)
<1>1. /\ proc[s].agent = subject /\ subject \in Agents
      /\ proc \in [Scripts -> Script] /\ runtime \in [Agents -> Run]
  BY DeployAt DEF Apply, TypeInv
<1>2. ASSUME NEW id, Goes(s, [proc[s] EXCEPT !.id = id]) PROVE proc'[s].id = id
  BY <1>1, <1>2 DEF Goes, Script
<1>3. \A calm \in BOOLEAN : ~Fails(s, calm)
  BY <1>1, FailsEnds DEF Ended, Step
<1>4. CASE Create(s, subject)
  BY <1>1, <1>2, <1>4 DEF Create, Settling
<1>5. CASE Update(s, subject)
  <2>1. /\ runtime' = [runtime EXCEPT ![subject].status = "UPDATING", ![subject].uses = u]
        /\ Goes(s, [proc[s] EXCEPT !.id = runtime[subject].id])
    BY <1>3, <1>5 DEF Update
  <2> HIDE DEF u
  <2>2. runtime'[subject].id = runtime[subject].id /\ runtime'[subject].status = "UPDATING"
    BY <1>1, <2>1 DEF Run
  <2> QED
    BY <1>2, <2>1, <2>2 DEF Settling
<1> QED
  BY <1>1, <1>3, <1>4, <1>5 DEF Apply, Conflict

\* What deploy_runtime refuses, short of an error.
LEMMA ApplyRefuses ==
  ASSUME TypeInv, PlanInv, NEW s \in Scripts, Apply(s), proc[s].ok, ~proc'[s].ok,
         proc'[s].calm
  PROVE  \/ record[subject] = Cut
         \/ runtime[subject].status \in Settling
         \/ subject \notin Adopters /\ runtime[subject].id # record[subject]
<1>1. proc[s].agent = subject /\ proc \in [Scripts -> Script] /\ Step(s)
  BY DeployAt DEF Apply, TypeInv, Step
<1>2. ~Fails(s, FALSE)
  BY <1>1, FailsEnds
<1>3. ASSUME NEW id, Goes(s, [proc[s] EXCEPT !.id = id]) PROVE FALSE
  BY <1>1, <1>3 DEF Goes, Script
<1>4. Update(s, subject) => runtime[subject].status \in Settling
  BY <1>3 DEF Update
<1>5. ~Create(s, subject)
  BY <1>3 DEF Create
<1> QED
  BY <1>1, <1>2, <1>4, <1>5 DEF Apply, Conflict

\* A step leaves a deployment that it does not disturb alone and in order.
LEMMA CalmStep ==
  IInv /\ [Next]_vars => CalmInv'
<1> SUFFICES ASSUME IInv, [Next]_vars PROVE CalmInv'
  OBVIOUS
<1>a. subject' = subject
  BY Moves
<1> SUFFICES ASSUME NEW t \in Scripts, CalmDeploy(t)'
             PROVE  /\ Busy(subject)' = {t}
                    /\ ~At(t, "role")' => subject \in role'
                    /\ ~At(t, "role")' /\ ~At(t, "grant")' => policy'[subject] # NoPolicy
                    /\ At(t, "await")' =>
                         /\ runtime'[subject].id = proc'[t].id
                         /\ runtime'[subject].status \in Ends
                         /\ runtime'[subject].status = "FAILED" => subject \notin image'
  BY <1>a DEF CalmInv, CalmDeploy
<1>0. /\ TypeInv /\ PlanInv /\ CalmInv /\ TypeInv' /\ PlanInv' /\ subject' = subject
      /\ proc \in [Scripts -> Script] /\ subject \in Agents
  BY ShapeStep, Moves DEF IInv, TypeInv
<1>1. proc'[t].agent = subject
  BY <1>0 DEF PlanInv, CalmDeploy
<1>2. ASSUME New(t)
      PROVE  Busy(subject)' = {t} /\ proc'[t].todo = DeploySteps
  <2>1. PICK p : /\ Fresh(p) /\ Begins(t, p)
                 /\ proc'[t] = [p EXCEPT !.calm = Busy(p.agent) = {}]
    BY <1>2 DEF New
  <2>2. p.agent = subject /\ Busy(subject) = {}
    BY <1>1, <2>1 DEF Fresh, Script, CalmDeploy
  <2>3. \A s \in Scripts \ {t} : proc'[s].todo = proc[s].todo /\ proc'[s].agent = proc[s].agent
    BY <1>0, <2>1, BeginsNew DEF Keeps, Same
  <2>4. \A s \in Scripts \ {t} : ~(proc'[s].todo # <<>> /\ proc'[s].agent = subject)
    BY <2>2, <2>3 DEF Busy
  <2>5. Busy(subject)' = {t}
    BY <1>0, <1>1, <2>4 DEF Busy, CalmDeploy
  <2> QED
    BY <1>2, <2>5 DEF New, CalmDeploy
<1>3. ASSUME Keeps(t) \/ On(t) PROVE CalmDeploy(t)
  BY <1>3 DEF Keeps, On, Same, CalmDeploy
<1>4. ASSUME CalmDeploy(t) PROVE Busy(subject)' = {t}
  <2>1. ASSUME NEW s \in Scripts \ {t}, proc'[s].todo # <<>>, proc'[s].agent = subject
        PROVE  FALSE
    <3>1. CASE Keeps(s) \/ On(s)
      BY <1>4, <2>1, <3>1, CalmIsAlone DEF Keeps, On, Same
    <3>2. CASE New(s)
      BY <1>4, <2>1, <3>2, BeginsStirs DEF CalmDeploy
    <3> QED
      BY <2>1, <3>1, <3>2, Moves DEF Ended
  <2> QED
    BY <1>0, <1>1, <2>1 DEF Busy, CalmDeploy
<1>5. ASSUME CalmDeploy(t), subject \in role PROVE subject \in role'
  <2>1. \A s \in Scripts : MakeRole(s) => subject \in role'
    BY <1>5 DEF MakeRole
  <2> QED
    BY <1>5, <2>1, CalmIsAlone, Writers
<1>6. ASSUME CalmDeploy(t), policy[subject] # NoPolicy PROVE policy'[subject] # NoPolicy
  <2>1. \A s \in Scripts : Grant(s) => policy'[subject] # NoPolicy
    BY <1>0, <1>6, GrantGives
  <2> QED
    BY <1>6, <2>1, CalmIsAlone, Writers
<1>7. ASSUME On(t)
      PROVE  /\ ~At(t, "role")' => subject \in role'
             /\ ~At(t, "role")' /\ ~At(t, "grant")' => policy'[subject] # NoPolicy
  <2>1. CalmDeploy(t)
    BY <1>3, <1>7
  <2>2. CASE At(t, "role")
    <3>1. MakeRole(t) /\ proc[t].agent = subject
      BY <1>0, <1>7, <2>2, StepIs, DeployAt DEF On
    <3>2. proc'[t].todo # <<>>
      BY <1>7, <2>1 DEF CalmDeploy
    <3>3. ~Fails(t, FALSE)
      BY <1>0, <3>1, <3>2, FailsEnds DEF Ended, Step
    <3>4. subject \in role'
      BY <3>1, <3>3 DEF MakeRole
    <3>5. At(t, "grant")'
      <4>1. /\ Head(proc[t].todo) = "role" /\ proc[t].todo \in DeployPlans
            /\ proc[t].todo # <<>>
        BY <1>0, <2>2, DeployAt DEF At
      <4>2. Tail(proc[t].todo) = <<"grant", "apply", "await", "record">>
        BY <4>1, DeployPlan
      <4>3. /\ <<"grant", "apply", "await", "record">> # <<>>
            /\ Head(<<"grant", "apply", "await", "record">>) = "grant"
        OBVIOUS
      <4> QED
        BY <1>7, <4>2, <4>3 DEF On, At
    <3> QED
      BY <3>4, <3>5
  <2>3. CASE ~At(t, "role")
    <3>1. subject \in role'
      BY <1>0, <1>5, <2>1, <2>3 DEF CalmInv, CalmDeploy
    <3>2. CASE At(t, "grant")
      <4>1. Grant(t)
        BY <1>7, <3>2, StepIs DEF On
      <4> QED
        BY <1>0, <2>1, <3>1, <4>1, GrantGives DEF CalmDeploy
    <3>3. CASE ~At(t, "grant")
      BY <1>0, <1>6, <2>1, <2>3, <3>1, <3>3 DEF CalmInv, CalmDeploy
    <3> QED
      BY <3>2, <3>3
  <2> QED
    BY <2>2, <2>3
<1>13. ASSUME Keeps(t)
       PROVE  /\ ~At(t, "role")' => subject \in role'
              /\ ~At(t, "role")' /\ ~At(t, "grant")' => policy'[subject] # NoPolicy
  <2>1. CalmDeploy(t) /\ (At(t, "role")' <=> At(t, "role")) /\ (At(t, "grant")' <=> At(t, "grant"))
    BY <1>3, <1>13 DEF Keeps, At
  <2> QED
    BY <1>0, <1>5, <1>6, <2>1 DEF CalmInv, CalmDeploy
<1>8. ASSUME On(t), At(t, "await")'
      PROVE  runtime'[subject].id = proc'[t].id /\ runtime'[subject].status \in Settling
  <2>1. Apply(t) /\ proc[t].agent = subject
    BY <1>0, <1>8, After, StepIs, DeployAt DEF On, At
  <2> QED
    BY <1>0, <1>8, <2>1, ApplySets DEF At
<1>9. ASSUME Keeps(t), At(t, "await")'
      PROVE  /\ runtime'[subject].id = proc'[t].id
             /\ runtime'[subject].status \in Ends
             /\ runtime'[subject].status = "FAILED" => subject \notin image'
  <2>1. CalmDeploy(t) /\ At(t, "await") /\ proc'[t].id = proc[t].id /\ proc'[t].calm
    BY <1>3, <1>9 DEF Keeps, At, CalmDeploy
  <2>2. /\ runtime[subject].id = proc[t].id
        /\ runtime[subject].status \in Ends
        /\ runtime[subject].status = "FAILED" => subject \notin image
        /\ policy[subject] # NoPolicy /\ t \in Busy(subject)
    BY <1>0, <2>1 DEF CalmInv, CalmDeploy, At
  <2>3. ~Apply(t)
    BY <2>1 DEF Apply, At
  <2>4. ~Setup(subject)
    BY <1>0, <2>1, <2>2, ShapeStirred DEF Setup
  <2>5. UNCHANGED image
    BY <2>1, <2>4, CalmIsAlone, Writers
  <2>6. CASE UNCHANGED runtime
    BY <2>1, <2>2, <2>5, <2>6
  <2>7. CASE Settle(subject)
    <3>1. proc' # Stirred(subject)
      BY <1>0, <2>1, <2>2, ShapeStirred
    <3>2. \E status \in {"READY", "FAILED"} :
            /\ runtime' = [runtime EXCEPT ![subject].status = status]
            /\ status = "FAILED" => subject \notin image
      BY <2>2, <2>7, <3>1 DEF Settle
    <3>3. \E status \in {"READY", "FAILED"} :
            /\ runtime'[subject].status = status /\ runtime'[subject].id = runtime[subject].id
            /\ status = "FAILED" => subject \notin image
      BY <1>0, <3>2 DEF TypeInv, Run
    <3> QED
      BY <2>1, <2>2, <2>5, <3>3 DEF Ends
  <2> QED
    BY <2>1, <2>3, <2>6, <2>7, CalmIsAlone, Writers
<1>10. CASE New(t)
  BY <1>2, <1>10 DEF At, DeploySteps
<1>11. CASE Keeps(t)
  BY <1>3, <1>4, <1>9, <1>11, <1>13
<1>12. CASE On(t)
  BY <1>3, <1>4, <1>7, <1>8, <1>12 DEF Settling, Ends
<1> QED
  BY <1>10, <1>11, <1>12, Moves DEF Ended, CalmDeploy

\* IInv is an invariant of the scripts.
LEMMA Inductive ==
  Spec => []IInv
<1>1. Init => IInv
  <2> SUFFICES ASSUME Init PROVE IInv
    OBVIOUS
  <2>1. TypeInv
    <3>1. runtime \in [Agents -> Run]
      <4>1. NoRuntime \in Run
        BY DEF NoRuntime, Run, Nothing
      <4>2. ASSUME NEW a \in Agents
            PROVE  [id |-> 1, status |-> "READY", uses |-> Uses(a, {}, FALSE)] \in Run
        BY RoleGrantsUses DEF Run, Ends
      <4> QED
        BY <4>1, <4>2 DEF Init
    <3>2. policy \in [Agents -> Policy]
      <4>1. NoPolicy \in Policy
        BY DEF NoPolicy, Policy
      <4>2. ASSUME NEW a \in Agents
            PROVE  [grants |-> Role(a), scope |-> Scope(FALSE)] \in Policy
        BY DEF Statements, Scope, Policy
      <4> QED
        BY <4>1, <4>2 DEF Init
    <3> QED
      BY <3>1, <3>2, IdleIsScript DEF Init, TypeInv, Ids, Nothing
  <2>2. PlanInv
    BY IdleIsScript DEF Init, PlanInv
  <2>3. ReadyInv
    BY IdleIsScript DEF Init, ReadyInv, At, NoRuntime, Nothing, Cut
  <2>4. KeyInv
    BY IdleIsScript DEF Init, KeyInv, At
  <2>5. GrantInv
    <3>0. \A s \in Scripts : ~At(s, "apply")
      BY IdleIsScript DEF Init, At
    <3> SUFFICES ASSUME NEW a \in Agents
                 PROVE  /\ policy[a] # NoPolicy =>
                             /\ a \in role /\ policy[a].grants = Role(a)
                             /\ policy[a].scope # "nothing"
                        /\ {Needs(u) : u \in runtime[a].uses} \subseteq Role(a)
                        /\ runtime[a] # NoRuntime => policy[a] # NoPolicy \/ a \in revoked
      BY <3>0 DEF GrantInv
    <3>1. CASE a = subject
      BY <3>1 DEF Init, NoRuntime
    <3>2. CASE a # subject
      <4>1. runtime[a].uses = Uses(a, {}, FALSE)
        BY <3>2 DEF Init
      <4>2. policy[a] = [grants |-> Role(a), scope |-> Scope(FALSE)] /\ a \in role
        BY <3>2 DEF Init
      <4>3. {Needs(u) : u \in Uses(a, {}, FALSE)} \subseteq Role(a)
        BY RoleGrantsUses
      <4>4. policy[a].grants = Role(a) /\ policy[a].scope = Scope(FALSE)
        BY <4>2
      <4>5. Scope(FALSE) # "nothing" /\ NoPolicy.scope = "nothing"
        BY DEF Scope, NoPolicy
      <4> QED
        BY <4>1, <4>2, <4>3, <4>4, <4>5
    <3> QED
      BY <3>1, <3>2
  <2>6. CalmInv
    BY IdleIsScript DEF Init, CalmInv
  <2> QED
    BY <2>1, <2>2, <2>3, <2>4, <2>5, <2>6 DEF IInv
<1>2. IInv /\ [Next]_vars => IInv'
  BY ShapeStep, ReadyStep, KeyStep, GrantStep, CalmStep DEF IInv
<1> QED
  BY <1>1, <1>2, PTL DEF Spec

---------------------------------------------------------------------------
\* What the files, the shelf and the coordinator's project say was once true
\* (deploy_runtime waits, save_api_key stores before it tells).
THEOREM RecordsAlwaysWereTrue ==
  Spec => []RecordsWereTrue
<1>1. IInv => RecordsWereTrue
  BY DEF IInv, ReadyInv, KeyInv, RecordsWereTrue, Real, Shown
<1> QED
  BY <1>1, Inductive, PTL

\* A runtime has a role, whose policy grants all that the runtime is configured
\* to use, unless a cleanup has taken the policy since it was last put
\* (create_execution_role before deploy_runtime, at every run).
THEOREM RuntimeIsAlwaysGranted ==
  Spec => []RuntimeIsGranted
<1>1. IInv => RuntimeIsGranted
  BY DEF IInv, GrantInv, RuntimeIsGranted
<1> QED
  BY <1>1, Inductive, PTL

\* A deployment that meets no error, and no other script of its agent, is
\* refused for want of an image, by a record that was cut, by a runtime that is
\* still settling, or by one the record does not name (create_execution_role,
\* deploy_runtime).
THEOREM CalmDeploysAlwaysSucceed ==
  Spec => CalmDeploysSucceed
<1>1. ASSUME IInv, [Next]_vars, NEW s \in Scripts, proc[s].kind = "deploy",
             proc[s].ok, ~proc'[s].ok, proc'[s].calm
      PROVE  \/ subject \notin image
             \/ record[subject] = Cut
             \/ At(s, "apply") /\ runtime[subject].status \in Settling
             \/ subject \notin Adopters /\ runtime[subject].id # record[subject]
  <2>0. TypeInv /\ PlanInv /\ CalmInv /\ proc \in [Scripts -> Script]
    BY <1>1 DEF IInv, TypeInv
  <2>1. ~New(s)
    BY <1>1 DEF New, Fresh, Script
  <2>0a. ~At(s, "revoke")
    BY <1>1, <2>0, Position DEF At, PlanInv, CleanupStep
  <2>2. Step(s) /\ \E calm \in BOOLEAN : Fails(s, calm)
    BY <1>1, <2>0a, <2>1, Moves DEF Keeps, On, Ended
  <2>3. CalmDeploy(s)
    BY <1>1, <2>0, <2>2, StepIs DEF Fails, Script, CalmDeploy
  <2>4. ~GoesOn(s)
    BY <1>1, <2>0, <2>0a, <2>2, GoesMoves, StepIs DEF On
  <2>5. Apply(s) \/ Await(s)
    <3>1. \/ At(s, "role") \/ At(s, "grant") \/ At(s, "apply")
          \/ At(s, "await") \/ At(s, "record")
      BY <1>1, <2>0, <2>3, DeployPlan DEF PlanInv, Planned, CalmDeploy, At
    <3>2. ~Fails(s, FALSE)
      BY <1>1, <2>0, <2>2, FailsEnds
    <3>3. CASE At(s, "grant")
      <4>1. Grant(s) /\ proc[s].agent = subject /\ subject \in role
        BY <2>0, <2>2, <2>3, <3>3, StepIs, DeployAt DEF CalmInv, CalmDeploy, At
      <4> QED
        BY <2>4, <3>2, <4>1 DEF Grant
    <3> QED
      BY <2>2, <2>4, <3>1, <3>2, <3>3, StepIs DEF MakeRole, Record
  <2>6. proc[s].agent = subject
    <3>1. At(s, "apply") \/ At(s, "await")
      BY <2>5 DEF Apply, Await
    <3> QED
      BY <2>0, <3>1, DeployAt
  <2>7. CASE Apply(s)
    <3>1. At(s, "apply")
      BY <2>7 DEF Apply
    <3> QED
      BY <1>1, <2>0, <2>7, <3>1, ApplyRefuses
  <2>8. CASE Await(s)
    <3>1. /\ runtime[subject].id = proc[s].id /\ runtime[subject].status \in Ends
          /\ runtime[subject].status = "FAILED" => subject \notin image
      BY <2>0, <2>3, <2>8 DEF CalmInv, CalmDeploy, Await
    <3>2. runtime[subject].status # "READY" /\ runtime[subject].status \notin Settling
      BY <2>4, <2>6, <2>8, <3>1 DEF Await
    <3> QED
      BY <3>1, <3>2 DEF Ends, Settling
  <2> QED
    BY <2>5, <2>7, <2>8
<1>2. IInv /\ [Next]_vars
        => [\A s \in Scripts :
              LET p == proc[s]
                  a == proc[s].agent
              IN  p.kind = "deploy" /\ p.ok /\ ~proc'[s].ok /\ proc'[s].calm
                    => \/ a \notin image
                       \/ record[a] = Cut
                       \/ At(s, "apply") /\ runtime[a].status \in Settling
                       \/ a \notin Adopters /\ runtime[a].id # record[a]]_vars
  <2>1. ASSUME IInv, NEW s \in Scripts, proc[s].kind = "deploy"
        PROVE  proc[s].agent = subject
    BY <2>1 DEF IInv, PlanInv
  <2> QED
    BY <1>1, <2>1
<1> QED
  BY <1>2, Inductive, PTL DEF Spec, CalmDeploysSucceed
=============================================================================

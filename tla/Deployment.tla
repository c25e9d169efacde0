---------------------------- MODULE Deployment -----------------------------
(***************************************************************************)
(* What the operator's scripts leave in the account and on the disk: the   *)
(* deploy.py and cleanup.py of each coding agent, the Kiro key the console *)
(* puts in the Token Vault (kiro_config.py), the coordinator's project     *)
(* (configure_deploy.py) and the shelf the console shows                   *)
(* (interactive_api.py).  A script is a sequence of steps, each one call   *)
(* that changes the account, with what is looked up for it, or one write   *)
(* of a file.  Scripts overlap, die between two steps, or are answered an  *)
(* error; they are run again over whatever is left.  There is no lock.     *)
(*                                                                         *)
(* External: the account.  A runtime settles in its own time; a name is    *)
(* held by one runtime; a runtime that is settling refuses an update; a    *)
(* deletion is over by the time cleanup.py has slept.                      *)
(*                                                                         *)
(* Abstracted: the region and the account's number; names and purposes on  *)
(* the shelf; the role of a runtime, which is always its agent's.          *)
(***************************************************************************)
EXTENDS Harness, Integers, FiniteSets

CONSTANTS
  Scripts,   \* scripts and requests that can be under way together
  Keys,      \* API keys that can be pasted
  Exports,   \* the sets of settings an operator may export to deploy.py
  MaxStarts, \* bound: the scripts started
  MaxFaults  \* bound: the deaths and the errors

ASSUME DeploymentAssumption ==
  /\ Exports \subseteq SUBSET {"gateway", "model"}
  /\ {MaxStarts, MaxFaults} \subseteq Nat

VARIABLES
  subject,   \* the agent the scripts are run for; the others are deployed
  runtime,   \* the account: the runtime under each agent's name
  role,      \* the account: the agents whose execution role exists
  policy,    \* the account: the inline policy of each agent's role
  image,     \* the account: the agents whose image is in the registry
  vault,     \* the account: the key of the credential provider
  workload,  \* the account: the workload identity exists
  ap,        \* infra.config names the access point
  record,    \* runtime_config.json of each agent: the id it names
  uri,       \* the agents whose agent.config names an image
  sidecar,   \* kiro.local.json: the key whose tail it keeps
  project,   \* agentcore.json: the runtime of each role, once configured
  targets,   \* aws-targets.json is there
  shelf,     \* _AGENTS: the runtime each ready record of the catalogue names
  proc,      \* the scripts
  starts, faults, made, \* scripts started, faults dealt, runtimes created
  ready,     \* history: the runtimes that have been READY
  held,      \* history: the keys the vault has held
  revoked    \* history: the agents whose policy a cleanup has taken since it was put

vars == <<subject, runtime, role, policy, image, vault, workload, ap, record,
          uri, sidecar, project, targets, shelf, proc, starts, faults, made,
          ready, held, revoked>>

iam      == <<role, policy, revoked>>
registry == <<image, made>>
identity == <<vault, workload, held>>
files    == <<record, uri>>
console  == <<sidecar, shelf>>
planned  == <<project, targets>>
fixed    == <<subject, ap, starts, ready>>

\* No runtime; a runtime_config.json that was truncated and not dumped.
Nothing == 0
Cut     == -1

NoKey == "no key"

NoRuntime == [id |-> Nothing, status |-> "GONE", uses |-> {}]
NoPolicy  == [grants |-> {}, scope |-> "nothing"]

Settling == {"CREATING", "UPDATING"}

\* ROLES of configure_deploy.py.
Coordinated == {"claude-code", "opencode", "claude-code-validator"}

---------------------------------------------------------------------------
\* Scripts.

Idle == [kind |-> "none", agent |-> "none", todo |-> <<>>, ok |-> TRUE,
         calm |-> TRUE, exported |-> {}, ap |-> FALSE, id |-> Nothing,
         key |-> NoKey, arns |-> <<>>]

At(s, step) == proc[s].todo # <<>> /\ Head(proc[s].todo) = step

Goes(s, p) == proc' = [proc EXCEPT ![s] = [p EXCEPT !.todo = Tail(@)]]

GoesOn(s) == Goes(s, proc[s])

Fails(s, calm) ==
  proc' = [proc EXCEPT ![s].todo = <<>>, ![s].ok = FALSE,
                       ![s].calm = @ /\ calm]

\* A fault the environment deals.
Strikes == faults < MaxFaults /\ faults' = faults + 1

\* A step of a best-effort call: it takes, or it warns and nothing is done.
BestEffort(s, effect, nothing) ==
  /\ \/ effect /\ UNCHANGED faults
     \/ Strikes /\ nothing
  /\ GoesOn(s)

\* The scripts under way for an agent: they disturb each other.
Busy(a) == {s \in Scripts : proc[s].todo # <<>> /\ proc[s].agent = a}

Stirred(a) ==
  [s \in Scripts |->
     IF s \in Busy(a) THEN [proc[s] EXCEPT !.calm = FALSE] ELSE proc[s]]

Begins(s, p) ==
  /\ proc[s].todo = <<>> /\ starts < MaxStarts
  /\ starts' = starts + 1
  /\ proc' = [Stirred(p.agent) EXCEPT
               ![s] = [p EXCEPT !.calm = Busy(p.agent) = {}]]
  /\ UNCHANGED <<subject, runtime, iam, registry, identity, ap, files,
                 console, planned, faults, ready>>

---------------------------------------------------------------------------
\* deploy.py.

\* The prerequisites: infra.config is always there, ECR_URI with agent.config.
Deploy(s, exported) ==
  /\ subject \in uri
  /\ Begins(s, [Idle EXCEPT !.kind = "deploy", !.agent = subject,
                            !.todo = DeploySteps, !.exported = exported,
                            !.ap = ap])

\* Mutant: with no access point the statement names empty ARNs.
EmptyScope(known) == IF known THEN "point" ELSE "nothing"

\* _s3files_policy_resources: this access point, or all of the account's.
Scope(known) == IF known THEN "point" ELSE "account"

\* create_execution_role: the role is made, or is there ...
MakeRole(s) ==
  /\ At(s, "role")
  /\ \/ role' = role \cup {proc[s].agent} /\ GoesOn(s) /\ UNCHANGED faults
     \/ Strikes /\ Fails(s, FALSE) /\ UNCHANGED role
  /\ UNCHANGED <<fixed, runtime, policy, revoked, registry, identity, files,
                 console, planned>>

\* ... and its policy rewritten, unless the role has gone meanwhile.
Grant(s) ==
  LET a == proc[s].agent IN
  /\ At(s, "grant")
  /\ \/ /\ a \in role
        /\ policy' = [policy EXCEPT ![a] = [grants |-> Role(a), scope |-> Scope(proc[s].ap)]]
        /\ revoked' = revoked \ {a}
        /\ GoesOn(s)
        /\ UNCHANGED faults
     \/ a \notin role /\ Fails(s, TRUE) /\ UNCHANGED <<policy, revoked, faults>>
     \/ Strikes /\ Fails(s, FALSE) /\ UNCHANGED <<policy, revoked>>
  /\ UNCHANGED <<fixed, runtime, role, registry, identity, files, console, planned>>

\* update_agent_runtime of what stands under the name.
Update(s, a) ==
  /\ IF runtime[a].status \in Settling
     THEN Fails(s, TRUE) /\ UNCHANGED runtime
     ELSE /\ runtime' = [runtime EXCEPT ![a].status = "UPDATING",
               ![a].uses = Uses(a, proc[s].exported, proc[s].ap)]
          /\ Goes(s, [proc[s] EXCEPT !.id = runtime[a].id])
  /\ UNCHANGED made

\* create_agent_runtime of a name that is free.
Create(s, a) ==
  /\ made' = made + 1
  /\ runtime' = [runtime EXCEPT ![a] =
        [id |-> made + 1, status |-> "CREATING",
         uses |-> Uses(a, proc[s].exported, proc[s].ap)]]
  /\ Goes(s, [proc[s] EXCEPT !.id = made + 1])

\* Mutant: a name that is taken fails the script.
ConflictFails(s, a) == Fails(s, TRUE) /\ UNCHANGED <<runtime, made>>

\* ConflictException: the runtime of this name is looked up and updated, by
\* the scripts that handle it.
Conflict(s, a) ==
  IF a \in Adopters THEN Update(s, a)
  ELSE Fails(s, TRUE) /\ UNCHANGED <<runtime, made>>

\* deploy_runtime, up to the wait.
Apply(s) ==
  LET a == proc[s].agent IN
  /\ At(s, "apply")
  /\ \/ /\ IF record[a] = Cut
           THEN Fails(s, TRUE) /\ UNCHANGED <<runtime, made>>
           ELSE IF runtime[a] = NoRuntime THEN Create(s, a)
           ELSE IF runtime[a].id = record[a] THEN Update(s, a)
           ELSE Conflict(s, a)
        /\ UNCHANGED faults
     \/ Strikes /\ Fails(s, FALSE) /\ UNCHANGED <<runtime, made>>
  /\ UNCHANGED <<fixed, iam, image, identity, files, console, planned>>

\* External: a runtime comes up if it has its image and its role a policy.
Settle(a) ==
  /\ runtime[a].status \in Settling
  /\ \/ /\ runtime' = [runtime EXCEPT ![a].status =
             IF a \in image /\ policy[a] # NoPolicy THEN "READY" ELSE "FAILED"]
        /\ ready' = IF runtime'[a].status = "READY"
                    THEN ready \cup {<<a, runtime[a].id>>} ELSE ready
        /\ UNCHANGED <<faults, proc>>
     \/ /\ Strikes
        /\ runtime' = [runtime EXCEPT ![a].status = "FAILED"]
        /\ proc' = Stirred(a)
        /\ UNCHANGED ready
  /\ UNCHANGED <<subject, ap, starts, iam, registry, identity, files, console,
                 planned>>

\* Mutant: whatever ends the wait is taken for READY.
AwaitSettled(s) ==
  LET r == runtime[proc[s].agent] IN
  /\ At(s, "await") /\ r.status \notin Settling
  /\ IF r.id = proc[s].id THEN GoesOn(s) ELSE Fails(s, TRUE)
  /\ UNCHANGED <<fixed, runtime, iam, registry, identity, files, console,
                 planned, faults>>

\* The loop that waits for READY.
Await(s) ==
  LET r == runtime[proc[s].agent] IN
  /\ At(s, "await") /\ r.status \notin Settling
  /\ IF r.id = proc[s].id /\ r.status = "READY"
     THEN GoesOn(s)
     ELSE Fails(s, TRUE)
  /\ UNCHANGED <<fixed, runtime, iam, registry, identity, files, console,
                 planned, faults>>

\* main: runtime_config.json, truncated and dumped into.
Record(s) ==
  /\ At(s, "record")
  /\ record' = [record EXCEPT ![proc[s].agent] = proc[s].id]
  /\ GoesOn(s)
  /\ UNCHANGED <<fixed, runtime, iam, registry, identity, uri, console,
                 planned, faults>>

---------------------------------------------------------------------------
\* cleanup.py.  With no record, or one it cannot read, it does nothing.

Cleanup(s, keep) ==
  /\ record[subject] \notin {Nothing, Cut}
  /\ Begins(s, [Idle EXCEPT !.kind = "cleanup", !.agent = subject,
                            !.todo = CleanupSteps(subject, keep),
                            !.id = record[subject]])

\* delete_agent_runtime: of another id, of none, or failing, it is a warning.
Delete(s) ==
  LET a == proc[s].agent IN
  /\ At(s, "delete")
  /\ BestEffort(s,
       IF runtime[a].id = proc[s].id
       THEN runtime' = [runtime EXCEPT ![a] = NoRuntime]
       ELSE UNCHANGED runtime,
       UNCHANGED runtime)
  /\ UNCHANGED <<fixed, iam, registry, identity, files, console, planned>>

\* list_role_policies and delete_role_policy.  Where the role is not there, or
\* a call fails, the role is let alone.
Revoke(s) ==
  LET a == proc[s].agent IN
  /\ At(s, "revoke")
  /\ \/ /\ a \in role
        /\ policy' = [policy EXCEPT ![a] = NoPolicy]
        /\ revoked' = IF policy[a] = NoPolicy THEN revoked ELSE revoked \cup {a}
        /\ GoesOn(s)
        /\ UNCHANGED faults
     \/ /\ IF a \in role THEN Strikes ELSE UNCHANGED faults
        /\ Goes(s, [proc[s] EXCEPT !.ok = FALSE])
        /\ UNCHANGED <<policy, revoked>>
  /\ UNCHANGED <<fixed, runtime, role, registry, identity, files, console, planned>>

\* delete_role: refused while the role has a policy.
DropRole(s) ==
  LET a == proc[s].agent IN
  /\ At(s, "unrole")
  /\ BestEffort(s,
       IF proc[s].ok /\ policy[a] = NoPolicy THEN role' = role \ {a} ELSE UNCHANGED role,
       UNCHANGED role)
  /\ UNCHANGED <<fixed, runtime, policy, revoked, registry, identity, files,
                 console, planned>>

\* delete_repository, and its images.
DropImage(s) ==
  /\ At(s, "repo")
  /\ BestEffort(s, image' = image \ {proc[s].agent}, UNCHANGED image)
  /\ UNCHANGED <<fixed, runtime, iam, made, identity, files, console, planned>>

\* destroy_identity; the first of the calls of clear_api_key.
DropProvider(s) ==
  /\ At(s, "provider")
  /\ BestEffort(s, vault' = NoKey, UNCHANGED vault)
  /\ UNCHANGED <<fixed, runtime, iam, registry, workload, held, files,
                 console, planned>>

DropWorkload(s) ==
  /\ At(s, "workload")
  /\ BestEffort(s, workload' = FALSE, UNCHANGED workload)
  /\ UNCHANGED <<fixed, runtime, iam, registry, vault, held, files, console,
                 planned>>

\* The local files go, whatever was answered.
Unrecord(s) ==
  /\ At(s, "unrecord")
  /\ record' = [record EXCEPT ![proc[s].agent] = Nothing]
  /\ GoesOn(s)
  /\ UNCHANGED <<fixed, runtime, iam, registry, identity, uri, console,
                 planned, faults>>

Unset(s) ==
  /\ At(s, "unset")
  /\ uri' = uri \ {proc[s].agent}
  /\ GoesOn(s)
  /\ UNCHANGED <<fixed, runtime, iam, registry, identity, record, console,
                 planned, faults>>

---------------------------------------------------------------------------
\* kiro_config.py.

\* save_api_key of a key of the right shape.
SaveSteps == <<"ensure", "store", "sidecar">>

SaveKey(s, k) ==
  Begins(s, [Idle EXCEPT !.kind = "key", !.todo = SaveSteps, !.key = k])

\* clear_api_key.
ClearKey(s) ==
  Begins(s, [Idle EXCEPT !.kind = "key", !.todo = <<"provider", "forget">>])

\* _ensure_workload: get, else create; an error of either is swallowed.
Ensure(s) ==
  /\ At(s, "ensure")
  /\ BestEffort(s, workload' = TRUE, UNCHANGED workload)
  /\ UNCHANGED <<fixed, runtime, iam, registry, vault, held, files, console,
                 planned>>

\* _provision_vault: get and update, else create.  An update whose answer is
\* lost, or a get that fails, ends in a create that is refused.
Store(s) ==
  /\ At(s, "store")
  /\ \/ /\ vault' = proc[s].key /\ held' = held \cup {proc[s].key}
        /\ GoesOn(s)
        /\ UNCHANGED faults
     \/ /\ Strikes /\ vault # NoKey
        /\ vault' = proc[s].key /\ held' = held \cup {proc[s].key}
        /\ Fails(s, FALSE)
     \/ Strikes /\ Fails(s, FALSE) /\ UNCHANGED <<vault, held>>
  /\ UNCHANGED <<fixed, runtime, iam, registry, workload, files, console,
                 planned>>

\* _write_sidecar.
WriteStatus(s) ==
  /\ At(s, "sidecar")
  /\ sidecar' = proc[s].key
  /\ GoesOn(s)
  /\ UNCHANGED <<fixed, runtime, iam, registry, identity, files, shelf,
                 planned, faults>>

\* clear_api_key drops the sidecar even when the provider is still there.
Forget(s) ==
  /\ At(s, "forget")
  /\ sidecar' = NoKey
  /\ GoesOn(s)
  /\ UNCHANGED <<fixed, runtime, iam, registry, identity, files, shelf,
                 planned, faults>>

---------------------------------------------------------------------------
\* configure_deploy.py.

Configure(s) ==
  Begins(s, [Idle EXCEPT !.kind = "configure",
                         !.todo = <<"collect", "replace", "pin">>])

\* _runtime_arns: all of the roles' records, or the script ends.
Collect(s) ==
  /\ At(s, "collect")
  /\ IF \E a \in Coordinated : record[a] \in {Nothing, Cut}
     THEN Fails(s, FALSE)
     ELSE Goes(s, [proc[s] EXCEPT !.arns = [a \in Coordinated |-> record[a]]])
  /\ UNCHANGED <<fixed, runtime, iam, registry, identity, files, console,
                 planned, faults>>

\* os.replace of agentcore.json by the file written beside it.
Replace(s) ==
  /\ At(s, "replace")
  /\ project' = proc[s].arns
  /\ GoesOn(s)
  /\ UNCHANGED <<fixed, runtime, iam, registry, identity, files, console,
                 targets, faults>>

\* aws-targets.json.
Pin(s) ==
  /\ At(s, "pin")
  /\ targets' = TRUE
  /\ GoesOn(s)
  /\ UNCHANGED <<fixed, runtime, iam, registry, identity, files, console,
                 project, faults>>

---------------------------------------------------------------------------
\* The shelf of the console.

\* _real_runtime_for.
Real(a) == IF record[a] = Cut THEN Nothing ELSE record[a]

\* _public_agent: the record if there is one, else what memory says.
Shown(a) == IF Real(a) # Nothing THEN Real(a) ELSE shelf[a]

\* POST /api/agents/deploy: memory is brought in line with the record.
ShelfDeploy(a) ==
  /\ shelf' = [shelf EXCEPT ![a] = Real(a)]
  /\ UNCHANGED <<fixed, runtime, iam, registry, identity, files, sidecar,
                 planned, proc, faults>>

\* POST /api/agents/reset, reset_to_clean_state.
ShelfReset ==
  /\ shelf' = [a \in Agents |-> Nothing]
  /\ UNCHANGED <<fixed, runtime, iam, registry, identity, files, sidecar,
                 planned, proc, faults>>

---------------------------------------------------------------------------
\* Faults, and the operator.

\* A script dies between two steps, or in the middle of the file it writes;
\* with the console die its requests, and the shelf is back to the catalogue.
Die(s) ==
  /\ proc[s].todo # <<>> /\ Strikes
  /\ record' = IF At(s, "record") /\ proc[s].id # record[proc[s].agent]
               THEN [record EXCEPT ![proc[s].agent] = Cut] ELSE record
  /\ IF proc[s].kind = "key"
     THEN /\ proc' = [t \in Scripts |->
                        IF proc[t].kind = "key" THEN Idle ELSE proc[t]]
          /\ shelf' = [a \in Agents |-> Nothing]
     ELSE /\ proc' = [proc EXCEPT ![s] = Idle]
          /\ UNCHANGED shelf
  /\ UNCHANGED <<fixed, runtime, iam, registry, identity, uri, sidecar,
                 planned>>

\* External: setup.sh builds and pushes the image and writes agent.config.
Setup(a) ==
  /\ image' = image \cup {a} /\ uri' = uri \cup {a}
  /\ proc' = Stirred(a)
  /\ UNCHANGED <<fixed, runtime, iam, made, identity, record, console,
                 planned, faults>>

\* External: the access point is created and named in infra.config.
NameAccessPoint ==
  /\ ap' = TRUE
  /\ UNCHANGED <<subject, starts, ready, runtime, iam, registry, identity,
                 files, console, planned, proc, faults>>

---------------------------------------------------------------------------
\* One agent is not deployed yet; the others were when the box booted, with
\* no access point.
Init ==
  /\ subject \in Agents
  /\ runtime = [a \in Agents |-> IF a = subject THEN NoRuntime
       ELSE [id |-> 1, status |-> "READY", uses |-> Uses(a, {}, FALSE)]]
  /\ role = Agents \ {subject} /\ revoked = {}
  /\ policy = [a \in Agents |-> IF a = subject THEN NoPolicy
       ELSE [grants |-> Role(a), scope |-> Scope(FALSE)]]
  /\ image = Agents /\ uri = Agents
  /\ vault = NoKey /\ workload = FALSE /\ held = {NoKey}
  /\ ap = FALSE
  /\ record = [a \in Agents |-> IF a = subject THEN Nothing ELSE 1]
  /\ sidecar = NoKey
  /\ project = <<>> /\ targets = FALSE
  /\ shelf = [a \in Agents |-> Nothing]
  /\ proc = [s \in Scripts |-> Idle]
  /\ starts = 0 /\ faults = 0 /\ made = 1
  /\ ready = {<<a, 1>> : a \in Agents \ {subject}}

Starts(s) ==
  \/ \E exported \in Exports : Deploy(s, exported)
  \/ \E keep \in BOOLEAN : Cleanup(s, keep)
  \/ \E k \in Keys : SaveKey(s, k)
  \/ ClearKey(s)
  \/ Configure(s)

Step(s) ==
  \/ MakeRole(s) \/ Grant(s) \/ Apply(s) \/ Await(s) \/ Record(s)
  \/ Delete(s) \/ Revoke(s) \/ DropRole(s) \/ DropImage(s) \/ Unrecord(s) \/ Unset(s)
  \/ DropProvider(s) \/ DropWorkload(s)
  \/ Ensure(s) \/ Store(s) \/ WriteStatus(s) \/ Forget(s)
  \/ Collect(s) \/ Replace(s) \/ Pin(s)

Next ==
  \/ \E s \in Scripts : Starts(s) \/ Step(s) \/ Die(s)
  \/ Settle(subject) \/ ShelfDeploy(subject) \/ Setup(subject)
  \/ ShelfReset
  \/ NameAccessPoint

Spec == Init /\ [][Next]_vars

---------------------------------------------------------------------------
\* A deployment that meets no error, and no other script of its agent,
\* succeeds, whatever the scripts before it have left: a role without a policy
\* or without a runtime, a runtime that no file names, a record of a runtime
\* that is gone.  It is refused only with no image in the registry, by a record
\* that was cut, by a runtime that is still settling because the script before
\* it died, and, by the two scripts that do not adopt, by a runtime of its name
\* that the record does not name (create_execution_role, deploy_runtime).
CalmDeploysSucceed ==
  [][\A s \in Scripts :
       LET p == proc[s]
           a == proc[s].agent
       IN  p.kind = "deploy" /\ p.ok /\ ~proc'[s].ok /\ proc'[s].calm
             => \/ a \notin image
                \/ record[a] = Cut
                \/ At(s, "apply") /\ runtime[a].status \in Settling
                \/ a \notin Adopters /\ runtime[a].id # record[a]]_vars

\* What the files, the shelf and the coordinator's project say was once true:
\* each runtime they name has been READY, and the key whose tail the console
\* shows has been in the vault (the wait of deploy_runtime, the order of
\* save_api_key).
RecordsWereTrue ==
  /\ \A a \in Agents :
       \A id \in {Real(a), shelf[a], Shown(a)} \ {Nothing} : <<a, id>> \in ready
  /\ \A a \in DOMAIN project : <<a, project[a]>> \in ready
  /\ sidecar \in held

\* A runtime has a role, whose policy grants all that the runtime is configured
\* to use, its file system too, unless a cleanup has taken the policy since it
\* was last put (create_execution_role before deploy_runtime, at every run).
RuntimeIsGranted ==
  \A a \in Agents \ revoked :
    runtime[a] # NoRuntime =>
      /\ a \in role
      /\ {Needs(u) : u \in runtime[a].uses} \subseteq policy[a].grants
      /\ "mount" \in runtime[a].uses => policy[a].scope # "nothing"
===========================================================================

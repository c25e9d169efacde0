------------------------------ MODULE Harness ------------------------------
(***************************************************************************)
(* The five coding agents under coding-agents/, each with a deploy.py and  *)
(* a cleanup.py of its own.  What differs between them is written here as  *)
(* data: the statements of the execution role's policy, what the runtime   *)
(* is configured with, whether a runtime of the same name is adopted, and  *)
(* the steps of the cleanup.  What they share is in Deployment.            *)
(*                                                                         *)
(* Abstracted: the actions and resources inside a statement, but for the   *)
(* file systems of S3Files; the network; the image's name.                 *)
(***************************************************************************)
EXTENDS Sequences

Adopters == {"opencode", "codex", "kiro"}

Agents == Adopters \cup {"claude-code", "claude-code-validator"}

---------------------------------------------------------------------------
\* create_execution_role: the statements of the inline policy.

Shared ==
  {"Logs", "BedrockInvoke", "ECRAuth", "ECRPull", "S3Files", "EFS",
   "S3Bucket", "AgentCoreGateway", "EventBridge"}

ClaudeRole == Shared \cup {"Telemetry", "AssumePerUser"}

ValidatorRole == Shared \cup {"Telemetry", "AssumePerUser"}

OpencodeRole ==
  Shared \cup {"Telemetry", "AgentCoreIdentity", "BedrockApiKey"}

CodexRole ==
  Shared \cup {"BedrockMantle", "AgentCoreIdentity", "BedrockApiKey"}

KiroRole ==
  Shared \cup {"Telemetry", "AgentCoreIdentity", "SecretsManagerForTokenVault"}

Role(a) ==
  CASE a = "claude-code" -> ClaudeRole
    [] a = "claude-code-validator" -> ValidatorRole
    [] a = "opencode" -> OpencodeRole
    [] a = "codex" -> CodexRole
    [] a = "kiro" -> KiroRole

\* The statement that lets a runtime use what it is configured with.
Needs(use) ==
  CASE use = "mount" -> "S3Files"
    [] use = "gateway" -> "AgentCoreGateway"
    [] use = "model" -> "BedrockInvoke"
    [] use = "mantle" -> "BedrockMantle"
    [] use = "users" -> "AssumePerUser"
    [] use = "key" -> "SecretsManagerForTokenVault"

---------------------------------------------------------------------------
\* deploy_runtime: what a runtime is configured to use, given the settings
\* exported to the script ("gateway", GATEWAY_URL; "model", WORKSHOP_MODEL)
\* and whether the access point is known.

Mounted(ap) == IF ap THEN {"mount"} ELSE {}

ClaudeRuntime(exported, ap) ==
  {"users"} \cup (exported \cap {"model"}) \cup Mounted(ap)

ValidatorRuntime(exported, ap) ==
  {"users"} \cup (exported \cap {"model"}) \cup Mounted(ap)

OpencodeRuntime(exported, ap) == (exported \cap {"gateway"}) \cup Mounted(ap)

CodexRuntime(exported, ap) ==
  {"mantle"} \cup (exported \cap {"gateway"}) \cup Mounted(ap)

\* The key is never in the environment: the runtime fetches it by its role.
KiroRuntime(exported, ap) ==
  {"key"} \cup (exported \cap {"gateway"}) \cup Mounted(ap)

Uses(a, exported, ap) ==
  CASE a = "claude-code" -> ClaudeRuntime(exported, ap)
    [] a = "claude-code-validator" -> ValidatorRuntime(exported, ap)
    [] a = "opencode" -> OpencodeRuntime(exported, ap)
    [] a = "codex" -> CodexRuntime(exported, ap)
    [] a = "kiro" -> KiroRuntime(exported, ap)

---------------------------------------------------------------------------
\* The steps of the scripts.

DeploySteps == <<"role", "grant", "apply", "await", "record">>

ClaudeCleanup == <<"delete", "revoke", "unrole", "repo", "unrecord", "unset">>

ValidatorCleanup == <<"delete", "revoke", "unrole", "repo", "unrecord", "unset">>

OpencodeCleanup == <<"delete", "revoke", "unrole", "repo", "unrecord", "unset">>

CodexCleanup == <<"delete", "revoke", "unrole", "unrecord", "unset">>

\* keep is --keep-identity.
KiroCleanup(keep) ==
  <<"delete", "revoke", "unrole">>
    \o (IF keep THEN <<>> ELSE <<"provider", "workload">>)
    \o <<"unrecord", "unset">>

CleanupSteps(a, keep) ==
  CASE a = "claude-code" -> ClaudeCleanup
    [] a = "claude-code-validator" -> ValidatorCleanup
    [] a = "opencode" -> OpencodeCleanup
    [] a = "codex" -> CodexCleanup
    [] a = "kiro" -> KiroCleanup(keep)
===========================================================================

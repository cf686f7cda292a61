---------------------------- MODULE SecurityGate ----------------------------
(***************************************************************************)
(* What a dispatch has to pass before an executor is called                 *)
(* (security/service.py, security/opa.py, domain/security/hooks.py), and    *)
(* the bundle the workflow builds for it (workflows/execution_policy.py).   *)
(*                                                                          *)
(* A path is a member of Path.  The code compares paths by their names only,*)
(* in two ways: Prefixed is startswith, Beneath is _is_path_under_root.  It *)
(* resolves nothing: the name of a path that goes up again with "..", or    *)
(* leads away over a link, is beneath the names it starts with, so that     *)
(* neither relation says where a path leads.  A command stands for all      *)
(* those with the same prefixes in the lists.                               *)
(***************************************************************************)
EXTENDS Naturals, Sequences

CONSTANTS
  Path,
  Command,
  Beneath,    \* <<p, r>>: without slashes at their ends, the name of p is
              \* that of r, or starts with it and a slash
  Prefixed,   \* <<p, r>>: the name of p starts with the name of r
  Hooks,      \* the hooks registered with the pipeline, in order
  OpaEnabled  \* settings.opa_enabled

Hook == [before : BOOLEAN,       \* phase is before_tool
         concerns : BOOLEAN,     \* the allowlist is empty or names the tool
         idempotent : BOOLEAN,
         verdict : {"allow", "deny", "raise"}]

Bundle ==
  [root     : Path,              \* workspace.root_path
   allow    : SUBSET Path,       \* workspace_allowlist
   writable : SUBSET Path,       \* workspace.writable_paths
   inPlace  : BOOLEAN,           \* mode is worktree or direct
   manual   : BOOLEAN,           \* require_manual_approval_for_write
   glass    : BOOLEAN,           \* break_glass_reason is given
   commands : SUBSET Command,    \* proposed_commands
   only     : SUBSET Command,    \* command_allowlist
   never    : SUBSET Command,    \* command_denylist
   secrets  : BOOLEAN,           \* secret_usages is not empty
   broker   : BOOLEAN]           \* secret_broker_enabled

ASSUME GateAssumption ==
  /\ Beneath \cup Prefixed \subseteq Path \X Path
  /\ \A p \in Path : <<p, p>> \in Beneath \cap Prefixed
  /\ Hooks \in Seq(Hook)
  /\ OpaEnabled \in BOOLEAN

-----------------------------------------------------------------------------

(* ToolHookPipeline.run: one hook that concerns the call and denies it,     *)
(* fails or does not declare itself idempotent is enough.                   *)
HookDenies ==
  \E i \in DOMAIN Hooks :
    /\ Hooks[i].before /\ Hooks[i].concerns
    /\ ~Hooks[i].idempotent \/ Hooks[i].verdict # "allow"

(* The root has to start with an entry of the allowlist.                    *)
RootAllowed(b) == \E r \in b.allow : <<b.root, r>> \in Prefixed

(* _is_command_blocked: the denylist, then the allowlist if there is one.   *)
Blocked(b) == {c \in b.commands : c \in b.never \/ (b.only # {} /\ c \notin b.only)}

(* _check_workspace_isolation: the name of every writable path is beneath   *)
(* that of the root, and beneath an entry of the allowlist if there is one. *)
Isolated(b) ==
  \A p \in b.writable :
    /\ <<p, b.root>> \in Beneath
    /\ b.allow = {} \/ \E r \in b.allow : <<p, r>> \in Beneath

WriteExecution(b) == b.inPlace /\ b.writable # {}

(* Mutant of OpaWrite: the paths are not looked at.                         *)
OpaWriteAnyPath(b) == b.manual /\ ~b.glass

(* The execution policy of OpaPolicyEngine: an empty allowlist passes, and  *)
(* the write gate asks for the paths and not for the mode.  (Its file is    *)
(* there: without execution.rego the engine denies everything.)             *)
OpaWrite(b) == b.manual /\ b.writable # {} /\ ~b.glass
OpaDenies(b) ==
  \/ b.allow # {} /\ ~RootAllowed(b)
  \/ Blocked(b) # {}
  \/ OpaWrite(b)

(* The gates of SecurityPolicyService.evaluate after the hooks and OPA.     *)
NativeDenies(b) ==
  \/ ~RootAllowed(b)
  \/ ~Isolated(b)
  \/ Blocked(b) # {}
  \/ b.manual /\ WriteExecution(b)
  \/ b.secrets /\ ~b.broker

(* evaluate: the first gate that fails asks for an approval.                *)
NeedsApproval(b) == HookDenies \/ (OpaEnabled /\ OpaDenies(b)) \/ NativeDenies(b)

-----------------------------------------------------------------------------

(* What a workflow is started with, as far as the gate is concerned.        *)
Policy ==
  [root : Path, allow : SUBSET Path, writable : SUBSET Path,
   gated : BOOLEAN,      \* task.requires_approval
   full : BOOLEAN]       \* break-glass access

(* workspace_writable_paths: the paths approved, if any were, take the      *)
(* place of those asked for.                                                *)
WritablePaths(policy, granted, paths) ==
  IF granted /\ paths # {} THEN paths ELSE policy.writable

(* ExecutorInputBundle.model_validate: PermissionPolicy has no field for a   *)
(* break-glass reason and forbids fields it does not have.                  *)
Accepted(b) == ~b.glass

(* build_executor_dispatch_payload: it proposes no command and uses no      *)
(* secret; an approval that was granted lifts the manual gate.              *)
BuildBundle(policy, granted, paths) ==
  [root |-> policy.root,
   allow |-> IF policy.full \/ policy.allow = {} THEN {policy.root} ELSE policy.allow,
   writable |-> WritablePaths(policy, granted, paths),
   inPlace |-> TRUE,
   manual |-> policy.gated /\ ~policy.full /\ ~granted,
   glass |-> policy.full,
   commands |-> {}, only |-> {}, never |-> {},
   secrets |-> FALSE, broker |-> policy.full]
=============================================================================

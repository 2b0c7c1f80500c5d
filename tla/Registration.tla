---------------------------- MODULE Registration ----------------------------
(***************************************************************************)
(* How callables become guarded: src/guardrail_evidence/guard.py (guard),  *)
(* wrap_tool.py (wrap_tool, wrap_tools) and the checks of contracts.py.    *)
(*                                                                         *)
(* A tool is [kind, mark, params]: what sort of object it is, whether it   *)
(* carries __guardrail_contract__, and the names of its parameters in      *)
(* order.  Settings are [action, valid, redact, metadata]: the action name *)
(* or Absent, whether risk, approval mode, action name and signature are   *)
(* acceptable, the further names to redact, and a value or Absent.         *)
(***************************************************************************)
EXTENDS Privacy

CONSTANT Refused   \* ToolWrapError, ContractError, UnsupportedFunctionError

Kinds == {"sync", "async", "generator", "not_callable"}

(* _prepare_metadata, as [ok, value] *)
PrepareMetadata(heap, sensitive, metadata) ==
  IF metadata = Absent THEN Canonical(Absent, {})
  ELSE IF metadata[1] # "ref" THEN Raised
  ELSE IF heap[metadata[2]].shape # "named" THEN Raised
  ELSE Canonicalize(heap, sensitive, metadata)

(* build_contract.  Its hash commits to all of it, and adds nothing here. *)
BuildContract(tool, settings) ==
  IF tool.kind # "generator" /\ settings.valid
  THEN [action |-> settings.action, params |-> tool.params]
  ELSE Refused

(* The contract, and what decorate puts into the closure of the wrapper *)
Declare(heap, tool, settings) ==
  LET contract  == BuildContract(tool, settings)
      sensitive == SensitiveSet(settings.redact)
      metadata  == PrepareMetadata(heap, sensitive, settings.metadata)
  IN  IF contract # Refused /\ metadata.ok
      THEN [action |-> contract.action, params |-> contract.params,
            sensitive |-> sensitive, metadata |-> metadata.value]
      ELSE Refused

(* guard(...)(tool) *)
Guard(heap, tool, settings) ==
  IF tool.kind \in {"sync", "async"} THEN Declare(heap, tool, settings) ELSE Refused

(* wrap_tool(tool, ...) *)
WrapTool(heap, tool, settings) ==
  IF tool.kind \in {"sync", "async"} /\ ~tool.mark
  THEN Declare(heap, tool, settings)
  ELSE Refused

(* wrap_tools: one action per tool, or nothing; settings[i] is Absent when *)
(* the configuration has no entry for the i-th tool.                       *)
WrapTools(heap, tools, settings) ==
  IF \A i \in DOMAIN tools :
       /\ settings[i] # Absent
       /\ settings[i].action # Absent
       /\ \A j \in 1..(i - 1) : settings[j].action # settings[i].action
       /\ WrapTool(heap, tools[i], settings[i]) # Refused
  THEN [i \in DOMAIN tools |-> WrapTool(heap, tools[i], settings[i])]
  ELSE Refused

=============================================================================

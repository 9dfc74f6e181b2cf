----------------------------- MODULE ToolRegistry ------------------------------
(***************************************************************************)
(* src/tools/tool_registry.py, for one capability: the definitions of the  *)
(* tools and the list of the names of those that have the capability.  The *)
(* constructor registers built-in definitions, the start-up of the         *)
(* application what it discovers, over them, and scan_for_new_tools        *)
(* (tool_registration.py) registers what is new.  A definition is replaced,*)
(* never changed: what was handed out stays as it is.                      *)
(***************************************************************************)
EXTENDS Naturals, Sequences

CONSTANTS Names,              \* names of tools
          MaxIndex            \* bound: entries of the capability index

\* What the router reads of a definition.
Definitions == [name : Names, cacheable : BOOLEAN]

VARIABLES tools,              \* self.tools, the definition of each name
          capability_index    \* self.capability_index of the capability

registry == <<tools, capability_index>>

NoTool == [name |-> "none", cacheable |-> FALSE]

RegistryInit ==
  /\ tools = [n \in Names |-> NoTool]
  /\ capability_index = <<>>

RegistryTypeOK ==
  /\ tools \in [Names -> Definitions \cup {NoTool}]
  /\ capability_index \in Seq(Names)
  /\ \A i \in DOMAIN capability_index : tools[capability_index[i]] \in Definitions

\* register_tool: the name is appended once more each time.
RegisterTool(t) ==
  /\ Len(capability_index) < MaxIndex
  /\ tools' = [tools EXCEPT ![t.name] = t]
  /\ capability_index' = Append(capability_index, t.name)

\* find_tools_by_capability.
FindTools == [i \in DOMAIN capability_index |-> tools[capability_index[i]]]
================================================================================

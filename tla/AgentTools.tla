----------------------------- MODULE AgentTools -----------------------------
(***************************************************************************)
(* Which tools a subagent gets (src/agent-types.ts getConfig and runAgent, *)
(* src/agent-runner.ts 628-868).  The configuration of the agent's type is *)
(* restricted by that of its parent's type when the agent starts, long     *)
(* after it was spawned when it was queued: the registry may have been     *)
(* reloaded and the parent's record removed by then.                       *)
(*                                                                         *)
(* Names that every module has begin with Tools here: the proofs extend    *)
(* this module and AgentRunner.                                            *)
(*                                                                         *)
(* Tool lists are sets.  Partitions are left out: no loader sets the       *)
(* membership that getConfig would filter by.                              *)
(***************************************************************************)

CONSTANTS
    Agents, Types,
    Builtin,        \* BUILTIN_TOOL_NAMES
    ReadOnly,       \* READ_ONLY_TOOLS
    Read, Writing,  \* the tools that read memory and that write it
    Ctx,            \* CTX_TOOL_NAMES
    Installed,      \* the context-mode package is there
    Other,          \* the tools of extensions
    Orchestration,  \* EXCLUDED_TOOL_NAMES, which this extension registers
    Exts, Matched,  \* the names of extensions, and the tools each one matches
    Every,          \* the permission true
    NoneAtAll,      \* the permission false
    Star,           \* the tool name "*"
    Unset,          \* builtinToolNames left out
    Missing,        \* no configuration of that name
    NoAgent,        \* no parent
    Waiting,        \* no session yet
    Configs         \* the configurations files and defaults can give

Names == Builtin \cup Ctx \cup Other

Permissions == {Every, NoneAtAll} \cup SUBSET Exts

Config == [enabled : BOOLEAN, tools : {Unset} \cup SUBSET (Names \cup {Star}),
           denied : SUBSET Names, exts : Permissions, ctx : BOOLEAN, memory : BOOLEAN]

ASSUME ToolsAssumption ==
    /\ ReadOnly \subseteq Builtin /\ Read \in ReadOnly
    /\ Writing \subseteq Builtin /\ Writing \cap ReadOnly = {}
    /\ Ctx \cap Builtin = {} /\ Other \cap (Builtin \cup Ctx) = {}
    /\ Orchestration \subseteq Other
    /\ Star \notin Names /\ \A tools \in SUBSET (Names \cup {Star}) : tools # Unset
    /\ Matched \in [Exts -> SUBSET Other]
    /\ Every # NoneAtAll /\ \A exts \in SUBSET Exts : exts \notin {Every, NoneAtAll}

ASSUME AgentsAssumption == NoAgent \notin Agents

ASSUME ConfigsAssumption == Configs \subseteq Config /\ Missing \notin Config

VARIABLES
    registry,  \* agents: the configuration of each type
    record,    \* the records of the manager: type, parent and the isolated option
    session    \* what runAgent gave the agent: the names of the tools that are let
               \* through, if the host has them, and what its prompt says

toolsVars == <<registry, record, session>>

-----------------------------------------------------------------------------
(* src/agent-types.ts.                                                     *)

Usable(t) == registry[t] # Missing /\ registry[t].enabled

\* normalizeBuiltinToolNames.
Normalized(tools) == IF Star \in tools THEN Builtin \cup (tools \ {Star}) ELSE tools

\* getToolNamesForType: an empty list counts as none.
TypeTools(t) ==
    IF Usable(t) /\ registry[t].tools \notin {Unset, {}}
    THEN Normalized(registry[t].tools) ELSE Builtin

\* Mutant: of two lists, and of a list under true, the parent's is taken.
IntersectPermissionOfParent(child, parent) ==
    IF parent = NoneAtAll \/ child = NoneAtAll THEN NoneAtAll ELSE parent

IntersectPermission(child, parent) ==
    IF parent = NoneAtAll \/ child = NoneAtAll THEN NoneAtAll
    ELSE IF parent = Every THEN child
    ELSE IF child = Every THEN parent
    ELSE child \cap parent

Unrestricted == [tools |-> Names, exts |-> Every, known |-> FALSE]

\* applyParentRestrictions.
Restricted(own, parent) ==
    IF parent.known
    THEN [tools |-> own.tools \cap parent.tools,
          exts |-> IntersectPermission(own.exts, parent.exts), known |-> TRUE]
    ELSE own

ReadOnlyFloor(parent) == parent.known /\ parent.tools \subseteq ReadOnly

\* The context-mode tools are added again after the restriction, as many of
\* them as the parent lists, or all when it lists none.
ContextTools(parent) ==
    IF parent.known /\ parent.tools \cap Ctx # {} THEN parent.tools \cap Ctx ELSE Ctx

\* getConfig; a type that is unknown or disabled is given the safe fallback.
GetConfig(t, parent) ==
    IF Usable(t)
    THEN LET config == registry[t]
             base == [tools |-> IF config.tools = Unset THEN Builtin ELSE Normalized(config.tools),
                      exts |-> config.exts, known |-> TRUE]
             own == Restricted(base, parent)
         IN  IF config.ctx /\ Installed /\ ~ReadOnlyFloor(parent)
             THEN [own EXCEPT !.tools = @ \cup ContextTools(parent)] ELSE own
    ELSE Restricted([tools |-> ReadOnly, exts |-> NoneAtAll, known |-> TRUE], parent)

-----------------------------------------------------------------------------
(* src/agent-manager.ts startAgent and src/agent-runner.ts runAgent.       *)

\* The parent's restrictions are those of its type, as it is registered now.
ParentConfig(a) ==
    LET p == record[a].parent
    IN  IF p # NoAgent /\ record[p] # Missing THEN GetConfig(record[p].type, Unrestricted)
        ELSE Unrestricted

Denied(t) == IF registry[t] = Missing THEN {} ELSE registry[t].denied

HasMemory(t) == registry[t] # Missing /\ registry[t].memory

\* Mutant: the denied tools count.
HasWriteToolsListed(t) == Writing \cap TypeTools(t) # {}

\* The memory block says whether the agent may write; it is written before the
\* parent's restrictions are applied.
HasWriteTools(t) == Writing \cap (TypeTools(t) \ Denied(t)) # {}

MemoryTools(t) ==
    IF ~HasMemory(t) THEN {} ELSE IF HasWriteTools(t) THEN {Read} \cup Writing ELSE {Read}

ToolNames(t, config) == (TypeTools(t) \cup MemoryTools(t)) \cap config.tools

\* Those the prompt then describes.
Injectable(t, config) ==
    IF registry[t] # Missing /\ registry[t].ctx /\ Installed
    THEN ((Ctx \cap config.tools) \ ToolNames(t, config)) \ Denied(t) ELSE {}

\* Of the tools of extensions, those their names let through.
FromExtensions(exts) ==
    IF exts = NoneAtAll THEN {}
    ELSE IF exts = Every THEN Other
    ELSE UNION {Matched[e] : e \in exts}

\* The tools the session starts with and the filter that follows.
Active(t, config, exts) ==
    ((ToolNames(t, config) \cup Injectable(t, config) \cup FromExtensions(exts)) \ Orchestration)
        \ Denied(t)

Session(a) ==
    LET t == record[a].type
        config == GetConfig(t, ParentConfig(a))
        exts == IF record[a].isolated THEN NoneAtAll ELSE config.exts
    IN  [tools |-> Active(t, config, exts),
         memory |-> IF ~HasMemory(t) THEN "none"
                    ELSE IF HasWriteTools(t) THEN "writable" ELSE "readonly",
         ctx |-> Injectable(t, config) # {}]

-----------------------------------------------------------------------------
ToolsInit ==
    /\ registry \in [Types -> Configs]
    /\ record = [a \in Agents |-> Missing]
    /\ session = [a \in Agents |-> Waiting]

\* reloadCustomAgents; a deleted file leaves no configuration of its name.
Reload(t) ==
    /\ \E config \in Configs \cup {Missing} : registry' = [registry EXCEPT ![t] = config]
    /\ UNCHANGED <<record, session>>

\* spawn: the parent is the agent that is running when it is called.
Spawn(a) ==
    /\ record[a] = Missing /\ session[a] = Waiting
    /\ \E t \in Types, p \in Agents \cup {NoAgent}, isolated \in BOOLEAN :
          /\ p # NoAgent => session[p] # Waiting /\ record[p] # Missing
          /\ record' = [record EXCEPT ![a] = [type |-> t, parent |-> p, isolated |-> isolated]]
    /\ UNCHANGED <<registry, session>>

\* startAgent and the part of runAgent that comes before its first await.
StartAgent(a) ==
    /\ record[a] # Missing /\ session[a] = Waiting
    /\ session' = [session EXCEPT ![a] = Session(a)]
    /\ UNCHANGED <<registry, record>>

\* cleanup and clearCompleted: of a record that has ended.
Remove(a) ==
    /\ record[a] # Missing /\ session[a] # Waiting
    /\ record' = [record EXCEPT ![a] = Missing]
    /\ UNCHANGED <<registry, session>>

ToolsNext ==
    \/ \E t \in Types : Reload(t)
    \/ \E a \in Agents : Spawn(a) \/ StartAgent(a) \/ Remove(a)

ToolsSpec == ToolsInit /\ [][ToolsNext]_toolsVars

-----------------------------------------------------------------------------
(* Properties.                                                             *)

Starting(a) == session[a] = Waiting /\ session'[a] # Waiting

\* What a type asks of extensions; the safe fallback asks nothing.
OwnExts(t) == IF Usable(t) THEN registry[t].exts ELSE NoneAtAll

\* No tool that an agent is given is one its own type denies.  A tool of an extension
\* that its type's list does not name is let through by the permissions of its own
\* type and of its parent's, and not at all when it is isolated.  And whatever the
\* memory, the wildcard, the fallback and the extensions add (getConfig and the filters
\* of runAgent), every tool is in the list of the parent's type, or let through by its
\* permission, or a context-mode tool where that type neither lists some nor is
\* read-only.
RestrictionsHold ==
    [][\A a \in Agents : Starting(a) =>
          LET t == record[a].type
              parent == ParentConfig(a)
              tools == session'[a].tools
              both == FromExtensions(OwnExts(t)) \cap FromExtensions(parent.exts)
          IN  /\ tools \cap Denied(t) = {}
              /\ (tools \cap Other) \ TypeTools(t) \subseteq
                    (IF record[a].isolated THEN {} ELSE both)
              /\ parent.known =>
                    tools \subseteq
                        parent.tools \cup FromExtensions(parent.exts)
                        \cup (IF ReadOnlyFloor(parent) THEN {} ELSE ContextTools(parent))]_toolsVars

\* The prompt describes what the session can do: memory is writable only if a
\* tool that writes is active, read-only if none is, and the context-mode tools
\* are described only if one is active (runAgent 673-731 with the filter at 848).
\* Of writable memory this holds only without a parent, for a type in use whose
\* list of tools is not empty.
PromptFitsTools ==
    [][\A a \in Agents : Starting(a) =>
          LET t == record[a].type
              s == session'[a]
          IN  /\ s.memory = "readonly" => s.tools \cap Writing = {}
              /\ s.ctx => s.tools \cap Ctx # {}
              /\ s.memory = "writable" /\ ~ParentConfig(a).known /\ Usable(t)
                    /\ registry[t].tools # {} => s.tools \cap Writing # {}]_toolsVars
=============================================================================

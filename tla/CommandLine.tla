----------------------------- MODULE CommandLine ----------------------------
(***************************************************************************)
(* From an AdapterConfig to the process that is launched: the options      *)
(* newConnectedClient builds (claude.go), the MCP configuration that       *)
(* becomes an extra argument (transport.go), and the command line of       *)
(* buildCommand (cli.go).                                                  *)
(*                                                                         *)
(* A configuration, or an Options value, is a record of naturals, one for  *)
(* each field, and 0 is Go's zero value, "not set"; which number stands    *)
(* for which text does not matter.  A command line is the set of its       *)
(* flags, each with its value: no flag depends on the place of another.    *)
(***************************************************************************)
EXTENDS Naturals

Unset == 0

\* The fields of AdapterConfig that docs/configuration.md describes and that
\* concern the process.  Name, Command and ContextWindow do not.
Fields == {"WorkDir", "Args", "Env", "SystemPrompt", "AppendSystemPrompt",
           "Model", "MaxThinkingTokens", "PermissionMode", "SessionID",
           "ContinueSession", "MCPServers", "AllowedTools", "DisallowedTools",
           "Agents"}

\* PermissionPlan and PermissionAcceptAll; any other value is the default.
Plan == 1
AcceptAll == 2

PermissionMode(mode) ==
    CASE mode = Plan      -> "plan"
      [] mode = AcceptAll -> "bypassPermissions"
      [] OTHER            -> "default"

DefaultThinkingTokens == 8000

\* The Options of newConnectedClient: NewOptions' defaults, and an Option for
\* each field of the configuration that is set and has one.
ClientOptions(cfg) ==
    [AllowedTools         |-> cfg.AllowedTools,
     DisallowedTools      |-> cfg.DisallowedTools,
     SystemPrompt         |-> cfg.SystemPrompt,
     AppendSystemPrompt   |-> cfg.AppendSystemPrompt,
     Model                |-> cfg.Model,
     MaxThinkingTokens    |-> IF cfg.MaxThinkingTokens # Unset
                              THEN cfg.MaxThinkingTokens
                              ELSE DefaultThinkingTokens,
     PermissionMode       |-> PermissionMode(cfg.PermissionMode),
     ContinueConversation |-> cfg.ContinueSession,
     Resume               |-> cfg.SessionID,
     MaxTurns             |-> Unset,
     Cwd                  |-> cfg.WorkDir,
     McpServers           |-> cfg.MCPServers,
     Agents               |-> cfg.Agents,
     ExtraArgs            |-> {},
     ExtraEnv             |-> Unset,
     SettingSources       |-> Unset]

\* A flag with its value, if the option is set.
Flag(name, value) == IF value = Unset THEN {} ELSE {<<name, value>>}

\* MCP servers are written to a file, and its name replaces an extra argument.
PrepareMcpConfig(o) ==
    IF o.McpServers = Unset THEN o
    ELSE [o EXCEPT !.ExtraArgs = {a \in @ : a[1] # "mcp-config"}
                                   \cup Flag("mcp-config", o.McpServers)]

AllowedExtraArgs == {"mcp-config", "max-thinking", "budget-tokens", "notify",
                     "no-user-prompts", "prefill", "profile", "project-dir"}

\* The flags the options stand for.
OptionFlags(o) ==
    UNION {Flag("allowed-tools", o.AllowedTools),
           Flag("disallowed-tools", o.DisallowedTools),
           Flag("system-prompt", o.SystemPrompt),
           Flag("append-system-prompt", o.AppendSystemPrompt),
           Flag("model", o.Model),
           {<<"permission-mode", o.PermissionMode>>},
           Flag("continue", o.ContinueConversation),
           Flag("resume", o.Resume),
           Flag("max-turns", o.MaxTurns),
           Flag("agents", o.Agents),
           Flag("setting-sources", o.SettingSources)}

\* The flags of the protocol; closeStdin asks for one answer and no input.
ProtocolFlags(closeStdin) ==
    {<<"output-format", "stream-json">>, <<"verbose", "">>}
        \cup (IF closeStdin THEN {<<"print", "">>}
              ELSE {<<"input-format", "stream-json">>})

\* buildCommand, for options that are not nil.
BuildCommand(o, closeStdin) ==
    ProtocolFlags(closeStdin) \cup OptionFlags(o)
        \cup {a \in o.ExtraArgs : a[1] \in AllowedExtraArgs}

\* What connect gives the process it starts.
Launch(cfg) ==
    LET o == PrepareMcpConfig(ClientOptions(cfg))
    IN  [args |-> BuildCommand(o, FALSE), env |-> o.ExtraEnv, dir |-> o.Cwd]

\* The session a process was told to resume, or Unset.
ResumedSession(process) ==
    LET given == {a \in process.args : a[1] = "resume"}
    IN  IF given = {} THEN Unset ELSE (CHOOSE a \in given : TRUE)[2]
=============================================================================

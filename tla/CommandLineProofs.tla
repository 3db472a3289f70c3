-------------------------- MODULE CommandLineProofs -------------------------
(***************************************************************************)
(* Theorems about the command line of CommandLine, for every              *)
(* configuration and every Options value.                                  *)
(***************************************************************************)
EXTENDS CommandLine, TLAPS

\* The flags buildCommand sets itself.
ProtocolNames == {"output-format", "verbose", "print", "input-format"}
OptionNames ==
    {"allowed-tools", "disallowed-tools", "system-prompt",
     "append-system-prompt", "model", "permission-mode", "continue", "resume",
     "max-turns", "agents", "setting-sources"}

\* No flag bears two values.
Unambiguous(args) == \A a, b \in args : a[1] = b[1] => a = b

\* A protocol flag is one of four ...
LEMMA ProtocolFlagsNamed ==
    ASSUME NEW closeStdin
    PROVE  /\ \A a \in ProtocolFlags(closeStdin) : a[1] \in ProtocolNames
           /\ Unambiguous(ProtocolFlags(closeStdin))
  <1> DEFINE out == <<"output-format", "stream-json">>
             verbose == <<"verbose", "">>
             print == <<"print", "">>
             in == <<"input-format", "stream-json">>
  <1>1. \A a \in ProtocolFlags(closeStdin) :
            a = out \/ a = verbose \/ a = print \/ a = in
    BY Zenon DEF ProtocolFlags
  <1>2. /\ out[1] = "output-format" /\ verbose[1] = "verbose"
        /\ print[1] = "print" /\ in[1] = "input-format"
    OBVIOUS
  <1> HIDE DEF out, verbose, print, in
  <1> QED
    BY <1>1, <1>2 DEF ProtocolNames, Unambiguous

\* ... and an option's flag one of eleven.
LEMMA OptionFlagsNamed ==
    ASSUME NEW o
    PROVE  /\ \A a \in OptionFlags(o) : a[1] \in OptionNames
           /\ Unambiguous(OptionFlags(o))
  BY DEF OptionFlags, Flag, OptionNames, Unambiguous

\* Extra arguments are kept apart from both: "Only explicitly allowed flags are
\* forwarded to prevent callers from accidentally overriding security-sensitive
\* flags (e.g. permission-mode, output-format) or breaking the streaming
\* protocol" (cli.go:68-70).
THEOREM ExtraArgsOverrideNothing ==
    ASSUME NEW o, NEW closeStdin,
           NEW a \in BuildCommand(o, closeStdin),
           a[1] \in ProtocolNames \cup OptionNames
    PROVE  a \in ProtocolFlags(closeStdin) \cup OptionFlags(o)
  BY DEF BuildCommand, AllowedExtraArgs, ProtocolNames, OptionNames

\* No flag is passed twice, whatever the options: ExtraArgs is a Go map, so
\* each of its flags has one value.
THEOREM NoFlagTwice ==
    ASSUME NEW o, NEW closeStdin, Unambiguous(o.ExtraArgs)
    PROVE  Unambiguous(BuildCommand(o, closeStdin))
  <1> DEFINE Extra == {a \in o.ExtraArgs : a[1] \in AllowedExtraArgs}
  <1>1. /\ \A a \in ProtocolFlags(closeStdin) : a[1] \in ProtocolNames
        /\ Unambiguous(ProtocolFlags(closeStdin))
    BY ProtocolFlagsNamed
  <1>2. /\ \A a \in OptionFlags(o) : a[1] \in OptionNames
        /\ Unambiguous(OptionFlags(o))
    BY OptionFlagsNamed
  <1>3. /\ \A a \in Extra : a[1] \in AllowedExtraArgs
        /\ Unambiguous(Extra)
    BY DEF Unambiguous
  <1>4. /\ ProtocolNames \cap OptionNames = {}
        /\ ProtocolNames \cap AllowedExtraArgs = {}
        /\ OptionNames \cap AllowedExtraArgs = {}
    BY DEF ProtocolNames, OptionNames, AllowedExtraArgs
  <1>5. BuildCommand(o, closeStdin) =
            ProtocolFlags(closeStdin) \cup OptionFlags(o) \cup Extra
    BY DEF BuildCommand
  <1> HIDE DEF Extra
  <1> QED
    BY <1>1, <1>2, <1>3, <1>4, <1>5 DEF Unambiguous

\* What the options launched with are, field by field.
LEMMA LaunchedOptions ==
    ASSUME NEW cfg, NEW o, o = PrepareMcpConfig(ClientOptions(cfg))
    PROVE  /\ o.AllowedTools = cfg.AllowedTools
           /\ o.DisallowedTools = cfg.DisallowedTools
           /\ o.SystemPrompt = cfg.SystemPrompt
           /\ o.AppendSystemPrompt = cfg.AppendSystemPrompt
           /\ o.Model = cfg.Model
           /\ o.PermissionMode = PermissionMode(cfg.PermissionMode)
           /\ o.ContinueConversation = cfg.ContinueSession
           /\ o.Resume = cfg.SessionID
           /\ o.MaxTurns = Unset
           /\ o.Agents = cfg.Agents
           /\ o.SettingSources = Unset
           /\ o.ExtraEnv = Unset
           /\ o.Cwd = cfg.WorkDir
           /\ o.ExtraArgs = Flag("mcp-config", cfg.MCPServers)
  <1> DEFINE c == ClientOptions(cfg)
  <1>1. /\ c.AllowedTools = cfg.AllowedTools
        /\ c.DisallowedTools = cfg.DisallowedTools
        /\ c.SystemPrompt = cfg.SystemPrompt
        /\ c.AppendSystemPrompt = cfg.AppendSystemPrompt
        /\ c.Model = cfg.Model
        /\ c.PermissionMode = PermissionMode(cfg.PermissionMode)
        /\ c.ContinueConversation = cfg.ContinueSession
        /\ c.Resume = cfg.SessionID
        /\ c.MaxTurns = Unset
        /\ c.Agents = cfg.Agents
        /\ c.SettingSources = Unset
        /\ c.ExtraEnv = Unset
        /\ c.Cwd = cfg.WorkDir
        /\ c.ExtraArgs = {}
        /\ c.McpServers = cfg.MCPServers
    BY DEF ClientOptions
  <1>2. CASE cfg.MCPServers = Unset
    <2>1. o = c
      BY <1>1, <1>2 DEF PrepareMcpConfig
    <2>2. Flag("mcp-config", cfg.MCPServers) = {}
      BY <1>2 DEF Flag
    <2> HIDE DEF c
    <2> QED BY <1>1, <2>1, <2>2
  <1>3. CASE cfg.MCPServers # Unset
    <2> DEFINE extra == {a \in c.ExtraArgs : a[1] # "mcp-config"}
                            \cup Flag("mcp-config", c.McpServers)
    <2>1. o = [c EXCEPT !.ExtraArgs = extra]
      BY <1>1, <1>3 DEF PrepareMcpConfig
    <2>2. extra = Flag("mcp-config", cfg.MCPServers)
      BY <1>1
    <2> HIDE DEF extra
    <2> QED BY <2>1, <2>2 DEF ClientOptions
  <1> QED BY <1>2, <1>3

\* Three documented fields of the configuration never reach the process: Args
\* ("Extra CLI arguments"), Env ("Extra environment variables") and
\* MaxThinkingTokens (docs/configuration.md:13, 14, 17) get no Option, or one
\* that buildCommand does not look at.
THEOREM UnusedFieldsChangeNothing ==
    ASSUME NEW cfg, NEW other,
           \A f \in Fields \ {"Args", "Env", "MaxThinkingTokens"} :
               cfg[f] = other[f]
    PROVE  Launch(cfg) = Launch(other)
  <1> DEFINE o == PrepareMcpConfig(ClientOptions(cfg))
             p == PrepareMcpConfig(ClientOptions(other))
  <1>1. /\ cfg.WorkDir = other.WorkDir
        /\ cfg.SystemPrompt = other.SystemPrompt
        /\ cfg.AppendSystemPrompt = other.AppendSystemPrompt
        /\ cfg.Model = other.Model
        /\ cfg.PermissionMode = other.PermissionMode
        /\ cfg.SessionID = other.SessionID
        /\ cfg.ContinueSession = other.ContinueSession
        /\ cfg.MCPServers = other.MCPServers
        /\ cfg.AllowedTools = other.AllowedTools
        /\ cfg.DisallowedTools = other.DisallowedTools
        /\ cfg.Agents = other.Agents
    BY DEF Fields
  <1>2. /\ o.AllowedTools = p.AllowedTools
        /\ o.DisallowedTools = p.DisallowedTools
        /\ o.SystemPrompt = p.SystemPrompt
        /\ o.AppendSystemPrompt = p.AppendSystemPrompt
        /\ o.Model = p.Model
        /\ o.PermissionMode = p.PermissionMode
        /\ o.ContinueConversation = p.ContinueConversation
        /\ o.Resume = p.Resume
        /\ o.MaxTurns = p.MaxTurns
        /\ o.Agents = p.Agents
        /\ o.SettingSources = p.SettingSources
        /\ o.ExtraArgs = p.ExtraArgs
        /\ o.ExtraEnv = p.ExtraEnv
        /\ o.Cwd = p.Cwd
    BY <1>1, LaunchedOptions
  <1> HIDE DEF o, p
  <1>3. BuildCommand(o, FALSE) = BuildCommand(p, FALSE)
    BY <1>2, Zenon DEF BuildCommand, OptionFlags
  <1> QED
    BY <1>2, <1>3 DEF Launch, o, p

\* A process resumes the session of its configuration, and none if that names
\* none: reconnectClient's choice of session reaches the CLI.
THEOREM LaunchResumes ==
    ASSUME NEW cfg
    PROVE  ResumedSession(Launch(cfg)) = cfg.SessionID
  <1> DEFINE o == PrepareMcpConfig(ClientOptions(cfg))
  <1> DEFINE given == {a \in Launch(cfg).args : a[1] = "resume"}
  <1>1. o.Resume = cfg.SessionID
    BY LaunchedOptions
  <1>2. Launch(cfg).args = BuildCommand(o, FALSE)
    BY DEF Launch
  <1> HIDE DEF o
  <1>3. \A a \in given : a \in ProtocolFlags(FALSE) \cup OptionFlags(o)
    BY <1>2, ExtraArgsOverrideNothing DEF OptionNames
  <1>4. \A a \in given : a \in OptionFlags(o)
    BY <1>3, ProtocolFlagsNamed DEF ProtocolNames
  <1>5. given = Flag("resume", o.Resume)
    <2>1. Flag("resume", o.Resume) \subseteq OptionFlags(o)
      BY DEF OptionFlags
    <2>2. \A a \in OptionFlags(o) : a[1] = "resume" => a \in Flag("resume", o.Resume)
      BY DEF OptionFlags, Flag
    <2>3. \A a \in Flag("resume", o.Resume) : a[1] = "resume"
      BY DEF Flag
    <2>4. OptionFlags(o) \subseteq Launch(cfg).args
      BY <1>2 DEF BuildCommand
    <2>5. Flag("resume", o.Resume) \subseteq given
      BY <2>1, <2>3, <2>4
    <2> QED BY <1>4, <2>2, <2>5
  <1>6. CASE o.Resume = Unset
    BY <1>1, <1>5, <1>6 DEF ResumedSession, Flag
  <1>7. CASE o.Resume # Unset
    <2>1. given = {<<"resume", o.Resume>>}
      BY <1>5, <1>7 DEF Flag
    <2>2. (CHOOSE a \in given : TRUE) = <<"resume", o.Resume>>
      BY <2>1
    <2> QED
      BY <1>1, <2>1, <2>2 DEF ResumedSession
  <1> QED BY <1>6, <1>7
=============================================================================

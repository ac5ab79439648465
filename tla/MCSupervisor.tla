--------------------------- MODULE MCSupervisor ----------------------------
(* Model-checking instances of Supervisor: /w is the project. *)
EXTENDS Supervisor
CONSTANTS root, child

TwoTasks == {root, child}
ProxyPath == <<"rca">>
Locals    == {ProxyPath, <<"w", "tmux">>}

CommandLine == [defaultRemote |-> FALSE, remote |-> {}, local |-> {}, workdir |-> <<"w", "">>]

WorkTable    == Launch([CommandLine EXCEPT !.remote = {<<"w", "">>, <<"x", "..", "v">>}], {})
DefaultTable ==
  Launch([CommandLine EXCEPT !.defaultRemote = TRUE],
         PinnedPrefixes([dir |-> <<".codex">>, files |-> {}, abs |-> {<<"etc", "codex">>}],
                        {<<"home">>}, <<>>))

\* A call of path in cwd; the arguments are what distinguishes programs.
Exec(path, cwd, argv) == [nr |-> "execve", path |-> path, cwd |-> cwd, argv |-> argv]

Programs ==
  {Exec(p, c, <<"sh">>) :
     p \in {<<"sh">>, <<"w", "sh">>, <<"w", "tmux">>, <<"w", "..", "sh">>},
     c \in {<<"w", "src">>, <<"wx">>}}
  \cup {Exec(p, c, <<"sh", a>>) :
     p \in {<<"w", "tmux">>}, c \in {<<"v">>, <<"b">>}, a \in {"--no-config", "sentinel"}}
  \cup {Exec(<<"sh">>, c, <<"sh", a>>) :
     c \in {<<"v">>, <<"b">>}, a \in {"--no-config", "mark", "sentinel"}}
  \cup {[Exec(<<"w", "sh">>, <<"v">>, <<"sh">>) EXCEPT !.nr = "execveat"],
        Exec(<<"sh">>, <<"w">>, <<"sh", "mark", "--no-config">>)}

OneProgram == {Exec(<<"sh">>, <<"b">>, <<"sh">>)}
=============================================================================

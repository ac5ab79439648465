------------------------------ MODULE Routing ------------------------------
(***************************************************************************)
(* Where an operation runs.  The Go table (internal/routing) decides for   *)
(* the adapter; the interceptors decide again, in C, from the prefixes the *)
(* launcher hands them.                                                    *)
(*                                                                         *)
(* An absolute path is the sequence of what stands between its slashes, as *)
(* written: "/w//x" is <<"w", "", "x">> and "/" is <<"">>.                 *)
(***************************************************************************)
EXTENDS Integers, Sequences, SequencesExt

\* filepath.Clean of an absolute path, name after name; the root is <<>>.
CleanName(acc, c) ==
  IF c \in {"", "."} THEN acc
  ELSE IF c # ".." THEN Append(acc, c)
  ELSE IF acc = <<>> THEN acc ELSE Front(acc)
Clean(p) ==
  LET upTo[i \in 0..Len(p)] == IF i = 0 THEN <<>> ELSE CleanName(upTo[i - 1], p[i])
  IN upTo[Len(p)]
Written(p)   == IF p = <<>> THEN <<"">> ELSE p
Canonical(p) == p = Written(Clean(p))

----------------------------------------------------------------------------
(* routing.Table: its mode and its two sets of prefixes.                   *)

Modes == {"RemoteAllowlist", "LocalAllowlist"}

New(mode, remote, local) ==
  [mode |-> mode, remote |-> {Clean(p) : p \in remote}, local |-> {Clean(p) : p \in local}]

\* The root followed by a separator is "//", which no cleaned path begins with.
MatchesAny(clean, prefixes) ==
  \E pre \in prefixes : clean = pre \/ (pre # <<>> /\ IsPrefix(pre, clean))

IsRemote(table, p) ==
  IF table.mode = "LocalAllowlist" THEN ~MatchesAny(Clean(p), table.local)
  ELSE MatchesAny(Clean(p), table.remote)

\* What a profile keeps local: its config home, unless the environment names
\* another, its files in the home directory, and absolute paths.
PinnedPrefixes(profile, home, configHome) ==
  (IF configHome # <<>> THEN {configHome} ELSE {h \o profile.dir : h \in home})
  \cup {h \o f : h \in home, f \in profile.files} \cup profile.abs

\* The table of a launch: o holds what the command line said.
Launch(o, pinned) ==
  IF o.defaultRemote THEN New("LocalAllowlist", o.remote, pinned \cup o.local)
  ELSE New("RemoteAllowlist", IF o.remote = {} THEN {o.workdir} ELSE o.remote, o.local)

\* Table.RemotePrefixes, joined into RCC_REMOTE_PREFIXES.
RemotePrefixes(table) == {Written(pre) : pre \in table.remote}

----------------------------------------------------------------------------
(* The interceptors.                                                       *)

\* Mutant of Under: the prefix is looked for the wrong way round.
UnderReversed(p, tok) == IsPrefix(p, tok)
Under(p, tok) == IsPrefix(tok, p)

PrefixHit(p, prefixes) == \E tok \in prefixes : Under(p, tok)

\* An exec: the path of the binary, the working directory, the arguments.
Tokens(argv) == {argv[j] : j \in DOMAIN argv}
RgMode(argv) == \E j \in DOMAIN argv : j > 1 /\ argv[j] = "--no-config"

\* The binaries that stay, each given by the paths its name occurs in.
IsLocalBin(localBins, path) == path \in localBins

\* What a routed exec becomes: the original path, then all of argv.
ProxyArgv(proxy, path, argv) == <<proxy, "_spawn-proxy", path>> \o argv

\* route_spawn / spawn_route.  What has to stay stays, unless it is ripgrep on a
\* remote directory; that, the sentinel, the binary's place and the working
\* directory each send the rest to the executor.
RouteSpawn(prefixes, localBins, path, cwd, argv) ==
  LET cwdrem == PrefixHit(cwd, prefixes)
      local  == IsLocalBin(localBins, path) \/ "mark" \in Tokens(argv)
  IN /\ local => RgMode(argv) /\ cwdrem
     /\ \/ RgMode(argv) /\ cwdrem
        \/ "sentinel" \in Tokens(argv)
        \/ PrefixHit(path, prefixes)
        \/ cwdrem
=============================================================================

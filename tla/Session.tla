------------------------------ MODULE Session ------------------------------
(***************************************************************************)
(* The life of rca run sessions on one Linux host: the supervisor is       *)
(* extracted from rca into a cache that all sessions share, and the        *)
(* program is started at the end of a chain of processes                   *)
(*   rca -> outer (_nsrun) -> inner (_nsrun -inner) -> supervisor -> program *)
(* of which inner serves the routed directories as mounts of a namespace   *)
(* of its own.  Signals go down the chain, the exit status comes up.       *)
(***************************************************************************)
EXTENDS Integers, Sequences, FiniteSets

CONSTANTS
  Sessions,
  Dirs, Routed,  \* directories; those each session routes, in the order of their mounts
  Codes,         \* exit codes of the program
  MaxSignals,    \* bound of the signals sent
  None

\* Codes rca does not use for failures of its own.
ASSUME CodesAssumption == Codes \subseteq Nat \ {1, 128 + 15, 255}
ASSUME RoutedAssumption == Routed \in [Sessions -> Seq(Dirs)] /\ MaxSignals \in Nat
ASSUME NoneAssumption == None \notin {"none", "torn", "whole"} \cup [killed : BOOLEAN, n : Nat]

VARIABLES
  dest, tmp,       \* the cached supervisor, each session's copy of it in the making
  bin,             \* what the session executed as its supervisor
  st, status,      \* state of each process of a session, and how it ended
  q,               \* signals a process caught and has yet to forward
  sent,            \* signals sent, in all
  host, before,    \* directories of the host: now, and when the first session began
  todo, step,      \* inner: directories to mount, progress with the first of them
  mounted, created \* what the session mounted, and which directories it made

cacheVars == <<dest, tmp, bin>>
procVars  == <<st, status>>
sigVars   == <<q, sent>>
dirVars   == <<host, todo, step, mounted, created>>
vars == <<cacheVars, procVars, sigVars, dirVars, before>>

Stages == <<"rca", "outer", "inner", "supervisor", "program">>
Procs  == {Stages[i] : i \in DOMAIN Stages}
Index(p) == CHOOSE i \in DOMAIN Stages : Stages[i] = p
Child(p) == Stages[Index(p) + 1]

\* wait status of a process
Exited(n) == [killed |-> FALSE, n |-> n]
Killed    == [killed |-> TRUE, n |-> 0]
\* ... of a fork of the supervisor that did not get to the program
Unarmed   == Exited(97)

\* A file of the cache may be cut short by a loss of power.
Init ==
  /\ dest \in {"none", "torn", "whole"} /\ tmp = [s \in Sessions |-> "none"]
  /\ bin = [s \in Sessions |-> None]
  /\ st = [s \in Sessions |-> [p \in Procs |-> IF p = "rca" THEN "extract" ELSE "none"]]
  /\ status = [s \in Sessions |-> [p \in Procs |-> None]]
  /\ q = [s \in Sessions |-> [p \in Procs |-> 0]]
  /\ sent = 0
  /\ before \in SUBSET Dirs /\ host = before
  /\ todo = Routed /\ step = [s \in Sessions |-> "stat"]
  /\ mounted = [s \in Sessions |-> {}] /\ created = [s \in Sessions |-> {}]

Alive(s, p) == st[s][p] \notin {"none", "gone"}
Over(s, p)  == st[s][p] = "gone"

Go(s, p, state)  == st' = [st EXCEPT ![s][p] = state] /\ UNCHANGED status
Start(s, p, state, child, first) ==
  st' = [st EXCEPT ![s][p] = state, ![s][child] = first] /\ UNCHANGED status
End(s, p, how)   ==
  st' = [st EXCEPT ![s][p] = "gone"] /\ status' = [status EXCEPT ![s][p] = how]

----------------------------------------------------------------------------
(* extractEmbeddedNative.                                                  *)

\* Stat finds a file of the right size, or none.
Stat(s) ==
  /\ st[s]["rca"] = "extract"
  /\ Go(s, "rca", IF dest = "whole" THEN "ready" ELSE "create")
  /\ UNCHANGED <<cacheVars, sigVars, dirVars, before>>

\* Mutant of CreateTemp: the destination itself is created, and written.
CreateDest(s) == tmp' = [tmp EXCEPT ![s] = "torn"] /\ dest' = "torn"
CreateTemp(s) == tmp' = [tmp EXCEPT ![s] = "torn"] /\ UNCHANGED dest

Create(s) ==
  /\ st[s]["rca"] = "create"
  /\ \/ Go(s, "rca", "write") /\ CreateTemp(s)
     \/ End(s, "rca", Exited(1)) /\ UNCHANGED <<dest, tmp>>
  /\ UNCHANGED <<bin, sigVars, dirVars, before>>

Write(s) ==
  /\ st[s]["rca"] = "write" /\ tmp[s] = "torn"
  /\ \/ tmp' = [tmp EXCEPT ![s] = "whole"] /\ UNCHANGED procVars
     \/ tmp' = [tmp EXCEPT ![s] = "none"] /\ End(s, "rca", Exited(1))
  /\ UNCHANGED <<dest, bin, sigVars, dirVars, before>>

Rename(s) ==
  /\ st[s]["rca"] = "write" /\ tmp[s] = "whole"
  /\ tmp' = [tmp EXCEPT ![s] = "none"]
  /\ \/ dest' = tmp[s] /\ Go(s, "rca", "ready")
     \/ End(s, "rca", Exited(1)) /\ UNCHANGED dest
  /\ UNCHANGED <<bin, sigVars, dirVars, before>>

----------------------------------------------------------------------------
(* cmdRun from signal.Notify on, nsRunOuter, and nsRunInner.               *)

\* What the other goroutines of rca do is not part of this: signals are caught
\* from here on.
NotifyRun(s) ==
  /\ st[s]["rca"] = "ready"
  /\ Go(s, "rca", "up")
  /\ UNCHANGED <<cacheVars, sigVars, dirVars, before>>

StartOuter(s) ==
  /\ st[s]["rca"] = "up" /\ st[s]["outer"] = "none"
  /\ Start(s, "rca", "up", "outer", "boot") \/ End(s, "rca", Exited(1))
  /\ UNCHANGED <<cacheVars, sigVars, dirVars, before>>

\* A process in a mount namespace of its own, or the kernel refuses it.
StartInner(s) ==
  /\ st[s]["outer"] = "boot"
  /\ Start(s, "outer", "child", "inner", "boot") \/ End(s, "outer", Exited(1))
  /\ UNCHANGED <<cacheVars, sigVars, dirVars, before>>

\* forwardSignals, after the child runs.
ForwardSignals(s, p) ==
  /\ st[s][p] = "child"
  /\ Go(s, p, "up")
  /\ UNCHANGED <<cacheVars, sigVars, dirVars, before>>

Dir(s)     == Head(todo[s])
Mounting(s, at) == st[s]["inner"] = "boot" /\ todo[s] # <<>> /\ step[s] = at
Step(s, at) == step' = [step EXCEPT ![s] = at]

\* Mutant of Missing: the directory is made, and remembered, in any case.
Always(d)  == TRUE
Missing(d) == d \notin host

StatDir(s) ==
  /\ Mounting(s, "stat")
  /\ Step(s, IF Missing(Dir(s)) THEN "mkdir" ELSE "mount")
  /\ UNCHANGED <<cacheVars, procVars, sigVars, host, todo, mounted, created, before>>

\* Mutant of GiveUp: no unmountAll before return 1.
Return(s) == End(s, "inner", Exited(1))
GiveUp(s) == Go(s, "inner", "failing")

MkdirAll(s) ==
  /\ Mounting(s, "mkdir")
  /\ \/ /\ host' = host \cup {Dir(s)} /\ created' = [created EXCEPT ![s] = @ \cup {Dir(s)}]
        /\ Step(s, "mount") /\ UNCHANGED procVars
     \/ GiveUp(s) /\ UNCHANGED <<host, created, step>>
  /\ UNCHANGED <<cacheVars, sigVars, todo, mounted, before>>

\* linuxfuse.MountRouted; it fails if the directory is gone, or for another reason.
MountRouted(s) ==
  /\ Mounting(s, "mount")
  /\ \/ /\ Dir(s) \in host
        /\ mounted' = [mounted EXCEPT ![s] = @ \cup {Dir(s)}]
        /\ todo' = [todo EXCEPT ![s] = Tail(@)] /\ Step(s, "stat") /\ UNCHANGED procVars
     \/ GiveUp(s) /\ UNCHANGED <<mounted, todo, step>>
  /\ UNCHANGED <<cacheVars, sigVars, host, created, before>>

StartSupervisor(s) ==
  /\ st[s]["inner"] = "boot" /\ todo[s] = <<>>
  /\ \/ Start(s, "inner", "child", "supervisor", "up") /\ bin' = [bin EXCEPT ![s] = dest]
     \/ GiveUp(s) /\ UNCHANGED bin
  /\ UNCHANGED <<dest, tmp, sigVars, dirVars, before>>

\* Unmount errors are ignored: what is left of the program may keep a directory busy.
UnmountAll(s) ==
  /\ \/ st[s]["inner"] = "failing" /\ Go(s, "inner", "failed")
     \/ st[s]["inner"] = "up" /\ Over(s, "supervisor") /\ Go(s, "inner", "leaving")
  /\ \E busy \in IF Alive(s, "program") THEN SUBSET mounted[s] ELSE {{}} :
       mounted' = [mounted EXCEPT ![s] = busy]
  /\ UNCHANGED <<cacheVars, sigVars, host, todo, step, created, before>>

\* Mutant of ExitCode: what ExitCode of package os returns.
RawExitCode(how) == IF how.killed THEN -1 ELSE how.n
\* Mutant of ExitCode: a killed child counts as one that exited.
StatusOf(how) == how.n
\* A killed child has no exit code: ExitCode is -1, and the shell sees 255.
ExitCode(how) == IF how.killed THEN 255 ELSE how.n

\* os.Remove refuses a directory that is mounted in the process's own namespace;
\* what is mounted on it in another one, the kernel detaches.
RemoveCreated(s) ==
  LET removed == created[s] \ mounted[s] IN
  /\ st[s]["inner"] \in {"failed", "leaving"}
  /\ host' = host \ removed
  /\ mounted' = [t \in Sessions |-> mounted[t] \ removed]
  /\ End(s, "inner", Exited(IF st[s]["inner"] = "failed" THEN 1
                            ELSE ExitCode(status[s]["supervisor"])))
  /\ UNCHANGED <<cacheVars, sigVars, todo, step, created, before>>

\* Mutant of Reap: the child is started, and not waited for.
Detach(s, p) == st[s][Child(p)] # "none" /\ End(s, p, Exited(0))
Reap(s, p)   == Over(s, Child(p)) /\ End(s, p, Exited(ExitCode(status[s][Child(p)])))

\* cmd.Wait of rca and of outer, and the end of the process.
Wait(s, p) ==
  /\ p \in {"rca", "outer"} /\ st[s][p] = "up"
  /\ Reap(s, p)
  /\ UNCHANGED <<cacheVars, sigVars, dirVars, before>>

----------------------------------------------------------------------------
(* The supervisor and the program.                                         *)

StartProgram(s) ==
  /\ st[s]["supervisor"] = "up" /\ st[s]["program"] = "none"
  /\ Go(s, "program", "fork")
  /\ UNCHANGED <<cacheVars, sigVars, dirVars, before>>

\* PTRACE_SETOPTIONS, with PTRACE_O_EXITKILL.
Arm(s) ==
  /\ st[s]["supervisor"] = "up" /\ st[s]["program"] = "fork"
  /\ Go(s, "program", "up")
  /\ UNCHANGED <<cacheVars, sigVars, dirVars, before>>

\* The program ends, and may leave descendants, or the fork that was to become it ends.
ProgramExits(s) ==
  /\ \/ st[s]["program"] = "up"
        /\ \E c \in Codes, next \in {"heirs", "gone"} :
             /\ st' = [st EXCEPT ![s]["program"] = next]
             /\ status' = [status EXCEPT ![s]["program"] = Exited(c)]
     \/ st[s]["program"] = "fork" /\ End(s, "program", Unarmed)
  /\ UNCHANGED <<cacheVars, sigVars, dirVars, before>>

\* Nothing that is armed outlives the supervisor.
ProgramKilled(s) ==
  /\ Over(s, "supervisor")
  /\ \/ st[s]["program"] = "up" /\ End(s, "program", Killed)
     \/ st[s]["program"] = "heirs" /\ Go(s, "program", "gone")
  /\ UNCHANGED <<cacheVars, sigVars, dirVars, before>>

\* The status of the program: 128 and the signal's number if it was killed, 0 if it
\* was gone before it was armed.
ProgramStatus(how) ==
  IF how = Unarmed THEN 0 ELSE IF how.killed THEN 128 + 15 ELSE how.n

SupervisorExits(s) ==
  /\ Alive(s, "supervisor") /\ st[s]["program"] \in {"heirs", "gone"}
  /\ End(s, "supervisor", Exited(ProgramStatus(status[s]["program"])))
  /\ UNCHANGED <<cacheVars, sigVars, dirVars, before>>

----------------------------------------------------------------------------
(* Signals: SIGTERM and SIGINT.                                            *)

\* signal.Notify was called: the signal waits in a channel.
Catches(s, p) == p \in {"rca", "outer", "inner"} /\ st[s][p] \in {"up", "leaving"}

\* Processes hit by a signal: some catch it, the program may, the others die.
Hit(s, hit) ==
  LET live == {p \in hit : Alive(s, p)}
      dies == {p \in live \ {"program"} : ~Catches(s, p)}
  IN \E d \in {dies, dies \cup (live \cap {"program"})} :
       /\ st' = [st EXCEPT ![s] = [p \in Procs |-> IF p \in d THEN "gone" ELSE @[p]]]
       /\ status' = [status EXCEPT ![s] = [p \in Procs |-> IF p \in d /\ @[p] = None THEN Killed ELSE @[p]]]

Caught(s, hit) == [p \in Procs |-> IF p \in hit /\ Catches(s, p) THEN q[s][p] + 1 ELSE q[s][p]]

\* kill of rca, or Ctrl-C at the terminal for all of them.
Signal(s) ==
  /\ Alive(s, "rca") /\ sent < MaxSignals
  /\ sent' = sent + 1
  /\ \E hit \in {{"rca"}, Procs} : Hit(s, hit) /\ q' = [q EXCEPT ![s] = Caught(s, hit)]
  /\ UNCHANGED <<cacheVars, dirVars, before>>

\* Mutant of Forwarded: the signal is taken from the channel, and not sent.
Swallowed(p) == {}
Forwarded(p) == {Child(p)}

\* The goroutine of forwardSignals.
Forward(s, p) ==
  /\ Catches(s, p) /\ st[s][Child(p)] # "none" /\ q[s][p] > 0
  /\ Hit(s, Forwarded(p))
  /\ q' = [q EXCEPT ![s] = [Caught(s, Forwarded(p)) EXCEPT ![p] = @ - 1]]
  /\ UNCHANGED <<cacheVars, sent, dirVars, before>>

----------------------------------------------------------------------------
ExtractStep(s) == Stat(s) \/ Create(s) \/ Write(s) \/ Rename(s)
RcaStep(s)     == NotifyRun(s) \/ StartOuter(s) \/ Wait(s, "rca")
OuterStep(s)   == StartInner(s) \/ ForwardSignals(s, "outer") \/ Wait(s, "outer")
InnerStep(s)   ==
  \/ StatDir(s) \/ MkdirAll(s) \/ MountRouted(s) \/ StartSupervisor(s)
  \/ ForwardSignals(s, "inner") \/ UnmountAll(s) \/ RemoveCreated(s)
SupervisorStep(s) == StartProgram(s) \/ Arm(s) \/ SupervisorExits(s)

SessionStep(s) ==
  \/ ExtractStep(s) \/ RcaStep(s) \/ OuterStep(s) \/ InnerStep(s) \/ SupervisorStep(s)
  \/ ProgramExits(s) \/ ProgramKilled(s) \/ Signal(s)
  \/ \E p \in {"rca", "outer", "inner"} : Forward(s, p)

Next == \E s \in Sessions : SessionStep(s)

Spec == Init /\ [][Next]_vars

\* The processes run; the program may never end, and nobody need send a signal.
Fairness ==
  \A s \in Sessions :
    /\ WF_vars(ExtractStep(s)) /\ WF_vars(RcaStep(s)) /\ WF_vars(OuterStep(s))
    /\ WF_vars(InnerStep(s)) /\ WF_vars(SupervisorStep(s)) /\ WF_vars(ProgramKilled(s))
    /\ \A p \in {"rca", "outer", "inner"} : WF_vars(Forward(s, p))

FairSpec == Spec /\ Fairness

----------------------------------------------------------------------------
(* Properties.                                                             *)

StatesOf(p) ==
  CASE p = "rca"        -> {"extract", "create", "write", "ready", "up", "gone"}
    [] p = "outer"      -> {"none", "boot", "child", "up", "gone"}
    [] p = "inner"      -> {"none", "boot", "child", "up", "failing", "failed", "leaving", "gone"}
    [] p = "supervisor" -> {"none", "up", "gone"}
    [] p = "program"    -> {"none", "fork", "up", "heirs", "gone"}
Copies   == {"none", "torn", "whole"}
Statuses == [killed : BOOLEAN, n : Nat]

\* Types of every variable.
TypeOK ==
  /\ dest \in Copies /\ tmp \in [Sessions -> Copies]
  /\ bin \in [Sessions -> Copies \cup {None}]
  /\ st \in [Sessions -> [Procs -> UNION {StatesOf(p) : p \in Procs}]]
  /\ \A s \in Sessions, p \in Procs : st[s][p] \in StatesOf(p)
  /\ status \in [Sessions -> [Procs -> Statuses \cup {None}]]
  /\ q \in [Sessions -> [Procs -> Nat]]
  /\ sent \in 0..MaxSignals
  /\ host \subseteq Dirs /\ before \subseteq Dirs
  /\ todo \in [Sessions -> Seq(Dirs)] /\ step \in [Sessions -> {"stat", "mkdir", "mount"}]
  /\ mounted \in [Sessions -> SUBSET Dirs] /\ created \in [Sessions -> SUBSET Dirs]

\* No session executes a part of the supervisor, although sessions extract it side by
\* side and end at any point of it (extractEmbeddedNative, "never sees a torn file").
NeverTorn == \A s \in Sessions : bin[s] \in {None, "whole"}

\* An exit code of the program comes out of rca only if the program ended with it: a
\* death by a signal, or a failure on the way to the program, is not taken for success.
\* The one exception is a fork that is gone before the supervisor armed it (Supervisor).
ExitIsPrograms ==
  \A s \in Sessions, c \in Codes :
    status[s]["rca"] = Exited(c) => status[s]["program"] \in {Exited(c), Unarmed}

\* When rca returns, nothing of the session goes on behind the user's back, unless a
\* signal killed a stage that was not ready to forward it (cmd.Wait of each stage).
ReturnMeansDone ==
  \A s \in Sessions :
    Over(s, "rca") /\ (\A p \in {"rca", "outer", "inner"} : status[s][p] # Killed)
      => /\ \A p \in {"outer", "inner", "supervisor"} : ~Alive(s, p)
         /\ Alive(s, "program") => Over(s, "supervisor")

\* A directory the host had before stays routed as long as its session runs: no other
\* session removes it and takes the mount with it ("created", os.Remove).
KeepsView ==
  \A s \in Sessions, d \in before :
    (\E i \in DOMAIN Routed[s] : Routed[s][i] = d) /\ st[s]["inner"] = "up" /\ Alive(s, "supervisor")
      => d \in mounted[s]

\* After the last session the host has the directories it had before the first,
\* whatever failed on the way, if inner was not killed and nothing of the program was
\* still in a directory when it was unmounted (unmountAll).
HostRestored ==
  /\ \A s \in Sessions, p \in Procs : ~Alive(s, p)
  /\ \A s \in Sessions : status[s]["inner"] # Killed /\ mounted[s] = {}
  => host = before

\* rca ends once it has caught a signal, wherever its chain of processes stands.
SignalEnds == \A s \in Sessions : q[s]["rca"] > 0 ~> Over(s, "rca")
=============================================================================

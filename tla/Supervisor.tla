---------------------------- MODULE Supervisor -----------------------------
(***************************************************************************)
(* rcc_seccomp: the tracer of the intercepted program on Linux.  Every     *)
(* task of the program stops at each execve, at each fork and before each  *)
(* signal; the supervisor waits for whichever stopped, rewrites an execve  *)
(* that is routed to the executor into one of the spawn proxy, and lets    *)
(* the task go on.                                                         *)
(*                                                                         *)
(* Each turn of the supervisor's loop is one step: the task it works on is *)
(* stopped, and all that can happen to it meanwhile is SIGKILL.  Tasks do  *)
(* not change each other's arguments while an execve is pending.           *)
(***************************************************************************)
EXTENDS Integers, FiniteSets, Routing

CONSTANTS
  Tasks, Root,   \* processes and threads; the first of them
  Table,         \* the routing table of the adapter
  LocalBins,     \* binaries that stay on the brain host: paths one of the names occurs in
  Proxy,         \* the spawn proxy's path
  Requests,      \* what programs execute: records of path, cwd and argv
  MAX_ARGV,      \* arguments the supervisor reads
  MaxExecs,      \* bounds the execs of a task
  MaxSignals,    \* bounds the signals sent, of one kind to one task at most once
  None           \* no exec yet

ASSUME SupervisorAssumption ==
  /\ Root \in Tasks /\ Proxy \in LocalBins
  /\ MAX_ARGV \in Nat \ {0} /\ MaxExecs \in Nat /\ MaxSignals \in Nat

\* The kernel names the working directory, and names it cleaned.
ASSUME RequestsAssumption ==
  \A q \in Requests :
    q.path \in Seq(STRING) /\ q.cwd \in Seq(STRING) /\ Canonical(q.cwd) /\ q.argv \in Seq(STRING)

VARIABLES
  sup, code,     \* the supervisor: "arm", "wait" or "ended"; exit_code
  armed,         \* history: the program was alive when the supervisor armed it
  st, why,       \* each task, and what stopped it
  status,        \* how it ended: exited with a code, or killed by a signal
  ask, exec,     \* the execve it makes, and as the kernel will see it
  execs,         \* how often it called execve
  sent, pend, got  \* signals: sent to it, pending, and delivered

supVars  == <<sup, code, armed>>
execVars == <<ask, exec, execs>>
sigVars  == <<sent, pend, got>>
vars == <<supVars, st, why, status, execVars, sigVars>>

\* One signal that terminates, one that stops.
Signals    == {"TERM", "STOP"}
GroupStops == {"STOP"}
Number(s)  == IF s = "TERM" THEN 15 ELSE 9
Exited(n)   == [exited |-> TRUE, n |-> n]
Signaled(n) == [exited |-> FALSE, n |-> n]

\* The child of the first fork: it installs the filter and stops itself.
Init ==
  /\ sup = "arm" /\ code = 0 /\ armed = FALSE
  /\ \E ok \in BOOLEAN :
       /\ st = [t \in Tasks |-> IF t # Root THEN "none" ELSE IF ok THEN "stopped" ELSE "dead"]
       /\ status = [t \in Tasks |-> IF t = Root /\ ~ok THEN Exited(97) ELSE Exited(0)]
  /\ why = [t \in Tasks |-> IF t = Root THEN "STOP" ELSE "none"]
  /\ ask = [t \in Tasks |-> None] /\ exec = [t \in Tasks |-> None]
  /\ execs = [t \in Tasks |-> 0]
  /\ sent = [t \in Tasks |-> {}] /\ pend = [t \in Tasks |-> {}] /\ got = [t \in Tasks |-> {}]

----------------------------------------------------------------------------
(* The traced program and the kernel.                                      *)

Stop(t, reason) == st' = [st EXCEPT ![t] = "stopped"] /\ why' = [why EXCEPT ![t] = reason]

Dies(t, how) ==
  /\ st' = [st EXCEPT ![t] = "dead"] /\ status' = [status EXCEPT ![t] = how]
  /\ ask' = [ask EXCEPT ![t] = None] /\ exec' = [exec EXCEPT ![t] = None]

\* The child is attached to the tracer and starts with a SIGSTOP.
Fork(t, u) ==
  /\ st[t] = "run" /\ st[u] = "none"
  /\ st' = [st EXCEPT ![t] = "stopped", ![u] = "stopped"]
  /\ why' = [why EXCEPT ![t] = "event", ![u] = "STOP"]
  /\ UNCHANGED <<supVars, status, execVars, sigVars>>

\* A call in the task's registers and memory; intact, as long as they can be read.
Call(q, intact) ==
  [nr |-> q.nr, path |-> q.path, cwd |-> q.cwd, argv |-> q.argv, intact |-> intact]

Execve(t, q) ==
  /\ st[t] = "run" /\ execs[t] < MaxExecs
  /\ execs' = [execs EXCEPT ![t] = @ + 1]
  /\ ask' = [ask EXCEPT ![t] = Call(q, TRUE)]
  /\ exec' = [exec EXCEPT ![t] = [prog |-> q.path, argv |-> q.argv]]
  /\ Stop(t, "seccomp")
  /\ UNCHANGED <<supVars, status, sigVars>>

\* A successful exec stops once more, with SIGTRAP.
ExecveReturns(t) ==
  /\ st[t] = "execing"
  /\ \/ Stop(t, "TRAP")
     \/ st' = [st EXCEPT ![t] = "run"] /\ UNCHANGED why
  /\ ask' = [ask EXCEPT ![t] = None] /\ exec' = [exec EXCEPT ![t] = None]
  /\ UNCHANGED <<supVars, status, execs, sigVars>>

SendSignal(t, s) ==
  /\ st[t] \in {"run", "stopped", "execing"} /\ s \notin sent[t]
  /\ Cardinality({m \in Tasks \X Signals : m[2] \in sent[m[1]]}) < MaxSignals
  /\ sent' = [sent EXCEPT ![t] = @ \cup {s}]
  /\ pend' = [pend EXCEPT ![t] = @ \cup {s}]
  /\ UNCHANGED <<supVars, st, why, status, execVars, got>>

SignalStop(t, s) ==
  /\ st[t] = "run" /\ s \in pend[t]
  /\ pend' = [pend EXCEPT ![t] = @ \ {s}]
  /\ Stop(t, s)
  /\ UNCHANGED <<supVars, status, execVars, sent, got>>

Exit(t, n) ==
  /\ st[t] = "run"
  /\ Dies(t, Exited(n))
  /\ UNCHANGED <<supVars, why, execs, sigVars>>

Kill(t) ==
  /\ st[t] \in {"run", "stopped", "execing"}
  /\ Dies(t, Signaled(9))
  /\ UNCHANGED <<supVars, why, execs, sigVars>>

\* Mutant of Options: tracees are let go when the tracer ends.
NoExitKill == {"TRACESECCOMP", "TRACEFORK", "TRACEVFORK", "TRACECLONE"}
Options == {"TRACESECCOMP", "TRACEFORK", "TRACEVFORK", "TRACECLONE", "EXITKILL"}

ExitKill(t) ==
  /\ sup = "ended" /\ "EXITKILL" \in Options
  /\ st[t] \in {"run", "stopped", "execing"}
  /\ Dies(t, Signaled(9))
  /\ UNCHANGED <<supVars, why, execs, sigVars>>

----------------------------------------------------------------------------
(* The supervisor.                                                         *)

\* waitpid on the child; a child that did not get as far as its stop is reaped
\* here, unnoticed.
Arm ==
  /\ sup = "arm"
  /\ sup' = "wait" /\ armed' = (st[Root] = "stopped")
  /\ st' = [st EXCEPT ![Root] = IF @ = "stopped" THEN "run" ELSE "reaped"]
  /\ UNCHANGED <<code, why, status, execVars, sigVars>>

\* Mutant of EndsWith: the first task to end ends the supervisor.
EndsAnyway(t) == TRUE
EndsWith(t) == t = Root

\* Mutant of ExitCode: the word waitpid gives, undecoded.
StatusWord(how) == IF how.exited THEN how.n * 256 ELSE how.n
ExitCode(how) == IF how.exited THEN how.n ELSE 128 + how.n

Reap(t) ==
  /\ sup = "wait" /\ st[t] = "dead"
  /\ st' = [st EXCEPT ![t] = "reaped"]
  /\ IF EndsWith(t) THEN sup' = "ended" /\ code' = ExitCode(status[t]) /\ UNCHANGED armed
     ELSE UNCHANGED supVars
  /\ UNCHANGED <<why, status, execVars, sigVars>>

\* No tracee left: ECHILD.
NoChild ==
  /\ sup = "wait" /\ \A t \in Tasks : st[t] \in {"none", "reaped"}
  /\ sup' = "ended"
  /\ UNCHANGED <<code, armed, st, why, status, execVars, sigVars>>

\* PTRACE_CONT with the signal to deliver; the task may die of it.
Continue(t) == st' = [st EXCEPT ![t] = "run"] /\ UNCHANGED <<status, got, ask, exec>>
Deliver(t, s) ==
  /\ got' = [got EXCEPT ![t] = @ \cup {s}]
  /\ \/ st' = [st EXCEPT ![t] = "run"] /\ UNCHANGED <<status, ask, exec>>
     \/ Dies(t, Signaled(Number(s)))

Seen(argv) == SubSeq(argv, 1, IF Len(argv) < MAX_ARGV THEN Len(argv) ELSE MAX_ARGV)

Routed(q) == RouteSpawn(RemotePrefixes(Table), LocalBins, q.path, q.cwd, Seen(q.argv))

\* rewrite_execve, then PTRACE_CONT.  Memory that cannot be read or written, and
\* execveat, leave the call as it is.
RewriteExecve(t) ==
  LET q == ask[t] IN
  /\ sup = "wait" /\ st[t] = "stopped" /\ why[t] = "seccomp"
  /\ \/ /\ q.nr = "execve" /\ Routed(q)
        /\ exec' = [exec EXCEPT ![t] =
             [prog |-> Proxy, argv |-> ProxyArgv(Proxy, q.path, Seen(q.argv))]]
        /\ UNCHANGED ask
     \/ /\ ~(q.nr = "execve" /\ Routed(q))
        /\ UNCHANGED <<ask, exec>>
     \/ ask' = [ask EXCEPT ![t].intact = FALSE] /\ UNCHANGED exec
  /\ st' = [st EXCEPT ![t] = "execing"]
  /\ UNCHANGED <<supVars, why, status, execs, sigVars>>

\* Mutant of Reinject: the signal is passed in the wrong argument.
ReinjectNothing(t) == Continue(t)
Reinject(t) == Deliver(t, why[t])

\* Mutant of Swallowed: a group stop is left alone.
SwallowsTraps == {"event", "TRAP"}
Swallowed == {"event", "TRAP"} \cup GroupStops

ContinueStopped(t) ==
  /\ sup = "wait" /\ st[t] = "stopped" /\ why[t] \in Swallowed
  /\ Continue(t)
  /\ UNCHANGED <<supVars, why, execs, sent, pend>>

DeliverSignal(t) ==
  /\ sup = "wait" /\ st[t] = "stopped" /\ why[t] \in Signals \ GroupStops
  /\ Reinject(t)
  /\ UNCHANGED <<supVars, why, execs, sent, pend>>

----------------------------------------------------------------------------
SupStep ==
  \/ Arm \/ NoChild
  \/ \E t \in Tasks : Reap(t) \/ RewriteExecve(t) \/ ContinueStopped(t) \/ DeliverSignal(t)

KernelStep(t) == ExecveReturns(t) \/ ExitKill(t) \/ \E s \in Signals : SignalStop(t, s)

Next ==
  \/ SupStep
  \/ \E t \in Tasks :
       \/ KernelStep(t) \/ Kill(t) \/ Exit(t, 3)
       \/ \E u \in Tasks : Fork(t, u)
       \/ \E q \in Requests : Execve(t, q)
       \/ \E s \in Signals : SendSignal(t, s)

Spec == Init /\ [][Next]_vars

\* The supervisor's loop and the kernel go on; programs need not.
FairSpec == Spec /\ WF_vars(SupStep) /\ \A t \in Tasks : WF_vars(KernelStep(t))

----------------------------------------------------------------------------
(* Properties.                                                             *)

Calls == {Call(q, b) : q \in Requests, b \in BOOLEAN} \cup {None}

\* Types of every variable.
TypeOK ==
  /\ sup \in {"arm", "wait", "ended"} /\ code \in 0..255 /\ armed \in BOOLEAN
  /\ st \in [Tasks -> {"none", "run", "stopped", "execing", "dead", "reaped"}]
  /\ why \in [Tasks -> {"none", "seccomp", "event", "TRAP"} \cup Signals]
  /\ status \in [Tasks -> [exited : BOOLEAN, n : 0..127]] /\ execs \in [Tasks -> 0..MaxExecs]
  /\ ask \in [Tasks -> Calls]
  /\ sent \in [Tasks -> SUBSET Signals] /\ pend \in [Tasks -> SUBSET Signals]
  /\ got \in [Tasks -> SUBSET Signals]

\* Where the adapter's table would have an exec run.
Wanted(q) ==
  LET cwdrem == IsRemote(Table, q.cwd)
      stays  == q.path \in LocalBins \/ "mark" \in Tokens(q.argv)
  IN \/ RgMode(q.argv) /\ cwdrem
     \/ ~stays /\ ("sentinel" \in Tokens(q.argv) \/ IsRemote(Table, q.path) \/ cwdrem)

Ordinary(q) == q.nr = "execve" /\ q.intact /\ Canonical(q.path) /\ Len(q.argv) <= MAX_ARGV

\* A program is executed on the host the adapter's table gives it, with the arguments it
\* was given: two implementations of the routing, in two languages, with what the
\* launcher hands from one to the other between them (routing.go IsRemote,
\* route_spawn, rewrite_execve).
ExecFollowsTable ==
  \A t \in Tasks : st[t] = "execing" /\ Ordinary(ask[t]) =>
    LET q == ask[t] IN
      exec[t] = IF Wanted(q)
                THEN [prog |-> Proxy, argv |-> <<Proxy, "_spawn-proxy", q.path>> \o q.argv]
                ELSE [prog |-> q.path, argv |-> q.argv]

\* Once the program runs, the supervisor reports how the program ended, as a
\* shell would, and not how some task of it did (exit_code, "real exit code").
StatusIsRoots ==
  sup = "ended" /\ armed =>
    st[Root] = "reaped" /\ code = status[Root].n + IF status[Root].exited THEN 0 ELSE 128

\* No stop is for ever: every task the kernel stopped goes on, or ends.
StopsAreAnswered == \A t \in Tasks : st[t] = "stopped" ~> st[t] # "stopped"

\* A signal sent to the program reaches it, whatever it was doing; job-control
\* stops excepted, which are swallowed ("group-stop: resume, don't reinject").
SignalsReach ==
  \A t \in Tasks : "TERM" \in pend[t] ~> "TERM" \in got[t] \/ st[t] \in {"dead", "reaped"}

\* When the supervisor has ended, no task of the program is left.
NoneLeft == sup = "ended" ~> \A t \in Tasks : st[t] \in {"none", "dead", "reaped"}
=============================================================================

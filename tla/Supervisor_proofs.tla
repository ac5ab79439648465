------------------------- MODULE Supervisor_proofs -------------------------
(***************************************************************************)
(* Proofs about Supervisor: the exit status is the program's, for any      *)
(* number of tasks that fork, execute, stop and die in any order, any      *)
(* routing table and any signals.                                          *)
(***************************************************************************)
EXTENDS Supervisor, RecursionTheorems, SequenceTheorems

States   == {"none", "run", "stopped", "execing", "dead", "reaped"}
Living   == {"run", "stopped", "execing"}
Statuses == [exited : BOOLEAN, n : Nat]

\* Armed, the program is there until it is reaped, and only the reaping of it ends the
\* loop: the branch of ECHILD is never taken before.
IInv ==
  /\ sup \in {"arm", "wait", "ended"}
  /\ st \in [Tasks -> States] /\ status \in [Tasks -> Statuses]
  /\ sup = "arm" => ~armed
  /\ sup = "wait" /\ armed => st[Root] \in Living \cup {"dead"}
  /\ sup = "ended" /\ armed => st[Root] = "reaped" /\ code = ExitCode(status[Root])

LEMMA InitInv == Init => IInv
  BY SupervisorAssumption DEF Init, IInv, States, Statuses, Exited

\* What a task does by itself, and what a turn of the loop does to the task it works on:
\* it stays alive or dies, and nothing else of IInv changes.
MayDie(t) ==
  /\ st[t] \in Living
  /\ \E to \in Living \cup {"dead"} : st' = [st EXCEPT ![t] = to]
  /\ status' = status \/ \E how \in Statuses : status' = [status EXCEPT ![t] = how]
  /\ UNCHANGED supVars

LEMMA MayDieInv ==
  ASSUME IInv, NEW t \in Tasks, MayDie(t)
  PROVE  IInv'
<1>1. PICK to \in Living \cup {"dead"} : st' = [st EXCEPT ![t] = to]
  BY DEF MayDie
<1>2. UNCHANGED <<sup, code, armed>> /\ st[t] \in Living
  BY DEF MayDie, supVars
<1>3. /\ status' \in [Tasks -> Statuses]
      /\ \A u \in Tasks : u # t => status'[u] = status[u]
  BY DEF MayDie, IInv
<1>4. Root \in Tasks
  BY SupervisorAssumption
<1>5. sup = "ended" /\ armed => t # Root
  BY <1>2 DEF IInv, Living
<1> QED
  BY <1>1, <1>2, <1>3, <1>4, <1>5 DEF IInv, States, Living, ExitCode

\* The program and the kernel.
LEMMA TaskSteps ==
  ASSUME IInv, NEW t \in Tasks,
         KernelStep(t) \/ Kill(t) \/ Exit(t, 3)
           \/ (\E q \in Requests : Execve(t, q)) \/ (\E s \in Signals : SendSignal(t, s))
  PROVE  IInv'
<1>1. CASE ExecveReturns(t)
  <2>1. MayDie(t)
    BY <1>1 DEF ExecveReturns, MayDie, Living, Stop
  <2> QED
    BY <2>1, MayDieInv
<1>2. CASE ExitKill(t)
  <2>1. MayDie(t)
    BY <1>2 DEF ExitKill, MayDie, Living, Dies, Statuses, Exited, Signaled
  <2> QED
    BY <2>1, MayDieInv
<1>3. CASE \E s \in Signals : SignalStop(t, s)
  <2>1. MayDie(t)
    BY <1>3 DEF SignalStop, MayDie, Living, Stop
  <2> QED
    BY <2>1, MayDieInv
<1>4. CASE Kill(t) \/ Exit(t, 3)
  <2>1. MayDie(t)
    BY <1>4 DEF Kill, Exit, MayDie, Living, Dies, Statuses, Exited, Signaled
  <2> QED
    BY <2>1, MayDieInv
<1>5. CASE \E q \in Requests : Execve(t, q)
  <2>1. MayDie(t)
    BY <1>5 DEF Execve, MayDie, Living, Stop
  <2> QED
    BY <2>1, MayDieInv
<1>6. CASE \E s \in Signals : SendSignal(t, s)
  BY <1>6 DEF SendSignal, supVars, IInv
<1> QED
  BY <1>1, <1>2, <1>3, <1>4, <1>5, <1>6 DEF KernelStep

LEMMA ForkInv ==
  ASSUME IInv, NEW t \in Tasks, NEW u \in Tasks, Fork(t, u)
  PROVE  IInv'
<1>1. /\ st[t] = "run" /\ st[u] = "none" /\ UNCHANGED <<sup, code, armed, status>>
      /\ st' = [st EXCEPT ![t] = "stopped", ![u] = "stopped"]
  BY DEF Fork, supVars
<1>2. Root \in Tasks
  BY SupervisorAssumption
<1>3. st' \in [Tasks -> States] /\ (st[Root] \in Living => st'[Root] \in Living)
      /\ (st[Root] \in {"dead", "reaped"} => st'[Root] = st[Root])
  BY <1>1, <1>2 DEF IInv, States, Living
<1> QED
  BY <1>1, <1>2, <1>3 DEF IInv, Living

\* The turns of the loop.
LEMMA LoopSteps ==
  ASSUME IInv, SupStep
  PROVE  IInv'
<1>r. Root \in Tasks
  BY SupervisorAssumption
<1>1. CASE Arm
  <2>1. /\ sup = "arm" /\ sup' = "wait" /\ armed' = (st[Root] = "stopped")
        /\ st' = [st EXCEPT ![Root] = IF @ = "stopped" THEN "run" ELSE "reaped"]
        /\ status' = status
    BY <1>1 DEF Arm
  <2> QED
    BY <2>1, <1>r DEF IInv, States, Living
<1>2. CASE NoChild
  <2>1. /\ sup = "wait" /\ sup' = "ended" /\ UNCHANGED <<code, armed, st, status>>
        /\ st[Root] \in {"none", "reaped"}
    BY <1>2, <1>r DEF NoChild
  <2> QED
    BY <2>1 DEF IInv, Living
<1>3. ASSUME NEW t \in Tasks, Reap(t)
      PROVE  IInv'
  <2>1. /\ sup = "wait" /\ st[t] = "dead" /\ st' = [st EXCEPT ![t] = "reaped"] /\ status' = status
    BY <1>3 DEF Reap
  <2>2. CASE t = Root
    <3>1. sup' = "ended" /\ code' = ExitCode(status[Root]) /\ armed' = armed
      BY <1>3, <2>2 DEF Reap, EndsWith
    <3> QED
      BY <2>1, <2>2, <3>1, <1>r DEF IInv, States, ExitCode
  <2>3. CASE t # Root
    <3>1. UNCHANGED <<sup, code, armed>>
      BY <1>3, <2>3 DEF Reap, EndsWith, supVars
    <3> QED
      BY <2>1, <2>3, <3>1, <1>r DEF IInv, States
  <2> QED
    BY <2>2, <2>3
<1>4. ASSUME NEW t \in Tasks, RewriteExecve(t) \/ ContinueStopped(t) \/ DeliverSignal(t)
      PROVE  IInv'
  <2>1. \A s : Signaled(Number(s)) \in Statuses
    BY DEF Signaled, Number, Statuses
  <2>2. MayDie(t)
    BY <1>4, <2>1 DEF RewriteExecve, ContinueStopped, DeliverSignal, Continue, Reinject,
                      Deliver, Dies, MayDie, Living
  <2> QED
    BY <2>2, MayDieInv
<1> QED
  BY <1>1, <1>2, <1>3, <1>4 DEF SupStep

LEMMA StepInv == IInv /\ [Next]_vars => IInv'
<1> SUFFICES ASSUME IInv, [Next]_vars PROVE IInv'
  OBVIOUS
<1>1. CASE SupStep
  BY <1>1, LoopSteps
<1>2. ASSUME NEW t \in Tasks,
             KernelStep(t) \/ Kill(t) \/ Exit(t, 3)
               \/ (\E q \in Requests : Execve(t, q)) \/ (\E s \in Signals : SendSignal(t, s))
      PROVE  IInv'
  BY <1>2, TaskSteps
<1>3. ASSUME NEW t \in Tasks, NEW u \in Tasks, Fork(t, u) PROVE IInv'
  BY <1>3, ForkInv
<1>4. CASE UNCHANGED vars
  BY <1>4 DEF vars, supVars, IInv, ExitCode
<1> QED
  BY <1>1, <1>2, <1>3, <1>4 DEF Next

\* Once the program runs, the supervisor reports how the program ended (main,
\* exit_code).
THEOREM StatusHolds == Spec => []StatusIsRoots
<1>1. Spec => []IInv
  BY InitInv, StepInv, PTL DEF Spec
<1>2. IInv => StatusIsRoots
  <2>1. Root \in Tasks
    BY SupervisorAssumption
  <2> QED
    BY <2>1 DEF IInv, StatusIsRoots, ExitCode, Statuses
<1> QED
  BY <1>1, <1>2, PTL

----------------------------------------------------------------------------
(* Where an exec runs: the C router, fed with the prefixes of the table,   *)
(* and the table itself agree.                                             *)

\* Names that are not empty.
Names == STRING \ {""}

\* A cleaned path has no empty name.
LEMMA CleanNames ==
  ASSUME NEW p \in Seq(STRING)
  PROVE  Clean(p) \in Seq(Names)
<1> DEFINE S == 0..Len(p)
           T == Seq(Names)
           stop == {0}
           base == [i \in S |-> <<>>]
           prev == [i \in S |-> IF i = 0 THEN 0 ELSE i - 1]
           step == [x \in S \X T |-> IF x[1] = 0 THEN <<>> ELSE CleanName(x[2], p[x[1]])]
           m    == [i \in S |-> i]
           Body(f) == [i \in S |-> IF i = 0 THEN <<>> ELSE CleanName(f[i - 1], p[i])]
<1>0. Len(p) \in Nat /\ <<>> \in T
  OBVIOUS
<1>1. Descends(S, stop, m, prev)
  BY <1>0 DEF Descends
<1>2. base \in [S -> T]
  BY <1>0
<1>3. step \in [S \X T -> T]
  <2>1. ASSUME NEW i \in S, i # 0, NEW acc \in T PROVE CleanName(acc, p[i]) \in T
    <3>1. p[i] \in STRING
      BY <1>0, <2>1
    <3>2. acc # <<>> => Front(acc) \in T
      <4> HIDE DEF Names
      <4> QED
        BY DEF Front
    <3>3. p[i] # "" => Append(acc, p[i]) \in T
      <4>1. p[i] # "" => p[i] \in Names
        BY <3>1 DEF Names
      <4> HIDE DEF Names
      <4> QED
        BY <4>1, AppendProperties
    <3> QED
      BY <3>2, <3>3 DEF CleanName
  <2> HIDE DEF T
  <2> QED
    BY <1>0, <2>1
<1>4. PICK f : Computes(f, S, T, stop, base, prev, step)
  <2> HIDE DEF m, base, prev, step, stop, S, T
  <2> QED
    BY <1>1, <1>2, <1>3, Recursion
<1>5. ASSUME NEW g, g = Body(g) PROVE Equation(g, S, T, stop, base, prev, step)
  <2>1. ASSUME NEW i \in S, i \notin stop, g[prev[i]] \in T PROVE g[i] = step[<<i, g[prev[i]]>>]
    <3>1. prev[i] = i - 1 /\ <<i, g[prev[i]]>> \in S \X T
      BY <2>1
    <3>2. g[i] = CleanName(g[i - 1], p[i])
      BY <1>5, <2>1
    <3> QED
      BY <2>1, <3>1, <3>2
  <2>2. ASSUME NEW i \in stop PROVE g[i] = base[i]
    BY <1>0, <1>5, <2>2
  <2> HIDE DEF base, prev, step, stop, S, T
  <2> QED
    BY <2>1, <2>2 DEF Equation
<1>6. f = Body(f)
  <2>1. f \in [S -> T]
    BY <1>4 DEF Computes
  <2>2. ASSUME NEW i \in S PROVE f[i] = Body(f)[i]
    <3>1. f[i] = IF i \in stop THEN base[i] ELSE step[<<i, f[prev[i]]>>]
      BY <1>4 DEF Computes
    <3>2. i # 0 => prev[i] = i - 1 /\ i - 1 \in S
      OBVIOUS
    <3> HIDE DEF T
    <3> QED
      BY <2>1, <3>1, <3>2
  <2> HIDE DEF base, prev, step, stop, S, T
  <2> QED
    BY <2>1, <2>2
<1> DEFINE w == CHOOSE g : g = Body(g)
<1>7. w = Body(w)
  BY <1>6
<1>8. Clean(p) = w[Len(p)]
  BY DEF Clean
<1> HIDE DEF w
<1>9. \A i \in S : w[i] = f[i]
  BY <1>4, <1>5, <1>7 DEF Computes
<1>10. f \in [S -> T]
  BY <1>4 DEF Computes
<1> HIDE DEF T
<1>11. w[Len(p)] \in T
  BY <1>0, <1>9, <1>10
<1> QED
  BY <1>8, <1>11 DEF T

\* The table is one of a launch without --default-remote: of the paths the command line
\* names, or of the working directory.
Listed ==
  \E o, pinned :
    /\ ~o.defaultRemote /\ o.workdir \in Seq(STRING) /\ o.remote \in SUBSET Seq(STRING)
    /\ Table = Launch(o, pinned)

\* Such a table lists remote prefixes, all of them cleaned.
LEMMA ListedTable ==
  ASSUME Listed
  PROVE  Table.mode = "RemoteAllowlist" /\ Table.remote \subseteq Seq(Names)
<1>1. PICK o, pinned :
        /\ ~o.defaultRemote /\ o.workdir \in Seq(STRING) /\ o.remote \in SUBSET Seq(STRING)
        /\ Table = Launch(o, pinned)
  BY DEF Listed
<1> DEFINE remote == IF o.remote = {} THEN {o.workdir} ELSE o.remote
<1>2. remote \in SUBSET Seq(STRING)
  BY <1>1
<1>3. Table = New("RemoteAllowlist", remote, o.local)
  BY <1>1 DEF Launch
<1> HIDE DEF remote
<1>4. Table.mode = "RemoteAllowlist" /\ Table.remote = {Clean(p) : p \in remote}
  BY <1>3 DEF New
<1> QED
  BY <1>2, <1>4, CleanNames

\* A prefix is one of itself, not of nothing, nor of one name that is not its first.
LEMMA PrefixFacts ==
  ASSUME NEW S, NEW pre \in Seq(S), pre # <<>>
  PROVE  /\ IsPrefix(pre, pre) /\ ~IsPrefix(pre, <<>>)
         /\ \A name : pre[1] # name => ~IsPrefix(pre, <<name>>)
<1>1. Len(pre) \in Nat /\ Len(pre) >= 1 /\ Len(<<>>) = 0
  BY EmptySeq
<1>2. SubSeq(pre, 1, Len(pre)) = pre
  BY SubSeqFull
<1>3. ASSUME NEW name, IsPrefix(pre, <<name>>)
      PROVE  pre[1] = name
  <2>1. Len(<<name>>) = 1 /\ <<name>> \in Seq({name})
    OBVIOUS
  <2>2. Len(pre) = 1
    BY <1>1, <1>3, <2>1 DEF IsPrefix
  <2>3. SubSeq(<<name>>, 1, 1) = <<name>>
    BY <2>1, SubSeqFull
  <2>4. pre = <<name>>
    BY <1>2, <1>3, <2>2, <2>3 DEF IsPrefix
  <2> QED
    BY <2>4
<1> QED
  BY <1>1, <1>2, <1>3 DEF IsPrefix

\* A cleaned path that is not the root begins with a name.
LEMMA FirstName ==
  ASSUME NEW c \in Seq(Names), c # <<>>
  PROVE  c \in Seq(STRING) /\ c[1] \in STRING /\ c[1] # "" /\ ~IsPrefix(<<"">>, c)
<1>1. Len(c) \in Nat /\ Len(c) >= 1 /\ c[1] \in Names
  OBVIOUS
<1>2. c \in Seq(STRING)
  <2>1. Names \subseteq STRING
    BY DEF Names
  <2> QED
    BY <2>1, SeqMonotonic
<1>3. ~IsPrefix(<<"">>, c)
  <2>1. SUFFICES ASSUME IsPrefix(<<"">>, c) PROVE FALSE
    OBVIOUS
  <2>2. Len(<<"">>) = 1
    OBVIOUS
  <2>3. SubSeq(<<"">>, 1, 1) = SubSeq(c, 1, 1)
    BY <2>1, <2>2 DEF IsPrefix
  <2>4. SubSeq(<<"">>, 1, 1)[1] = "" /\ SubSeq(c, 1, 1)[1] = c[1]
    BY <1>1, <1>2
  <2> QED
    BY <1>1, <2>3, <2>4 DEF Names
<1> QED
  BY <1>1, <1>2, <1>3 DEF Names

\* A cleaned path is in one of the table's prefixes for both routers, or for neither.
LEMMA PrefixesAgree ==
  ASSUME Listed, NEW p \in Seq(STRING), Canonical(p)
  PROVE  IsRemote(Table, p) <=> PrefixHit(p, RemotePrefixes(Table))
<1>1. IsRemote(Table, p)
        <=> \E pre \in Table.remote : Clean(p) = pre \/ (pre # <<>> /\ IsPrefix(pre, Clean(p)))
  BY ListedTable DEF IsRemote, MatchesAny
<1>2. PrefixHit(p, RemotePrefixes(Table)) <=> \E pre \in Table.remote : IsPrefix(Written(pre), p)
  BY DEF PrefixHit, RemotePrefixes, Under
<1>3. ASSUME NEW pre \in Table.remote
      PROVE  Clean(p) = pre \/ (pre # <<>> /\ IsPrefix(pre, Clean(p))) <=> IsPrefix(Written(pre), p)
  <2>1. pre \in Seq(Names) /\ Clean(p) \in Seq(Names)
    BY ListedTable, CleanNames
  <2>2. IF Clean(p) = <<>> THEN p = <<"">> ELSE p = Clean(p)
    BY DEF Canonical, Written
  <2>3. CASE pre = <<>>
    <3>1. Written(pre) = <<"">>
      BY <2>3 DEF Written
    <3>2. IsPrefix(<<"">>, <<"">>)
      <4>1. <<"">> \in Seq({""}) /\ <<"">> # <<>>
        OBVIOUS
      <4> QED
        BY <4>1, PrefixFacts
    <3>3. Clean(p) # <<>> => ~IsPrefix(<<"">>, p)
      BY <2>1, <2>2, FirstName
    <3> QED
      BY <2>2, <2>3, <3>1, <3>2, <3>3
  <2>4. CASE pre # <<>>
    <3>1. Written(pre) = pre
      BY <2>4 DEF Written
    <3>2. pre \in Seq(STRING) /\ pre[1] # ""
      BY <2>1, <2>4, FirstName
    <3>3. /\ IsPrefix(pre, pre) /\ ~IsPrefix(pre, <<>>) /\ ~IsPrefix(pre, <<"">>)
      BY <2>4, <3>2, PrefixFacts
    <3> QED
      BY <2>2, <2>4, <3>1, <3>3
  <2> QED
    BY <2>3, <2>4
<1> QED
  BY <1>1, <1>2, <1>3

\* The supervisor sees all of a call that keeps to its limit.
LEMMA SeenAll ==
  ASSUME NEW S, NEW argv \in Seq(S), Len(argv) <= MAX_ARGV
  PROVE  Seen(argv) = argv
<1>1. SubSeq(argv, 1, Len(argv)) = argv /\ Len(argv) \in Nat
  BY SubSeqFull, LenProperties
<1>2. MAX_ARGV \in Nat
  BY SupervisorAssumption
<1>3. \A n, m \in Nat : n <= m => (IF n < m THEN n ELSE m) = n
  OBVIOUS
<1>4. (IF Len(argv) < MAX_ARGV THEN Len(argv) ELSE MAX_ARGV) = Len(argv)
  BY <1>1, <1>2, <1>3
<1> QED
  BY <1>1, <1>4 DEF Seen

\* What ExecFollowsTable asks of the exec of an ordinary call.
Due(q) ==
  IF Wanted(q) THEN [prog |-> Proxy, argv |-> <<Proxy, "_spawn-proxy", q.path>> \o q.argv]
  ELSE [prog |-> q.path, argv |-> q.argv]

\* The two routers give an ordinary call the same host.
LEMMA RoutersAgree ==
  ASSUME Listed, NEW q \in Requests, Ordinary(Call(q, TRUE))
  PROVE  Routed(Call(q, TRUE)) <=> Wanted(Call(q, TRUE))
<1> DEFINE c == Call(q, TRUE)
<1>1. /\ c.nr = "execve" /\ Canonical(c.path) /\ Len(c.argv) <= MAX_ARGV
      /\ Canonical(c.cwd) /\ c.argv \in Seq(STRING)
      /\ c.path \in Seq(STRING) /\ c.cwd \in Seq(STRING)
  BY RequestsAssumption DEF Ordinary, Call
<1>2. Seen(c.argv) = c.argv
  BY <1>1, SeenAll
<1>3. /\ IsRemote(Table, c.path) <=> PrefixHit(c.path, RemotePrefixes(Table))
      /\ IsRemote(Table, c.cwd) <=> PrefixHit(c.cwd, RemotePrefixes(Table))
  BY <1>1, PrefixesAgree
<1> HIDE DEF c
<1>4. Routed(c) <=> Wanted(c)
  BY <1>2, <1>3 DEF Routed, Wanted, RouteSpawn, IsLocalBin
<1> QED
  BY <1>4 DEF c

\* A call that waits for the supervisor is a request of the program, as it made it.
Asked(t) == \E q \in Requests :
  ask[t] = Call(q, TRUE) /\ exec[t] = [prog |-> q.path, argv |-> q.argv]

EInv ==
  /\ st \in [Tasks -> States]
  /\ DOMAIN why = Tasks /\ DOMAIN ask = Tasks /\ DOMAIN exec = Tasks
  /\ \A t \in Tasks : st[t] = "stopped" /\ why[t] = "seccomp" => Asked(t)
  /\ Listed => \A t \in Tasks : st[t] = "execing" /\ Ordinary(ask[t]) => exec[t] = Due(ask[t])

LEMMA EInit == Init => EInv
  BY DEF Init, EInv, States

\* A step in which only t changes, and t waits for no rewriting and executes nothing.
Quiet(t) ==
  /\ st' \in [Tasks -> States]
  /\ DOMAIN why' = Tasks /\ DOMAIN ask' = Tasks /\ DOMAIN exec' = Tasks
  /\ \A u \in Tasks \ {t} :
       st'[u] = st[u] /\ why'[u] = why[u] /\ ask'[u] = ask[u] /\ exec'[u] = exec[u]
  /\ st'[t] # "execing" /\ ~(st'[t] = "stopped" /\ why'[t] = "seccomp")

LEMMA QuietInv ==
  ASSUME EInv, NEW t \in Tasks, Quiet(t)
  PROVE  EInv'
<1>1. ASSUME NEW u \in Tasks, st'[u] = "stopped", why'[u] = "seccomp"
      PROVE  Asked(u)'
  <2>1. u # t
    BY <1>1 DEF Quiet
  <2>2. Asked(u) /\ ask'[u] = ask[u] /\ exec'[u] = exec[u]
    BY <1>1, <2>1 DEF EInv, Quiet
  <2> QED
    BY <2>2 DEF Asked
<1>2. Listed => \A u \in Tasks : st'[u] = "execing" /\ Ordinary(ask'[u]) => exec'[u] = Due(ask'[u])
  BY DEF EInv, Quiet
<1> QED
  BY <1>1, <1>2 DEF EInv, Quiet

LEMMA RewriteEInv ==
  ASSUME EInv, NEW t \in Tasks, RewriteExecve(t)
  PROVE  EInv'
<1>1. /\ st[t] = "stopped" /\ why[t] = "seccomp" /\ why' = why
      /\ st' = [st EXCEPT ![t] = "execing"]
  BY DEF RewriteExecve
<1>2. PICK q \in Requests : ask[t] = Call(q, TRUE) /\ exec[t] = [prog |-> q.path, argv |-> q.argv]
  BY <1>1 DEF EInv, Asked
<1>3. /\ DOMAIN ask' = Tasks /\ DOMAIN exec' = Tasks
      /\ \A u \in Tasks \ {t} : ask'[u] = ask[u] /\ exec'[u] = exec[u]
  BY DEF RewriteExecve, EInv
<1>4. ASSUME Listed, Ordinary(ask'[t])
      PROVE  exec'[t] = Due(ask'[t])
  <2>1. CASE ask'[t].intact = FALSE
    BY <2>1, <1>4 DEF Ordinary
  <2>2. CASE ask' = ask
    <3>1. Ordinary(Call(q, TRUE)) /\ ask'[t] = Call(q, TRUE)
      BY <1>2, <1>4, <2>2
    <3>2. Routed(Call(q, TRUE)) <=> Wanted(Call(q, TRUE))
      BY <1>4, <3>1, RoutersAgree
    <3>3. /\ Call(q, TRUE).nr = "execve" /\ Call(q, TRUE).path = q.path
          /\ Call(q, TRUE).argv = q.argv /\ q.argv \in Seq(STRING) /\ Len(q.argv) <= MAX_ARGV
      BY <3>1, RequestsAssumption DEF Ordinary, Call
    <3>3a. Seen(q.argv) = q.argv
      BY <3>3, SeenAll
    <3>4. CASE exec' = [exec EXCEPT ![t] = [prog |-> Proxy,
                          argv |-> ProxyArgv(Proxy, ask[t].path, Seen(ask[t].argv))]]
               /\ Routed(ask[t])
      <4>1. exec'[t] = [prog |-> Proxy, argv |-> ProxyArgv(Proxy, q.path, q.argv)]
        BY <1>2, <3>3, <3>3a, <3>4 DEF EInv
      <4>2. Wanted(Call(q, TRUE))
        BY <1>2, <3>2, <3>4
      <4> QED
        BY <3>1, <3>3, <4>1, <4>2 DEF Due, ProxyArgv
    <3>5. CASE exec' = exec /\ ~Routed(ask[t])
      <4>1. ~Wanted(Call(q, TRUE))
        BY <1>2, <3>2, <3>5
      <4> QED
        BY <1>2, <3>1, <3>3, <3>5, <4>1 DEF Due
    <3>6. CASE ask' = [ask EXCEPT ![t].intact = FALSE]
      <4>1. ask'[t].intact = FALSE
        BY <3>6, <1>2 DEF EInv, Call
      <4> QED
        BY <4>1, <3>1 DEF Call
    <3> QED
      BY <1>2, <3>3, <3>4, <3>5, <3>6 DEF RewriteExecve
  <2>3. CASE ask' = [ask EXCEPT ![t].intact = FALSE]
    <3>1. ask'[t].intact = FALSE
      BY <2>3, <1>2 DEF EInv, Call
    <3> QED
      BY <3>1, <2>1
  <2> QED
    BY <2>2, <2>3 DEF RewriteExecve
<1>5. st' \in [Tasks -> States] /\ DOMAIN why' = Tasks
      /\ (\A u \in Tasks \ {t} : st'[u] = st[u] /\ why'[u] = why[u]) /\ st'[t] = "execing"
  BY <1>1 DEF EInv, States
<1>6. ASSUME NEW u \in Tasks, st'[u] = "stopped", why'[u] = "seccomp"
      PROVE  Asked(u)'
  <2>1. u # t
    BY <1>5, <1>6
  <2>2. Asked(u)
    BY <1>5, <1>6, <2>1 DEF EInv
  <2> QED
    BY <1>3, <2>1, <2>2 DEF Asked
<1>7. Listed => \A u \in Tasks : st'[u] = "execing" /\ Ordinary(ask'[u]) => exec'[u] = Due(ask'[u])
  BY <1>3, <1>4, <1>5 DEF EInv
<1> QED
  BY <1>3, <1>5, <1>6, <1>7 DEF EInv

LEMMA ExecveEInv ==
  ASSUME EInv, NEW t \in Tasks, NEW q \in Requests, Execve(t, q)
  PROVE  EInv'
<1>1. /\ ask' = [ask EXCEPT ![t] = Call(q, TRUE)]
      /\ exec' = [exec EXCEPT ![t] = [prog |-> q.path, argv |-> q.argv]]
      /\ st' = [st EXCEPT ![t] = "stopped"] /\ why' = [why EXCEPT ![t] = "seccomp"]
  BY DEF Execve, Stop, Call
<1>2. \A u \in Tasks : st'[u] = "stopped" /\ why'[u] = "seccomp" => Asked(u)'
  BY <1>1 DEF EInv, Asked
<1>3. Listed => \A u \in Tasks : st'[u] = "execing" /\ Ordinary(ask'[u]) => exec'[u] = Due(ask'[u])
  BY <1>1 DEF EInv
<1>4. /\ st' \in [Tasks -> States]
      /\ DOMAIN why' = Tasks /\ DOMAIN ask' = Tasks /\ DOMAIN exec' = Tasks
  BY <1>1 DEF EInv, States
<1> QED
  BY <1>2, <1>3, <1>4 DEF EInv

LEMMA ForkEInv ==
  ASSUME EInv, NEW t \in Tasks, NEW u \in Tasks, Fork(t, u)
  PROVE  EInv'
<1>1. /\ st' = [st EXCEPT ![t] = "stopped", ![u] = "stopped"]
      /\ why' = [why EXCEPT ![t] = "event", ![u] = "STOP"] /\ UNCHANGED <<ask, exec>>
  BY DEF Fork, execVars
<1>2. \A v \in Tasks : st'[v] = "stopped" /\ why'[v] = "seccomp" => Asked(v)'
  BY <1>1 DEF EInv, Asked
<1>3. Listed => \A v \in Tasks : st'[v] = "execing" /\ Ordinary(ask'[v]) => exec'[v] = Due(ask'[v])
  BY <1>1 DEF EInv
<1>4. st' \in [Tasks -> States] /\ DOMAIN why' = Tasks
  BY <1>1 DEF EInv, States
<1> QED
  BY <1>1, <1>2, <1>3, <1>4 DEF EInv

LEMMA SameEInv == EInv /\ UNCHANGED <<st, why, ask, exec>> => EInv'
  BY DEF EInv, Asked

\* The steps of one task, and the loop's on it, but for execve and its rewriting.
LEMMA TaskEInv ==
  ASSUME EInv, NEW t \in Tasks,
         KernelStep(t) \/ Kill(t) \/ Exit(t, 3) \/ Reap(t) \/ ContinueStopped(t) \/ DeliverSignal(t)
  PROVE  EInv'
<1> SUFFICES Quiet(t)
  BY QuietInv
<1> USE DEF EInv, States, Quiet
<1>1. CASE ExecveReturns(t)
  BY <1>1 DEF ExecveReturns, Stop
<1>2. CASE ExitKill(t) \/ Kill(t) \/ Exit(t, 3)
  BY <1>2 DEF ExitKill, Kill, Exit, Dies
<1>3. CASE \E s \in Signals : SignalStop(t, s)
  BY <1>3 DEF SignalStop, Stop, execVars, Signals
<1>4. CASE Reap(t)
  BY <1>4 DEF Reap, execVars
<1>5. CASE ContinueStopped(t)
  BY <1>5 DEF ContinueStopped, Continue
<1>6. CASE DeliverSignal(t)
  BY <1>6 DEF DeliverSignal, Reinject, Deliver, Dies
<1> QED
  BY <1>1, <1>2, <1>3, <1>4, <1>5, <1>6 DEF KernelStep

LEMMA EStep == EInv /\ [Next]_vars => EInv'
<1> SUFFICES ASSUME EInv, [Next]_vars PROVE EInv'
  OBVIOUS
<1>1. CASE Arm
  <2>1. Root \in Tasks
    BY SupervisorAssumption
  <2>2. Quiet(Root)
    BY <1>1, <2>1 DEF Arm, EInv, States, Quiet, execVars
  <2> QED
    BY <2>1, <2>2, QuietInv
<1>2. CASE NoChild
  BY <1>2, SameEInv DEF NoChild, execVars
<1>3. ASSUME NEW t \in Tasks,
             KernelStep(t) \/ Kill(t) \/ Exit(t, 3)
               \/ Reap(t) \/ ContinueStopped(t) \/ DeliverSignal(t)
      PROVE  EInv'
  BY <1>3, TaskEInv
<1>4. ASSUME NEW t \in Tasks, RewriteExecve(t) PROVE EInv'
  BY <1>4, RewriteEInv
<1>5. ASSUME NEW t \in Tasks, NEW q \in Requests, Execve(t, q) PROVE EInv'
  BY <1>5, ExecveEInv
<1>6. ASSUME NEW t \in Tasks, NEW u \in Tasks, Fork(t, u) PROVE EInv'
  BY <1>6, ForkEInv
<1>7. ASSUME NEW t \in Tasks, NEW s \in Signals, SendSignal(t, s) PROVE EInv'
  BY <1>7, SameEInv DEF SendSignal, execVars
<1>8. CASE UNCHANGED vars
  BY <1>8, SameEInv DEF vars, execVars
<1> QED
  BY <1>1, <1>2, <1>3, <1>4, <1>5, <1>6, <1>7, <1>8 DEF Next, SupStep

\* What a call is held to be is always so.
LEMMA EInvHolds == Spec => []EInv
  BY EInit, EStep, PTL DEF Spec

\* In a launch without --default-remote, an exec runs where the table says, with its
\* arguments (IsRemote of routing.go, route_spawn and rewrite_execve).
THEOREM ExecHolds == ASSUME Listed PROVE Spec => []ExecFollowsTable
<1>1. EInv => ExecFollowsTable
  BY DEF EInv, ExecFollowsTable, Due
<1> QED
  BY EInvHolds, <1>1, PTL

----------------------------------------------------------------------------
(* Types.                                                                  *)

\* The numbers a task ends with leave room for the 128 of a signal.
LEMMA EndTypes ==
  /\ Exited(3) \in [exited : BOOLEAN, n : 0..127]
  /\ Exited(0) \in [exited : BOOLEAN, n : 0..127]
  /\ Exited(97) \in [exited : BOOLEAN, n : 0..127]
  /\ Signaled(9) \in [exited : BOOLEAN, n : 0..127]
  /\ \A s : Signaled(Number(s)) \in [exited : BOOLEAN, n : 0..127]
BY DEF Exited, Signaled, Number

\* A request that is asked for is a call.
LEMMA CallTypes ==
  ASSUME NEW q \in Requests, NEW b \in BOOLEAN
  PROVE  /\ Call(q, b) \in Calls
         /\ \A c \in BOOLEAN : [Call(q, b) EXCEPT !.intact = c] = Call(q, c)
<1>1. Call(q, b) \in Calls
  BY DEF Calls
<1>2. ASSUME NEW c \in BOOLEAN
      PROVE  [Call(q, b) EXCEPT !.intact = c] = Call(q, c)
  BY DEF Call
<1> QED
  BY <1>1, <1>2

\* The variables are well typed at the start.
LEMMA TypeInit == Init => TypeOK
<1> SUFFICES ASSUME Init PROVE TypeOK
  OBVIOUS
<1>1. /\ st \in [Tasks -> States] /\ why \in [Tasks -> {"none", "STOP"}]
      /\ status \in [Tasks -> {Exited(0), Exited(97)}]
      /\ sup = "arm" /\ code = 0 /\ armed = FALSE
  BY DEF Init, States
<1>2. /\ ask \in [Tasks -> Calls] /\ execs \in [Tasks -> 0..MaxExecs]
      /\ sent \in [Tasks -> SUBSET Signals] /\ pend \in [Tasks -> SUBSET Signals]
      /\ got \in [Tasks -> SUBSET Signals]
  BY SupervisorAssumption DEF Init, Calls
<1>3. status \in [Tasks -> [exited : BOOLEAN, n : 0..127]]
  BY <1>1, EndTypes
<1>4. why \in [Tasks -> {"none", "seccomp", "event", "TRAP"} \cup Signals]
  BY <1>1 DEF Signals
<1>5. sup \in {"arm", "wait", "ended"} /\ code \in 0..255 /\ armed \in BOOLEAN
  <2>1. code \in 0..255
    BY <1>1
  <2>2. armed \in BOOLEAN
    BY <1>1, Zenon
  <2> QED
    BY <1>1, <2>1, <2>2, Zenon
<1> QED
  BY <1>1, <1>2, <1>3, <1>4, <1>5 DEF TypeOK, States

\* What a task does by itself leaves them so ...
LEMMA TaskTypes ==
  ASSUME TypeOK, NEW t \in Tasks,
         KernelStep(t) \/ Kill(t) \/ Exit(t, 3)
           \/ (\E u \in Tasks : Fork(t, u)) \/ (\E q \in Requests : Execve(t, q))
           \/ (\E s \in Signals : SendSignal(t, s))
  PROVE  TypeOK'
<1>1. CASE ExecveReturns(t)
  <2>1. None \in Calls
    BY DEF Calls
  <2> QED
    BY <1>1, <2>1 DEF ExecveReturns, Stop, TypeOK, supVars, sigVars
<1>2. CASE ExitKill(t) \/ Kill(t) \/ Exit(t, 3)
  <2>1. None \in Calls
    BY DEF Calls
  <2>2. \E how \in [exited : BOOLEAN, n : 0..127] : Dies(t, how)
    BY <1>2, EndTypes DEF ExitKill, Kill, Exit
  <2>3. UNCHANGED <<sup, code, armed, why, execs, sent, pend, got>>
    BY <1>2 DEF ExitKill, Kill, Exit, supVars, sigVars
  <2> QED
    BY <2>1, <2>2, <2>3 DEF Dies, TypeOK
<1>3. CASE \E s \in Signals : SignalStop(t, s)
  BY <1>3 DEF SignalStop, Stop, TypeOK, supVars, execVars
<1>4. CASE \E u \in Tasks : Fork(t, u)
  BY <1>4 DEF Fork, TypeOK, Signals, supVars, execVars, sigVars
<1>5. ASSUME NEW q \in Requests, Execve(t, q) PROVE TypeOK'
  <2>1. Call(q, TRUE) \in Calls
    BY CallTypes
  <2>2. execs' \in [Tasks -> 0..MaxExecs]
    BY <1>5, SupervisorAssumption DEF Execve, TypeOK
  <2> QED
    BY <1>5, <2>1, <2>2 DEF Execve, Stop, TypeOK, supVars, sigVars
<1>6. CASE \E s \in Signals : SendSignal(t, s)
  BY <1>6 DEF SendSignal, TypeOK, supVars, execVars
<1> QED
  BY <1>1, <1>2, <1>3, <1>4, <1>5, <1>6 DEF KernelStep

\* ... and so do the turns of the loop: what it reports fits in an exit status.
LEMMA LoopTypes ==
  ASSUME TypeOK, EInv, SupStep
  PROVE  TypeOK'
<1>r. Root \in Tasks
  BY SupervisorAssumption
<1>1. CASE Arm
  BY <1>1, <1>r DEF Arm, TypeOK, execVars, sigVars
<1>2. CASE NoChild
  BY <1>2 DEF NoChild, TypeOK, execVars, sigVars
<1>3. ASSUME NEW t \in Tasks, Reap(t) PROVE TypeOK'
  <2>1. ExitCode(status[t]) \in 0..255
    BY DEF TypeOK, ExitCode
  <2>2. /\ sup' \in {"arm", "wait", "ended"} /\ code' \in 0..255 /\ armed' \in BOOLEAN
    BY <1>3, <2>1 DEF Reap, TypeOK, supVars
  <2> QED
    BY <1>3, <2>2 DEF Reap, TypeOK, execVars, sigVars
<1>4. ASSUME NEW t \in Tasks, RewriteExecve(t) PROVE TypeOK'
  <2>1. PICK q \in Requests : ask[t] = Call(q, TRUE)
    BY <1>4 DEF RewriteExecve, EInv, Asked
  <2>2. [ask[t] EXCEPT !.intact = FALSE] = Call(q, FALSE)
    BY <2>1, CallTypes
  <2>3. ask' = ask \/ ask' = [ask EXCEPT ![t] = Call(q, FALSE)]
    BY <1>4, <2>2 DEF RewriteExecve
  <2>4. Call(q, FALSE) \in Calls
    BY CallTypes
  <2>5. ask' \in [Tasks -> Calls]
    BY <2>3, <2>4 DEF TypeOK
  <2> QED
    BY <1>4, <2>5 DEF RewriteExecve, TypeOK, supVars, sigVars
<1>5. ASSUME NEW t \in Tasks, ContinueStopped(t) PROVE TypeOK'
  BY <1>5 DEF ContinueStopped, Continue, TypeOK, supVars
<1>6. ASSUME NEW t \in Tasks, DeliverSignal(t) PROVE TypeOK'
  <2>1. Deliver(t, why[t]) /\ why[t] \in Signals
    BY <1>6 DEF DeliverSignal, Reinject
  <2>2. None \in Calls
    BY DEF Calls
  <2> QED
    <3>1. /\ UNCHANGED <<sup, code, armed, why, execs, sent, pend>>
          /\ got' = [got EXCEPT ![t] = @ \cup {why[t]}]
      BY <1>6, <2>1 DEF DeliverSignal, Deliver, supVars
    <3>2. got' \in [Tasks -> SUBSET Signals]
      BY <2>1, <3>1 DEF TypeOK
    <3>3. CASE st' = [st EXCEPT ![t] = "run"] /\ UNCHANGED <<status, ask, exec>>
      BY <3>1, <3>2, <3>3 DEF TypeOK
    <3>4. CASE Dies(t, Signaled(Number(why[t])))
      <4>1. PICK how \in [exited : BOOLEAN, n : 0..127] : Dies(t, how)
        BY <3>4, EndTypes
      <4> QED
        BY <2>2, <3>1, <3>2, <4>1 DEF Dies, TypeOK
    <3> QED
      BY <2>1, <3>3, <3>4 DEF Deliver
<1> QED
  BY <1>1, <1>2, <1>3, <1>4, <1>5, <1>6 DEF SupStep

\* Every variable has its type: exit codes fit in a byte, calls are requests of programs.
THEOREM TypesHold == Spec => []TypeOK
<1>1. TypeOK /\ EInv /\ [Next]_vars => TypeOK'
  <2> SUFFICES ASSUME TypeOK, EInv, [Next]_vars PROVE TypeOK'
    OBVIOUS
  <2>1. CASE SupStep
    BY <2>1, LoopTypes
  <2>2. ASSUME NEW t \in Tasks,
               KernelStep(t) \/ Kill(t) \/ Exit(t, 3)
                 \/ (\E u \in Tasks : Fork(t, u)) \/ (\E q \in Requests : Execve(t, q))
                 \/ (\E s \in Signals : SendSignal(t, s))
        PROVE  TypeOK'
    BY <2>2, TaskTypes
  <2>3. CASE UNCHANGED vars
    BY <2>3 DEF vars, supVars, execVars, sigVars, TypeOK
  <2> QED
    BY <2>1, <2>2, <2>3 DEF Next
<1> QED
  BY TypeInit, EInvHolds, <1>1, PTL DEF Spec
=============================================================================

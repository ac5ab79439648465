--------------------------- MODULE Session_proofs --------------------------
(***************************************************************************)
(* Proofs about Session: whatever sessions share a host, whatever they     *)
(* route and however signals cut their chains of processes.                *)
(***************************************************************************)
EXTENDS Session, TLAPS

----------------------------------------------------------------------------
(* The chain of processes, and what goes up it.                            *)

\* Who starts whom.
LEMMA ChainOfProcs ==
  /\ Procs = {"rca", "outer", "inner", "supervisor", "program"}
  /\ Child("rca") = "outer" /\ Child("outer") = "inner"
  /\ Child("inner") = "supervisor" /\ Child("supervisor") = "program"
<1>1. DOMAIN Stages = 1..5
  BY DEF Stages
<1>2. /\ Stages[1] = "rca" /\ Stages[2] = "outer" /\ Stages[3] = "inner"
      /\ Stages[4] = "supervisor" /\ Stages[5] = "program"
  BY DEF Stages
<1>3. Procs = {"rca", "outer", "inner", "supervisor", "program"}
  BY <1>1, <1>2 DEF Procs
<1>4. Index("rca") = 1 /\ Index("outer") = 2 /\ Index("inner") = 3 /\ Index("supervisor") = 4
  BY <1>1, <1>2 DEF Index
<1> QED
  BY <1>2, <1>3, <1>4 DEF Child

\* A stage that ends with an exit code of the program reports its child's code.
LEMMA CodePassedUp ==
  ASSUME NEW how \in Statuses
  PROVE  /\ Exited(ExitCode(how)) \in Statuses
         /\ Exited(ProgramStatus(how)) \in Statuses
         /\ \A c \in Codes : Exited(ExitCode(how)) = Exited(c) => how = Exited(c)
         /\ \A c \in Codes : Exited(ProgramStatus(how)) = Exited(c) => how \in {Exited(c), Unarmed}
<1>1. how = [killed |-> how.killed, n |-> how.n] /\ how.killed \in BOOLEAN /\ how.n \in Nat
  BY DEF Statuses
<1>2. \A a, b : Exited(a) = Exited(b) => a = b
  BY DEF Exited
<1>3. \A c \in Codes : c \in Nat /\ c # 143 /\ c # 255
  BY CodesAssumption
<1>4. \A n \in Nat : Exited(n) \in Statuses
  BY DEF Exited, Statuses
<1>5. ExitCode(how) \in Nat /\ ProgramStatus(how) \in Nat
  BY <1>1 DEF ExitCode, ProgramStatus
<1>6. \A c \in Codes : ExitCode(how) = c => how = Exited(c)
  BY <1>1, <1>3 DEF ExitCode, Exited
<1>7. \A c \in Codes : ProgramStatus(how) = c => how \in {Exited(c), Unarmed}
  BY <1>1, <1>3 DEF ProgramStatus, Exited
<1> QED
  BY <1>2, <1>4, <1>5, <1>6, <1>7

----------------------------------------------------------------------------
(* Types.                                                                  *)

\* The types of the processes and of how they ended.
ProcTypes ==
  /\ st \in [Sessions -> [Procs -> UNION {StatesOf(p) : p \in Procs}]]
  /\ \A s \in Sessions, p \in Procs : st[s][p] \in StatesOf(p)
  /\ status \in [Sessions -> [Procs -> Statuses \cup {None}]]

\* The types of the rest.
CacheTypes ==
  /\ dest \in Copies /\ tmp \in [Sessions -> Copies]
  /\ bin \in [Sessions -> Copies \cup {None}]
SigTypes == q \in [Sessions -> [Procs -> Nat]] /\ sent \in 0..MaxSignals
DirTypes ==
  /\ host \subseteq Dirs /\ before \subseteq Dirs
  /\ todo \in [Sessions -> Seq(Dirs)] /\ step \in [Sessions -> {"stat", "mkdir", "mount"}]
  /\ mounted \in [Sessions -> SUBSET Dirs] /\ created \in [Sessions -> SUBSET Dirs]

\* TypeOK in four parts.
LEMMA TypeParts == TypeOK <=> ProcTypes /\ CacheTypes /\ SigTypes /\ DirTypes
BY DEF TypeOK, ProcTypes, CacheTypes, SigTypes, DirTypes

\* What a process does to itself and to the process it starts keeps the types, and
\* leaves every other process alone.
LEMMA GoEffect ==
  ASSUME ProcTypes, NEW s \in Sessions, NEW p \in Procs, NEW x \in StatesOf(p), Go(s, p, x)
  PROVE  /\ ProcTypes'
         /\ st'[s][p] = x /\ status' = status
         /\ \A t \in Sessions, r \in Procs : t # s \/ r # p => st'[t][r] = st[t][r]
BY DEF ProcTypes, Go

\* The same of a process that starts another.
LEMMA StartEffect ==
  ASSUME ProcTypes, NEW s \in Sessions, NEW p \in Procs, NEW x \in StatesOf(p),
         NEW c \in Procs, NEW y \in StatesOf(c), c # p, Start(s, p, x, c, y)
  PROVE  /\ ProcTypes'
         /\ st'[s][p] = x /\ st'[s][c] = y /\ status' = status
         /\ \A t \in Sessions, r \in Procs : t # s \/ r \notin {p, c} => st'[t][r] = st[t][r]
BY DEF ProcTypes, Start

\* The states of each process; every one may be over.
LEMMA StateNames ==
  /\ StatesOf("rca") = {"extract", "create", "write", "ready", "up", "gone"}
  /\ StatesOf("outer") = {"none", "boot", "child", "up", "gone"}
  /\ StatesOf("inner") = {"none", "boot", "child", "up", "failing", "failed", "leaving", "gone"}
  /\ StatesOf("supervisor") = {"none", "up", "gone"}
  /\ StatesOf("program") = {"none", "fork", "up", "heirs", "gone"}
  /\ \A p \in Procs : "gone" \in StatesOf(p)
BY ChainOfProcs DEF StatesOf

\* What the stages and the program report.
LEMMA StatusNames ==
  Killed \in Statuses /\ Unarmed \in Statuses /\ \A n \in Nat : Exited(n) \in Statuses
BY DEF Killed, Unarmed, Exited, Statuses

\* The same of a process that ends.
LEMMA EndEffect ==
  ASSUME ProcTypes, NEW s \in Sessions, NEW p \in Procs, NEW how \in Statuses, End(s, p, how)
  PROVE  /\ ProcTypes'
         /\ st'[s][p] = "gone" /\ status'[s][p] = how
         /\ \A t \in Sessions, r \in Procs :
              t # s \/ r # p => st'[t][r] = st[t][r] /\ status'[t][r] = status[t][r]
BY StateNames DEF ProcTypes, End

\* A signal ends processes, and nothing else: those that are alive and do not catch it,
\* of one session, and they are killed if they had not ended before.
LEMMA HitEffect ==
  ASSUME ProcTypes, NEW s \in Sessions, NEW hit \in SUBSET Procs, Hit(s, hit)
  PROVE  /\ ProcTypes'
         /\ \A t \in Sessions, p \in Procs :
              \/ st'[t][p] = st[t][p] /\ status'[t][p] = status[t][p]
              \/ /\ t = s /\ Alive(t, p) /\ ~Catches(t, p) /\ st'[t][p] = "gone"
                 /\ status'[t][p] = IF status[t][p] = None THEN Killed ELSE status[t][p]
<1>1. Killed \in Statuses
  BY DEF Killed, Statuses
<1>2. ProcTypes'
  BY <1>1, StateNames DEF ProcTypes, Hit
<1>3. PICK d \in SUBSET Procs :
        /\ \A p \in d : Alive(s, p) /\ (p # "program" => ~Catches(s, p))
        /\ st' = [st EXCEPT ![s] = [p \in Procs |-> IF p \in d THEN "gone" ELSE @[p]]]
        /\ status' = [status EXCEPT ![s] =
             [p \in Procs |-> IF p \in d /\ @[p] = None THEN Killed ELSE @[p]]]
  BY DEF Hit
<1>4. ~Catches(s, "program")
  BY DEF Catches
<1> QED
  BY <1>2, <1>3, <1>4 DEF ProcTypes

----------------------------------------------------------------------------
(* The inductive invariant.                                                *)

\* A session with a supervisor to start found or made a whole one.
Extracted ==
  \A s \in Sessions : st[s]["rca"] \in {"ready", "up"} \/ st[s]["outer"] # "none" => dest = "whole"

\* The stages start one after the other, and inner leaves after the supervisor.
Chained ==
  \A s \in Sessions :
    /\ st[s]["rca"] \in {"extract", "create", "write", "ready"} => st[s]["outer"] = "none"
    /\ st[s]["outer"] \in {"none", "boot"} => st[s]["inner"] = "none"
    /\ st[s]["inner"] \in {"none", "boot", "failing", "failed"} => st[s]["supervisor"] = "none"
    /\ st[s]["inner"] = "leaving" => st[s]["supervisor"] = "gone"
    /\ st[s]["supervisor"] = "none" => st[s]["program"] = "none"

\* Who ended, and nobody else, has a status.
Reported ==
  \A s \in Sessions, p \in Procs :
    IF st[s][p] \in {"heirs", "gone"} THEN status[s][p] \in Statuses ELSE status[s][p] = None

\* An exit code of the program comes from the stage below.
PassedUp ==
  \A s \in Sessions, c \in Codes :
    /\ \A p \in {"rca", "outer", "inner"} :
         status[s][p] = Exited(c) => status[s][Child(p)] = Exited(c)
    /\ status[s]["supervisor"] = Exited(c) => status[s]["program"] \in {Exited(c), Unarmed}

\* A stage that was not killed outlives the stage below.
Reaped ==
  \A s \in Sessions, p \in {"rca", "outer", "inner"} :
    st[s][p] = "gone" /\ status[s][p] # Killed => ~Alive(s, Child(p))

\* A directory of the first hour is there, is nobody's own, and is to be mounted or
\* mounted by each session that routes it.
View(s) ==
  /\ created[s] \cap before = {}
  /\ step[s] = "mkdir" /\ todo[s] # <<>> => Dir(s) \notin before
  /\ \A d \in before :
       (\E i \in DOMAIN Routed[s] : Routed[s][i] = d)
       => /\ st[s]["inner"] \in {"none", "boot"} =>
               d \in mounted[s] \/ \E j \in DOMAIN todo[s] : todo[s][j] = d
          /\ st[s]["inner"] \in {"child", "up"} => d \in mounted[s]
Viewed == before \subseteq host /\ \A s \in Sessions : View(s)

IInv == TypeOK /\ NeverTorn /\ Extracted /\ Chained /\ Reported /\ PassedUp /\ Reaped /\ Viewed

\* A directory the host did not have before is owed by a session that made it: it has
\* yet to remove it, was killed first, or could not unmount it.
Owes(s, d) ==
  d \in created[s]
  /\ (Alive(s, "inner") \/ status[s]["inner"] = Killed \/ d \in mounted[s])
Owed == \A d \in host \ before : \E s \in Sessions : Owes(s, d)

----------------------------------------------------------------------------
(* Every step of a session keeps the invariant.                            *)

\* Whatever a process may report when it ends is a status.
LEMMA Reports ==
  ASSUME IInv, NEW s \in Sessions
  PROVE  /\ \A p \in {"rca", "outer", "inner"} :
              /\ Child(p) \in Procs
              /\ Over(s, Child(p)) => Exited(ExitCode(status[s][Child(p)])) \in Statuses
         /\ st[s]["inner"] = "leaving" => Exited(ExitCode(status[s]["supervisor"])) \in Statuses
         /\ st[s]["program"] \in {"heirs", "gone"} =>
              Exited(ProgramStatus(status[s]["program"])) \in Statuses
         /\ Exited(1) \in Statuses /\ \A c \in Codes : Exited(c) \in Statuses
<1>1. \A p \in Procs : st[s][p] \in {"heirs", "gone"} =>
        /\ Exited(ExitCode(status[s][p])) \in Statuses
        /\ Exited(ProgramStatus(status[s][p])) \in Statuses
  BY CodePassedUp DEF IInv, Reported
<1>2. st[s]["inner"] = "leaving" => st[s]["supervisor"] = "gone"
  BY DEF IInv, Chained
<1>3. \A p \in {"rca", "outer", "inner"} : Child(p) \in Procs
  BY ChainOfProcs
<1>4. \A c \in Codes : c \in Nat
  BY CodesAssumption
<1> QED
  BY <1>1, <1>2, <1>3, <1>4, ChainOfProcs, StatusNames DEF Over

\* The three stages that start another.
Becomes(s, p, x, c, y) ==
  /\ st'[s][p] = x /\ st'[s][c] = y /\ status' = status
  /\ \A t \in Sessions, r \in Procs : t # s \/ r \notin {p, c} => st'[t][r] = st[t][r]

\* Each changes its own state and its child's.
LEMMA StagesStart ==
  ASSUME ProcTypes, NEW s \in Sessions
  PROVE  /\ Start(s, "rca", "up", "outer", "boot") => Becomes(s, "rca", "up", "outer", "boot")
         /\ Start(s, "outer", "child", "inner", "boot") =>
              Becomes(s, "outer", "child", "inner", "boot")
         /\ Start(s, "inner", "child", "supervisor", "up") =>
              Becomes(s, "inner", "child", "supervisor", "up")
<1>1. /\ {"rca", "outer", "inner", "supervisor"} \subseteq Procs
      /\ "up" \in StatesOf("rca") /\ "boot" \in StatesOf("outer")
      /\ "child" \in StatesOf("outer") /\ "boot" \in StatesOf("inner")
      /\ "child" \in StatesOf("inner") /\ "up" \in StatesOf("supervisor")
  BY ChainOfProcs, StateNames
<1>2. ASSUME Start(s, "rca", "up", "outer", "boot")
      PROVE  Becomes(s, "rca", "up", "outer", "boot")
  BY <1>1, <1>2, StartEffect DEF Becomes
<1>3. ASSUME Start(s, "outer", "child", "inner", "boot")
      PROVE  Becomes(s, "outer", "child", "inner", "boot")
  BY <1>1, <1>3, StartEffect DEF Becomes
<1>4. ASSUME Start(s, "inner", "child", "supervisor", "up")
      PROVE  Becomes(s, "inner", "child", "supervisor", "up")
  BY <1>1, <1>4, StartEffect DEF Becomes
<1> QED
  BY <1>2, <1>3, <1>4

\* The end of the program concerns no other process.
LEMMA ProgramEffect ==
  ASSUME ProcTypes, NEW s \in Sessions, ProgramExits(s)
  PROVE  /\ ProcTypes'
         /\ st[s]["program"] \in {"up", "fork"} /\ st'[s]["program"] \in {"heirs", "gone"}
         /\ status'[s]["program"] \in Statuses
         /\ \A t \in Sessions, r \in Procs :
              t # s \/ r # "program" => st'[t][r] = st[t][r] /\ status'[t][r] = status[t][r]
<1>1. "program" \in Procs /\ StatesOf("program") = {"none", "fork", "up", "heirs", "gone"}
  BY ChainOfProcs, StateNames
<1>2. CASE /\ st[s]["program"] = "up"
           /\ \E c \in Codes, next \in {"heirs", "gone"} :
                /\ st' = [st EXCEPT ![s]["program"] = next]
                /\ status' = [status EXCEPT ![s]["program"] = Exited(c)]
  <2>1. PICK c \in Codes, next \in {"heirs", "gone"} :
          /\ st' = [st EXCEPT ![s]["program"] = next]
          /\ status' = [status EXCEPT ![s]["program"] = Exited(c)]
    BY <1>2
  <2>2. Exited(c) \in Statuses
    BY CodesAssumption, StatusNames
  <2> QED
    BY <1>1, <1>2, <2>1, <2>2 DEF ProcTypes
<1>3. CASE st[s]["program"] = "fork" /\ End(s, "program", Unarmed)
  BY <1>1, <1>3, EndEffect, StatusNames
<1> QED
  BY <1>2, <1>3 DEF ProgramExits

\* A whole supervisor stays whole, and none is started without it.
LEMMA ExtractedStep ==
  ASSUME IInv, NEW s \in Sessions, SessionStep(s)
  PROVE  NeverTorn' /\ Extracted'
<1>t. ProcTypes /\ CacheTypes /\ Extracted /\ Chained /\ NeverTorn
  BY TypeParts DEF IInv
<1> USE <1>t, ChainOfProcs, StateNames, StatusNames DEF CacheTypes, Extracted, Chained, NeverTorn
<1>1. CASE Stat(s)
  BY <1>1, GoEffect DEF Stat, cacheVars
<1>2. CASE Create(s)
  BY <1>2, GoEffect, EndEffect DEF Create, CreateTemp, cacheVars
<1>3. CASE Write(s)
  BY <1>3, EndEffect DEF Write, procVars, cacheVars
<1>4. CASE Rename(s)
  BY <1>4, GoEffect, EndEffect DEF Rename, cacheVars
<1>5. CASE NotifyRun(s)
  BY <1>5, GoEffect DEF NotifyRun, cacheVars
<1>6. CASE StartOuter(s)
  BY <1>6, StartEffect, EndEffect DEF StartOuter, cacheVars
<1>7. ASSUME NEW p \in {"rca", "outer"}, Wait(s, p) PROVE NeverTorn' /\ Extracted'
  BY <1>7, EndEffect DEF Wait, Reap, Over, cacheVars
<1>8. CASE StartInner(s)
  BY <1>8, StartEffect, EndEffect DEF StartInner, cacheVars
<1>9. ASSUME NEW p \in {"outer", "inner"}, ForwardSignals(s, p) PROVE NeverTorn' /\ Extracted'
  BY <1>9, GoEffect DEF ForwardSignals, cacheVars
<1>10. CASE StatDir(s)
  BY <1>10 DEF StatDir, Mounting, Step, procVars, cacheVars
<1>11. CASE MkdirAll(s)
  BY <1>11, GoEffect DEF MkdirAll, Mounting, Step, GiveUp, procVars, cacheVars
<1>12. CASE MountRouted(s)
  BY <1>12, GoEffect DEF MountRouted, Mounting, Step, GiveUp, procVars, cacheVars
<1>13. CASE StartSupervisor(s)
  BY <1>13, StartEffect, GoEffect DEF StartSupervisor, GiveUp, cacheVars
<1>14. CASE UnmountAll(s)
  BY <1>14, GoEffect DEF UnmountAll, Over, cacheVars
<1>15. CASE RemoveCreated(s)
  BY <1>15, EndEffect DEF RemoveCreated, cacheVars
<1>16. CASE StartProgram(s)
  BY <1>16, GoEffect DEF StartProgram, cacheVars
<1>17. CASE Arm(s)
  BY <1>17, GoEffect DEF Arm, cacheVars
<1>18. CASE ProgramExits(s)
  <2>1. UNCHANGED cacheVars
    BY <1>18 DEF ProgramExits
  <2> QED
    BY <1>18, <2>1, ProgramEffect DEF cacheVars
<1>19. CASE ProgramKilled(s)
  BY <1>19, GoEffect, EndEffect DEF ProgramKilled, Over, cacheVars
<1>20. CASE SupervisorExits(s)
  BY <1>20, EndEffect DEF SupervisorExits, Alive, cacheVars
<1>21. CASE Signal(s)
  <2>1. PICK hit \in SUBSET Procs : Hit(s, hit)
    BY <1>21 DEF Signal
  <2> QED
    BY <1>21, <2>1, HitEffect DEF Signal, cacheVars, Alive
<1>22. ASSUME NEW p \in {"rca", "outer", "inner"}, Forward(s, p) PROVE NeverTorn' /\ Extracted'
  BY <1>22, HitEffect DEF Forward, Forwarded, Alive, cacheVars
<1> QED
  BY SessionStep(s), <1>1, <1>2, <1>3, <1>4, <1>5, <1>6, <1>7, <1>8, <1>9, <1>10,
     <1>11, <1>12, <1>13, <1>14, <1>15, <1>16, <1>17, <1>18, <1>19, <1>20, <1>21,
     <1>22
     DEF SessionStep, ExtractStep, RcaStep, OuterStep, InnerStep, SupervisorStep

\* The types of the processes are kept.
LEMMA ProcTypesStep ==
  ASSUME IInv, NEW s \in Sessions, SessionStep(s)
  PROVE  ProcTypes'
<1>t. ProcTypes
  BY TypeParts DEF IInv
<1>u. UNCHANGED procVars => ProcTypes'
  BY <1>t DEF procVars, ProcTypes
<1> USE <1>t, <1>u, Reports, ChainOfProcs, StateNames, StatusNames
<1>1. CASE Stat(s)
  BY <1>1, GoEffect DEF Stat
<1>2. CASE Create(s)
  BY <1>2, GoEffect, EndEffect DEF Create, CreateTemp
<1>3. CASE Write(s)
  BY <1>3, EndEffect DEF Write, procVars
<1>4. CASE Rename(s)
  BY <1>4, GoEffect, EndEffect DEF Rename
<1>5. CASE NotifyRun(s)
  BY <1>5, GoEffect DEF NotifyRun
<1>6. CASE StartOuter(s)
  BY <1>6, StartEffect, EndEffect DEF StartOuter
<1>7. ASSUME NEW p \in {"rca", "outer"}, Wait(s, p) PROVE ProcTypes'
  BY <1>7, EndEffect DEF Wait, Reap, Over
<1>8. CASE StartInner(s)
  BY <1>8, StartEffect, EndEffect DEF StartInner
<1>9. ASSUME NEW p \in {"outer", "inner"}, ForwardSignals(s, p) PROVE ProcTypes'
  BY <1>9, GoEffect DEF ForwardSignals
<1>10. CASE StatDir(s)
  BY <1>10 DEF StatDir, Mounting, Step, procVars
<1>11. CASE MkdirAll(s)
  BY <1>11, GoEffect DEF MkdirAll, Mounting, Step, GiveUp, procVars
<1>12. CASE MountRouted(s)
  BY <1>12, GoEffect DEF MountRouted, Mounting, Step, GiveUp, procVars
<1>13. CASE StartSupervisor(s)
  BY <1>13, StartEffect, GoEffect DEF StartSupervisor, GiveUp
<1>14. CASE UnmountAll(s)
  BY <1>14, GoEffect DEF UnmountAll, Over
<1>15. CASE RemoveCreated(s)
  BY <1>15, EndEffect DEF RemoveCreated
<1>16. CASE StartProgram(s)
  BY <1>16, GoEffect DEF StartProgram
<1>17. CASE Arm(s)
  BY <1>17, GoEffect DEF Arm
<1>18. CASE ProgramExits(s)
  BY <1>18, ProgramEffect
<1>19. CASE ProgramKilled(s)
  BY <1>19, GoEffect, EndEffect DEF ProgramKilled, Over
<1>20. CASE SupervisorExits(s)
  BY <1>20, EndEffect DEF SupervisorExits, Alive
<1>21. CASE Signal(s)
  <2>1. PICK hit \in SUBSET Procs : Hit(s, hit)
    BY <1>21 DEF Signal
  <2> QED
    BY <2>1, HitEffect DEF Alive
<1>22. ASSUME NEW p \in {"rca", "outer", "inner"}, Forward(s, p) PROVE ProcTypes'
  BY <1>22, HitEffect DEF Forward, Forwarded, Alive
<1> QED
  BY SessionStep(s), <1>1, <1>2, <1>3, <1>4, <1>5, <1>6, <1>7, <1>8, <1>9, <1>10,
     <1>11, <1>12, <1>13, <1>14, <1>15, <1>16, <1>17, <1>18, <1>19, <1>20, <1>21,
     <1>22
     DEF SessionStep, ExtractStep, RcaStep, OuterStep, InnerStep, SupervisorStep

\* The order in which the stages start and leave is kept.
LEMMA ChainedStep ==
  ASSUME IInv, NEW s \in Sessions, SessionStep(s)
  PROVE  Chained'
<1>t. ProcTypes /\ Chained
  BY TypeParts DEF IInv
<1> USE <1>t, Reports, ChainOfProcs, StateNames, StatusNames DEF Chained
<1>1. CASE Stat(s)
  BY <1>1, GoEffect DEF Stat
<1>2. CASE Create(s)
  BY <1>2, GoEffect, EndEffect DEF Create, CreateTemp
<1>3. CASE Write(s)
  BY <1>3, EndEffect DEF Write, procVars
<1>4. CASE Rename(s)
  BY <1>4, GoEffect, EndEffect DEF Rename
<1>5. CASE NotifyRun(s)
  BY <1>5, GoEffect DEF NotifyRun
<1>6. CASE StartOuter(s)
  <2>1. CASE Start(s, "rca", "up", "outer", "boot")
    <3>1. Becomes(s, "rca", "up", "outer", "boot")
      BY <2>1, StagesStart
    <3>2. st[s]["rca"] = "up" /\ st[s]["outer"] = "none"
      BY <1>6 DEF StartOuter
    <3> QED
      BY <3>1, <3>2 DEF Becomes
  <2>2. CASE End(s, "rca", Exited(1))
    BY <1>6, <2>2, EndEffect DEF StartOuter
  <2> QED
    BY <1>6, <2>1, <2>2 DEF StartOuter
<1>7. ASSUME NEW p \in {"rca", "outer"}, Wait(s, p) PROVE Chained'
  BY <1>7, EndEffect DEF Wait, Reap, Over
<1>8. CASE StartInner(s)
  <2>1. CASE Start(s, "outer", "child", "inner", "boot")
    <3>1. Becomes(s, "outer", "child", "inner", "boot")
      BY <2>1, StagesStart
    <3>2. st[s]["outer"] = "boot"
      BY <1>8 DEF StartInner
    <3> QED
      BY <3>1, <3>2 DEF Becomes
  <2>2. CASE End(s, "outer", Exited(1))
    BY <1>8, <2>2, EndEffect DEF StartInner
  <2> QED
    BY <1>8, <2>1, <2>2 DEF StartInner
<1>9. ASSUME NEW p \in {"outer", "inner"}, ForwardSignals(s, p) PROVE Chained'
  BY <1>9, GoEffect DEF ForwardSignals
<1>10. CASE StatDir(s)
  BY <1>10 DEF StatDir, Mounting, Step, procVars
<1>11. CASE MkdirAll(s)
  BY <1>11, GoEffect DEF MkdirAll, Mounting, Step, GiveUp, procVars
<1>12. CASE MountRouted(s)
  BY <1>12, GoEffect DEF MountRouted, Mounting, Step, GiveUp, procVars
<1>13. CASE StartSupervisor(s)
  <2>1. CASE Start(s, "inner", "child", "supervisor", "up")
    <3>1. Becomes(s, "inner", "child", "supervisor", "up")
      BY <2>1, StagesStart
    <3>2. st[s]["inner"] = "boot"
      BY <1>13 DEF StartSupervisor
    <3> QED
      BY <3>1, <3>2 DEF Becomes
  <2>2. CASE Go(s, "inner", "failing")
    BY <1>13, <2>2, GoEffect DEF StartSupervisor
  <2> QED
    BY <1>13, <2>1, <2>2 DEF StartSupervisor, GiveUp
<1>14. CASE UnmountAll(s)
  BY <1>14, GoEffect DEF UnmountAll, Over
<1>15. CASE RemoveCreated(s)
  BY <1>15, EndEffect DEF RemoveCreated
<1>16. CASE StartProgram(s)
  BY <1>16, GoEffect DEF StartProgram
<1>17. CASE Arm(s)
  BY <1>17, GoEffect DEF Arm
<1>18. CASE ProgramExits(s)
  BY <1>18, ProgramEffect
<1>19. CASE ProgramKilled(s)
  BY <1>19, GoEffect, EndEffect DEF ProgramKilled, Over
<1>20. CASE SupervisorExits(s)
  BY <1>20, EndEffect DEF SupervisorExits, Alive
<1>21. CASE Signal(s)
  <2>1. PICK hit \in SUBSET Procs : Hit(s, hit)
    BY <1>21 DEF Signal
  <2> QED
    BY <2>1, HitEffect DEF Alive
<1>22. ASSUME NEW p \in {"rca", "outer", "inner"}, Forward(s, p) PROVE Chained'
  BY <1>22, HitEffect DEF Forward, Forwarded, Alive
<1> QED
  BY SessionStep(s), <1>1, <1>2, <1>3, <1>4, <1>5, <1>6, <1>7, <1>8, <1>9, <1>10,
     <1>11, <1>12, <1>13, <1>14, <1>15, <1>16, <1>17, <1>18, <1>19, <1>20, <1>21,
     <1>22
     DEF SessionStep, ExtractStep, RcaStep, OuterStep, InnerStep, SupervisorStep

\* Who ends has a status, and keeps it.
LEMMA ReportedStep ==
  ASSUME IInv, NEW s \in Sessions, SessionStep(s)
  PROVE  Reported'
<1>t. ProcTypes /\ Reported /\ Chained
  BY TypeParts DEF IInv
<1> USE <1>t, Reports, ChainOfProcs, StateNames, StatusNames DEF Reported, Chained
<1>1. CASE Stat(s)
  BY <1>1, GoEffect DEF Stat
<1>2. CASE Create(s)
  BY <1>2, GoEffect, EndEffect DEF Create, CreateTemp
<1>3. CASE Write(s)
  BY <1>3, EndEffect DEF Write, procVars
<1>4. CASE Rename(s)
  BY <1>4, GoEffect, EndEffect DEF Rename
<1>5. CASE NotifyRun(s)
  BY <1>5, GoEffect DEF NotifyRun
<1>6. CASE StartOuter(s)
  <2>1. CASE Start(s, "rca", "up", "outer", "boot")
    <3>1. Becomes(s, "rca", "up", "outer", "boot")
      BY <2>1, StagesStart
    <3>2. st[s]["rca"] = "up" /\ st[s]["outer"] = "none"
      BY <1>6 DEF StartOuter
    <3> QED
      BY <3>1, <3>2 DEF Becomes
  <2>2. CASE End(s, "rca", Exited(1))
    BY <1>6, <2>2, EndEffect DEF StartOuter
  <2> QED
    BY <1>6, <2>1, <2>2 DEF StartOuter
<1>7. ASSUME NEW p \in {"rca", "outer"}, Wait(s, p) PROVE Reported'
  BY <1>7, EndEffect DEF Wait, Reap, Over
<1>8. CASE StartInner(s)
  <2>1. CASE Start(s, "outer", "child", "inner", "boot")
    <3>1. Becomes(s, "outer", "child", "inner", "boot")
      BY <2>1, StagesStart
    <3>2. st[s]["outer"] = "boot"
      BY <1>8 DEF StartInner
    <3> QED
      BY <3>1, <3>2 DEF Becomes
  <2>2. CASE End(s, "outer", Exited(1))
    BY <1>8, <2>2, EndEffect DEF StartInner
  <2> QED
    BY <1>8, <2>1, <2>2 DEF StartInner
<1>9. ASSUME NEW p \in {"outer", "inner"}, ForwardSignals(s, p) PROVE Reported'
  BY <1>9, GoEffect DEF ForwardSignals
<1>10. CASE StatDir(s)
  BY <1>10 DEF StatDir, Mounting, Step, procVars
<1>11. CASE MkdirAll(s)
  BY <1>11, GoEffect DEF MkdirAll, Mounting, Step, GiveUp, procVars
<1>12. CASE MountRouted(s)
  BY <1>12, GoEffect DEF MountRouted, Mounting, Step, GiveUp, procVars
<1>13. CASE StartSupervisor(s)
  <2>1. CASE Start(s, "inner", "child", "supervisor", "up")
    <3>1. Becomes(s, "inner", "child", "supervisor", "up")
      BY <2>1, StagesStart
    <3>2. st[s]["inner"] = "boot"
      BY <1>13 DEF StartSupervisor
    <3> QED
      BY <3>1, <3>2 DEF Becomes
  <2>2. CASE Go(s, "inner", "failing")
    BY <1>13, <2>2, GoEffect DEF StartSupervisor
  <2> QED
    BY <1>13, <2>1, <2>2 DEF StartSupervisor, GiveUp
<1>14. CASE UnmountAll(s)
  BY <1>14, GoEffect DEF UnmountAll, Over
<1>15. CASE RemoveCreated(s)
  BY <1>15, EndEffect DEF RemoveCreated
<1>16. CASE StartProgram(s)
  BY <1>16, GoEffect DEF StartProgram
<1>17. CASE Arm(s)
  BY <1>17, GoEffect DEF Arm
<1>18. CASE ProgramExits(s)
  BY <1>18, ProgramEffect
<1>19. CASE ProgramKilled(s)
  BY <1>19, GoEffect, EndEffect DEF ProgramKilled, Over
<1>20. CASE SupervisorExits(s)
  BY <1>20, EndEffect DEF SupervisorExits, Alive
<1>21. CASE Signal(s)
  <2>1. PICK hit \in SUBSET Procs : Hit(s, hit)
    BY <1>21 DEF Signal
  <2> QED
    BY <2>1, HitEffect DEF Alive
<1>22. ASSUME NEW p \in {"rca", "outer", "inner"}, Forward(s, p) PROVE Reported'
  BY <1>22, HitEffect DEF Forward, Forwarded, Alive
<1> QED
  BY SessionStep(s), <1>1, <1>2, <1>3, <1>4, <1>5, <1>6, <1>7, <1>8, <1>9, <1>10,
     <1>11, <1>12, <1>13, <1>14, <1>15, <1>16, <1>17, <1>18, <1>19, <1>20, <1>21,
     <1>22
     DEF SessionStep, ExtractStep, RcaStep, OuterStep, InnerStep, SupervisorStep

\* Which of the codes reported are codes of the program.
LEMMA Codings ==
  ASSUME IInv, NEW s \in Sessions, NEW c \in Codes
  PROVE  /\ \A p \in {"rca", "outer", "inner"} :
              Over(s, Child(p)) /\ Exited(ExitCode(status[s][Child(p)])) = Exited(c)
                => status[s][Child(p)] = Exited(c)
         /\ st[s]["inner"] = "leaving"
              /\ Exited(ExitCode(status[s]["supervisor"])) = Exited(c)
                => status[s]["supervisor"] = Exited(c)
         /\ st[s]["program"] \in {"heirs", "gone"}
              /\ Exited(ProgramStatus(status[s]["program"])) = Exited(c)
                => status[s]["program"] \in {Exited(c), Unarmed}
         /\ Exited(1) # Exited(c) /\ Killed # Exited(c) /\ None # Exited(c)
<1>1. \A p \in Procs : st[s][p] \in {"heirs", "gone"} => status[s][p] \in Statuses
  BY DEF IInv, Reported
<1>2. st[s]["inner"] = "leaving" => st[s]["supervisor"] = "gone"
  BY DEF IInv, Chained
<1>3. c \in Nat /\ c # 1
  BY CodesAssumption
<1>4. Exited(1) # Exited(c) /\ Killed # Exited(c)
  BY <1>3 DEF Exited, Killed
<1>5. None # Exited(c)
  BY <1>3, StatusNames, NoneAssumption DEF Statuses
<1> QED
  BY <1>1, <1>2, <1>4, <1>5, ChainOfProcs, CodePassedUp DEF Over

\* A status that is set stays set, and so PassedUp does, when processes end that do not
\* report a code of the program, or when the program itself ends.
LEMMA OthersEnd ==
  ASSUME IInv,
         \A t \in Sessions, p \in Procs :
           \/ status'[t][p] = status[t][p]
           \/ /\ status[t][p] = None
              /\ p = "program" \/ \A c \in Codes : status'[t][p] # Exited(c)
  PROVE  PassedUp'
<1> SUFFICES ASSUME NEW t \in Sessions, NEW c \in Codes
             PROVE  /\ \A p \in {"rca", "outer", "inner"} :
                         status'[t][p] = Exited(c) => status'[t][Child(p)] = Exited(c)
                    /\ status'[t]["supervisor"] = Exited(c) =>
                         status'[t]["program"] \in {Exited(c), Unarmed}
  BY DEF PassedUp
<1>1. None # Exited(c) /\ None # Unarmed
  BY Codings, StatusNames, NoneAssumption DEF Statuses
<1>2. /\ \A p \in {"rca", "outer", "inner"} :
           status[t][p] = Exited(c) => status[t][Child(p)] = Exited(c)
      /\ status[t]["supervisor"] = Exited(c) => status[t]["program"] \in {Exited(c), Unarmed}
  BY DEF IInv, PassedUp
<1>3. \A p \in {"rca", "outer", "inner"} : p \in Procs /\ Child(p) \in Procs /\ p # "program"
  BY ChainOfProcs
<1>4. "supervisor" \in Procs /\ "program" \in Procs
  BY ChainOfProcs
<1> QED
  BY <1>1, <1>2, <1>3, <1>4

\* What a signal leaves of a process, and of its status.
LEMMA HitOutcome ==
  ASSUME IInv, NEW s \in Sessions, NEW hit \in SUBSET Procs, Hit(s, hit),
         NEW t \in Sessions, NEW p \in Procs
  PROVE  \/ st'[t][p] = st[t][p] /\ status'[t][p] = status[t][p]
         \/ /\ Alive(t, p) /\ st'[t][p] = "gone" /\ status'[t][p] = status[t][p]
            /\ p = "program"
         \/ Alive(t, p) /\ st'[t][p] = "gone" /\ status[t][p] = None /\ status'[t][p] = Killed
<1>1. p # "program" => st[t][p] # "heirs"
  BY TypeParts, ChainOfProcs, StateNames DEF IInv, ProcTypes
<1>2. Alive(t, p) /\ p # "program" => status[t][p] = None
  BY <1>1 DEF IInv, Reported, Alive
<1> QED
  BY <1>2, HitEffect, TypeParts DEF IInv

\* A code of the program comes from the stage below, and that stage keeps its status.
LEMMA PassedUpStep ==
  ASSUME IInv, NEW s \in Sessions, SessionStep(s)
  PROVE  PassedUp'
<1>t. ProcTypes /\ Reported /\ Chained /\ PassedUp
  BY TypeParts DEF IInv
<1> USE <1>t, Reports, Codings, ChainOfProcs, StateNames, StatusNames
         DEF Reported, Chained, PassedUp
<1>1. CASE Stat(s)
  BY <1>1, GoEffect DEF Stat
<1>2. CASE Create(s)
  BY <1>2, GoEffect, EndEffect DEF Create, CreateTemp
<1>3. CASE Write(s)
  BY <1>3, EndEffect DEF Write, procVars
<1>4. CASE Rename(s)
  BY <1>4, GoEffect, EndEffect DEF Rename
<1>5. CASE NotifyRun(s)
  BY <1>5, GoEffect DEF NotifyRun
<1>6. CASE StartOuter(s)
  <2>1. CASE Start(s, "rca", "up", "outer", "boot")
    <3>1. Becomes(s, "rca", "up", "outer", "boot")
      BY <2>1, StagesStart
    <3>2. st[s]["rca"] = "up" /\ st[s]["outer"] = "none"
      BY <1>6 DEF StartOuter
    <3> QED
      BY <3>1, <3>2 DEF Becomes
  <2>2. CASE End(s, "rca", Exited(1))
    BY <1>6, <2>2, EndEffect DEF StartOuter
  <2> QED
    BY <1>6, <2>1, <2>2 DEF StartOuter
<1>7. ASSUME NEW p \in {"rca", "outer"}, Wait(s, p) PROVE PassedUp'
  BY <1>7, EndEffect DEF Wait, Reap, Over
<1>8. CASE StartInner(s)
  <2>1. CASE Start(s, "outer", "child", "inner", "boot")
    <3>1. Becomes(s, "outer", "child", "inner", "boot")
      BY <2>1, StagesStart
    <3>2. st[s]["outer"] = "boot"
      BY <1>8 DEF StartInner
    <3> QED
      BY <3>1, <3>2 DEF Becomes
  <2>2. CASE End(s, "outer", Exited(1))
    BY <1>8, <2>2, EndEffect DEF StartInner
  <2> QED
    BY <1>8, <2>1, <2>2 DEF StartInner
<1>9. ASSUME NEW p \in {"outer", "inner"}, ForwardSignals(s, p) PROVE PassedUp'
  BY <1>9, GoEffect DEF ForwardSignals
<1>10. CASE StatDir(s)
  BY <1>10 DEF StatDir, Mounting, Step, procVars
<1>11. CASE MkdirAll(s)
  BY <1>11, GoEffect DEF MkdirAll, Mounting, Step, GiveUp, procVars
<1>12. CASE MountRouted(s)
  BY <1>12, GoEffect DEF MountRouted, Mounting, Step, GiveUp, procVars
<1>13. CASE StartSupervisor(s)
  <2>1. CASE Start(s, "inner", "child", "supervisor", "up")
    <3>1. Becomes(s, "inner", "child", "supervisor", "up")
      BY <2>1, StagesStart
    <3>2. st[s]["inner"] = "boot"
      BY <1>13 DEF StartSupervisor
    <3> QED
      BY <3>1, <3>2 DEF Becomes
  <2>2. CASE Go(s, "inner", "failing")
    BY <1>13, <2>2, GoEffect DEF StartSupervisor
  <2> QED
    BY <1>13, <2>1, <2>2 DEF StartSupervisor, GiveUp
<1>14. CASE UnmountAll(s)
  BY <1>14, GoEffect DEF UnmountAll, Over
<1>15. CASE RemoveCreated(s)
  BY <1>15, EndEffect DEF RemoveCreated
<1>16. CASE StartProgram(s)
  BY <1>16, GoEffect DEF StartProgram
<1>17. CASE Arm(s)
  BY <1>17, GoEffect DEF Arm
<1>18. CASE ProgramExits(s)
  <2>1. status[s]["program"] = None
    BY <1>18, ProgramEffect
  <2> QED
    BY <2>1, <1>18, ProgramEffect, OthersEnd
<1>19. CASE ProgramKilled(s)
  <2>1. CASE Go(s, "program", "gone")
    BY <2>1, GoEffect
  <2>2. CASE st[s]["program"] = "up" /\ End(s, "program", Killed)
    <3>1. status[s]["program"] = None
      BY <2>2
    <3> QED
      BY <2>2, <3>1, EndEffect, OthersEnd
  <2> QED
    BY <1>19, <2>1, <2>2 DEF ProgramKilled
<1>20. CASE SupervisorExits(s)
  <2>1. /\ status'[s]["supervisor"] = Exited(ProgramStatus(status[s]["program"]))
        /\ \A t \in Sessions, r \in Procs :
             t # s \/ r # "supervisor" => status'[t][r] = status[t][r]
    BY <1>20, EndEffect DEF SupervisorExits
  <2>2. status[s]["supervisor"] = None /\ st[s]["program"] \in {"heirs", "gone"}
    BY <1>20 DEF SupervisorExits, Alive, ProcTypes
  <2> QED
    BY <2>1, <2>2
<1>21. CASE Signal(s)
  <2>1. PICK hit \in SUBSET Procs : Hit(s, hit)
    BY <1>21 DEF Signal
  <2>2. \A t \in Sessions, r \in Procs :
          \/ status'[t][r] = status[t][r]
          \/ status[t][r] = None /\ status'[t][r] = Killed
    BY <2>1, HitOutcome
  <2> QED
    BY <2>2, OthersEnd
<1>22. ASSUME NEW p \in {"rca", "outer", "inner"}, Forward(s, p) PROVE PassedUp'
  <2>1. Hit(s, {Child(p)}) /\ {Child(p)} \in SUBSET Procs
    BY <1>22, ChainOfProcs DEF Forward, Forwarded
  <2>2. \A t \in Sessions, r \in Procs :
          \/ status'[t][r] = status[t][r]
          \/ status[t][r] = None /\ status'[t][r] = Killed
    BY <2>1, HitOutcome
  <2> QED
    BY <2>2, OthersEnd
<1> QED
  BY SessionStep(s), <1>1, <1>2, <1>3, <1>4, <1>5, <1>6, <1>7, <1>8, <1>9, <1>10,
     <1>11, <1>12, <1>13, <1>14, <1>15, <1>16, <1>17, <1>18, <1>19, <1>20, <1>21,
     <1>22
     DEF SessionStep, ExtractStep, RcaStep, OuterStep, InnerStep, SupervisorStep

\* Nobody who was not killed leaves before the stage below.
LEMMA ReapedStep ==
  ASSUME IInv, NEW s \in Sessions, SessionStep(s)
  PROVE  Reaped'
<1>t. ProcTypes /\ Reported /\ Chained /\ Reaped
  BY TypeParts DEF IInv
<1> USE <1>t, Reports, ChainOfProcs, StateNames, StatusNames
         DEF Reported, Chained, Reaped, Alive
<1>1. CASE Stat(s)
  BY <1>1, GoEffect DEF Stat
<1>2. CASE Create(s)
  BY <1>2, GoEffect, EndEffect DEF Create, CreateTemp
<1>3. CASE Write(s)
  BY <1>3, EndEffect DEF Write, procVars
<1>4. CASE Rename(s)
  BY <1>4, GoEffect, EndEffect DEF Rename
<1>5. CASE NotifyRun(s)
  BY <1>5, GoEffect DEF NotifyRun
<1>6. CASE StartOuter(s)
  <2>1. CASE Start(s, "rca", "up", "outer", "boot")
    <3>1. Becomes(s, "rca", "up", "outer", "boot")
      BY <2>1, StagesStart
    <3>2. st[s]["rca"] = "up" /\ st[s]["outer"] = "none"
      BY <1>6 DEF StartOuter
    <3> QED
      BY <3>1, <3>2 DEF Becomes
  <2>2. CASE End(s, "rca", Exited(1))
    BY <1>6, <2>2, EndEffect DEF StartOuter
  <2> QED
    BY <1>6, <2>1, <2>2 DEF StartOuter
<1>7. ASSUME NEW p \in {"rca", "outer"}, Wait(s, p) PROVE Reaped'
  BY <1>7, EndEffect DEF Wait, Reap, Over
<1>8. CASE StartInner(s)
  <2>1. CASE Start(s, "outer", "child", "inner", "boot")
    <3>1. Becomes(s, "outer", "child", "inner", "boot")
      BY <2>1, StagesStart
    <3>2. st[s]["outer"] = "boot"
      BY <1>8 DEF StartInner
    <3> QED
      BY <3>1, <3>2 DEF Becomes
  <2>2. CASE End(s, "outer", Exited(1))
    BY <1>8, <2>2, EndEffect DEF StartInner
  <2> QED
    BY <1>8, <2>1, <2>2 DEF StartInner
<1>9. ASSUME NEW p \in {"outer", "inner"}, ForwardSignals(s, p) PROVE Reaped'
  BY <1>9, GoEffect DEF ForwardSignals
<1>10. CASE StatDir(s)
  BY <1>10 DEF StatDir, Mounting, Step, procVars
<1>11. CASE MkdirAll(s)
  BY <1>11, GoEffect DEF MkdirAll, Mounting, Step, GiveUp, procVars
<1>12. CASE MountRouted(s)
  BY <1>12, GoEffect DEF MountRouted, Mounting, Step, GiveUp, procVars
<1>13. CASE StartSupervisor(s)
  <2>1. CASE Start(s, "inner", "child", "supervisor", "up")
    <3>1. Becomes(s, "inner", "child", "supervisor", "up")
      BY <2>1, StagesStart
    <3>2. st[s]["inner"] = "boot"
      BY <1>13 DEF StartSupervisor
    <3> QED
      BY <3>1, <3>2 DEF Becomes
  <2>2. CASE Go(s, "inner", "failing")
    BY <1>13, <2>2, GoEffect DEF StartSupervisor
  <2> QED
    BY <1>13, <2>1, <2>2 DEF StartSupervisor, GiveUp
<1>14. CASE UnmountAll(s)
  BY <1>14, GoEffect DEF UnmountAll, Over
<1>15. CASE RemoveCreated(s)
  BY <1>15, EndEffect DEF RemoveCreated
<1>16. CASE StartProgram(s)
  BY <1>16, GoEffect DEF StartProgram
<1>17. CASE Arm(s)
  BY <1>17, GoEffect DEF Arm
<1>18. CASE ProgramExits(s)
  BY <1>18, ProgramEffect
<1>19. CASE ProgramKilled(s)
  BY <1>19, GoEffect, EndEffect DEF ProgramKilled, Over
<1>20. CASE SupervisorExits(s)
  BY <1>20, EndEffect DEF SupervisorExits, Alive
<1>21. CASE Signal(s)
  <2>1. PICK hit \in SUBSET Procs : Hit(s, hit)
    BY <1>21 DEF Signal
  <2>2. \A t \in Sessions, r \in Procs :
          /\ Alive(t, r)' => Alive(t, r)
          /\ st'[t][r] = "gone" /\ r # "program" =>
               \/ st[t][r] = "gone" /\ status'[t][r] = status[t][r]
               \/ status'[t][r] = Killed
    BY <2>1, HitOutcome DEF Alive
  <2>3. \A r \in {"rca", "outer", "inner"} : r \in Procs /\ r # "program" /\ Child(r) \in Procs
    BY ChainOfProcs
  <2>4. \A t \in Sessions, r \in {"rca", "outer", "inner"} :
          st[t][r] = "gone" /\ status[t][r] # Killed => ~Alive(t, Child(r))
    BY <1>t DEF Reaped
  <2> QED
    BY <2>2, <2>3, <2>4 DEF Reaped
<1>22. ASSUME NEW p \in {"rca", "outer", "inner"}, Forward(s, p) PROVE Reaped'
  <2>1. Hit(s, {Child(p)}) /\ {Child(p)} \in SUBSET Procs
    BY <1>22, ChainOfProcs DEF Forward, Forwarded
  <2>2. \A t \in Sessions, r \in Procs :
          /\ Alive(t, r)' => Alive(t, r)
          /\ st'[t][r] = "gone" /\ r # "program" =>
               \/ st[t][r] = "gone" /\ status'[t][r] = status[t][r]
               \/ status'[t][r] = Killed
    BY <2>1, HitOutcome DEF Alive
  <2>3. \A r \in {"rca", "outer", "inner"} : r \in Procs /\ r # "program" /\ Child(r) \in Procs
    BY ChainOfProcs
  <2>4. \A t \in Sessions, r \in {"rca", "outer", "inner"} :
          st[t][r] = "gone" /\ status[t][r] # Killed => ~Alive(t, Child(r))
    BY <1>t DEF Reaped
  <2> QED
    BY <2>2, <2>3, <2>4 DEF Reaped
<1> QED
  BY SessionStep(s), <1>1, <1>2, <1>3, <1>4, <1>5, <1>6, <1>7, <1>8, <1>9, <1>10,
     <1>11, <1>12, <1>13, <1>14, <1>15, <1>16, <1>17, <1>18, <1>19, <1>20, <1>21,
     <1>22
     DEF SessionStep, ExtractStep, RcaStep, OuterStep, InnerStep, SupervisorStep

\* The types of the cache are kept.
LEMMA CacheTypesStep ==
  ASSUME IInv, NEW s \in Sessions, SessionStep(s)
  PROVE  CacheTypes'
<1>t. CacheTypes
  BY TypeParts DEF IInv
<1>u. UNCHANGED cacheVars => CacheTypes'
  BY <1>t DEF cacheVars, CacheTypes
<1> USE <1>t, <1>u DEF CacheTypes, Copies
<1>1. CASE Stat(s)
  BY <1>1 DEF Stat
<1>2. CASE Create(s)
  BY <1>2 DEF Create, CreateTemp
<1>3. CASE Write(s)
  BY <1>3 DEF Write, procVars
<1>4. CASE Rename(s)
  BY <1>4 DEF Rename
<1>5. CASE NotifyRun(s)
  BY <1>5 DEF NotifyRun
<1>6. CASE StartOuter(s)
  BY <1>6 DEF StartOuter
<1>7. ASSUME NEW p \in {"rca", "outer"}, Wait(s, p) PROVE CacheTypes'
  BY <1>7 DEF Wait, Reap, Over
<1>8. CASE StartInner(s)
  BY <1>8 DEF StartInner
<1>9. ASSUME NEW p \in {"outer", "inner"}, ForwardSignals(s, p) PROVE CacheTypes'
  BY <1>9 DEF ForwardSignals
<1>10. CASE StatDir(s)
  BY <1>10 DEF StatDir, Mounting, Step, procVars
<1>11. CASE MkdirAll(s)
  BY <1>11 DEF MkdirAll, Mounting, Step, GiveUp, procVars
<1>12. CASE MountRouted(s)
  BY <1>12 DEF MountRouted, Mounting, Step, GiveUp, procVars
<1>13. CASE StartSupervisor(s)
  BY <1>13 DEF StartSupervisor, GiveUp
<1>14. CASE UnmountAll(s)
  BY <1>14 DEF UnmountAll, Over
<1>15. CASE RemoveCreated(s)
  BY <1>15 DEF RemoveCreated
<1>16. CASE StartProgram(s)
  BY <1>16 DEF StartProgram
<1>17. CASE Arm(s)
  BY <1>17 DEF Arm
<1>18. CASE ProgramExits(s)
  BY <1>18 DEF ProgramExits
<1>19. CASE ProgramKilled(s)
  BY <1>19 DEF ProgramKilled, Over
<1>20. CASE SupervisorExits(s)
  BY <1>20 DEF SupervisorExits, Alive
<1>21. CASE Signal(s)
  BY <1>21 DEF Signal
<1>22. ASSUME NEW p \in {"rca", "outer", "inner"}, Forward(s, p) PROVE CacheTypes'
  BY <1>22 DEF Forward, Forwarded, Alive
<1> QED
  BY SessionStep(s), <1>1, <1>2, <1>3, <1>4, <1>5, <1>6, <1>7, <1>8, <1>9, <1>10,
     <1>11, <1>12, <1>13, <1>14, <1>15, <1>16, <1>17, <1>18, <1>19, <1>20, <1>21,
     <1>22
     DEF SessionStep, ExtractStep, RcaStep, OuterStep, InnerStep, SupervisorStep

\* The types of the signals are kept.
LEMMA SigTypesStep ==
  ASSUME IInv, NEW s \in Sessions, SessionStep(s)
  PROVE  SigTypes'
<1>t. SigTypes
  BY TypeParts DEF IInv
<1>u. UNCHANGED sigVars => SigTypes'
  BY <1>t DEF sigVars, SigTypes
<1>c. \A hit : Caught(s, hit) \in [Procs -> Nat]
  BY <1>t DEF SigTypes, Caught
<1> USE <1>t, <1>u
<1>1. CASE Stat(s)
  BY <1>1 DEF Stat
<1>2. CASE Create(s)
  BY <1>2 DEF Create, CreateTemp
<1>3. CASE Write(s)
  BY <1>3 DEF Write, procVars
<1>4. CASE Rename(s)
  BY <1>4 DEF Rename
<1>5. CASE NotifyRun(s)
  BY <1>5 DEF NotifyRun
<1>6. CASE StartOuter(s)
  BY <1>6 DEF StartOuter
<1>7. ASSUME NEW p \in {"rca", "outer"}, Wait(s, p) PROVE SigTypes'
  BY <1>7 DEF Wait, Reap, Over
<1>8. CASE StartInner(s)
  BY <1>8 DEF StartInner
<1>9. ASSUME NEW p \in {"outer", "inner"}, ForwardSignals(s, p) PROVE SigTypes'
  BY <1>9 DEF ForwardSignals
<1>10. CASE StatDir(s)
  BY <1>10 DEF StatDir, Mounting, Step, procVars
<1>11. CASE MkdirAll(s)
  BY <1>11 DEF MkdirAll, Mounting, Step, GiveUp, procVars
<1>12. CASE MountRouted(s)
  BY <1>12 DEF MountRouted, Mounting, Step, GiveUp, procVars
<1>13. CASE StartSupervisor(s)
  BY <1>13 DEF StartSupervisor, GiveUp
<1>14. CASE UnmountAll(s)
  BY <1>14 DEF UnmountAll, Over
<1>15. CASE RemoveCreated(s)
  BY <1>15 DEF RemoveCreated
<1>16. CASE StartProgram(s)
  BY <1>16 DEF StartProgram
<1>17. CASE Arm(s)
  BY <1>17 DEF Arm
<1>18. CASE ProgramExits(s)
  BY <1>18 DEF ProgramExits
<1>19. CASE ProgramKilled(s)
  BY <1>19 DEF ProgramKilled, Over
<1>20. CASE SupervisorExits(s)
  BY <1>20 DEF SupervisorExits, Alive
<1>21. CASE Signal(s)
  <2>1. sent' \in 0..MaxSignals
    BY <1>21, RoutedAssumption DEF Signal, SigTypes
  <2>2. PICK hit : q' = [q EXCEPT ![s] = Caught(s, hit)]
    BY <1>21 DEF Signal
  <2> QED
    BY <2>1, <2>2, <1>c DEF SigTypes
<1>22. ASSUME NEW p \in {"rca", "outer", "inner"}, Forward(s, p) PROVE SigTypes'
  <2>1. sent' = sent /\ q[s][p] > 0 /\ p \in Procs
    BY <1>22, ChainOfProcs DEF Forward
  <2>2. q' = [q EXCEPT ![s] = [Caught(s, Forwarded(p)) EXCEPT ![p] = @ - 1]]
    BY <1>22 DEF Forward
  <2>3. Caught(s, Forwarded(p))[p] - 1 \in Nat
    BY <2>1 DEF Caught, SigTypes
  <2> QED
    BY <2>1, <2>2, <2>3, <1>c DEF SigTypes
<1> QED
  BY SessionStep(s), <1>1, <1>2, <1>3, <1>4, <1>5, <1>6, <1>7, <1>8, <1>9, <1>10,
     <1>11, <1>12, <1>13, <1>14, <1>15, <1>16, <1>17, <1>18, <1>19, <1>20, <1>21,
     <1>22
     DEF SessionStep, ExtractStep, RcaStep, OuterStep, InnerStep, SupervisorStep

\* The types of the directories are kept.
LEMMA DirTypesStep ==
  ASSUME IInv, NEW s \in Sessions, SessionStep(s)
  PROVE  DirTypes'
<1>t. DirTypes
  BY TypeParts DEF IInv
<1>u. UNCHANGED <<dirVars, before>> => DirTypes'
  BY <1>t DEF dirVars, DirTypes
<1>d. todo[s] # <<>> => Dir(s) \in Dirs /\ Tail(todo[s]) \in Seq(Dirs)
  BY <1>t DEF DirTypes, Dir
<1> USE <1>t, <1>u, <1>d
<1>1. CASE Stat(s)
  BY <1>1 DEF Stat
<1>2. CASE Create(s)
  BY <1>2 DEF Create, CreateTemp
<1>3. CASE Write(s)
  BY <1>3 DEF Write, procVars
<1>4. CASE Rename(s)
  BY <1>4 DEF Rename
<1>5. CASE NotifyRun(s)
  BY <1>5 DEF NotifyRun
<1>6. CASE StartOuter(s)
  BY <1>6 DEF StartOuter
<1>7. ASSUME NEW p \in {"rca", "outer"}, Wait(s, p) PROVE DirTypes'
  BY <1>7 DEF Wait, Reap, Over
<1>8. CASE StartInner(s)
  BY <1>8 DEF StartInner
<1>9. ASSUME NEW p \in {"outer", "inner"}, ForwardSignals(s, p) PROVE DirTypes'
  BY <1>9 DEF ForwardSignals
<1>10. CASE StatDir(s)
  BY <1>10 DEF StatDir, DirTypes, Mounting, Step
<1>11. CASE MkdirAll(s)
  <2>1. Dir(s) \in Dirs /\ UNCHANGED <<todo, mounted, before>>
    BY <1>11 DEF MkdirAll, Mounting
  <2>2. CASE /\ host' = host \cup {Dir(s)} /\ created' = [created EXCEPT ![s] = @ \cup {Dir(s)}]
             /\ Step(s, "mount")
    BY <2>1, <2>2 DEF DirTypes, Step
  <2>3. CASE UNCHANGED <<host, created, step>>
    BY <2>1, <2>3 DEF DirTypes
  <2> QED
    BY <1>11, <2>2, <2>3 DEF MkdirAll
<1>12. CASE MountRouted(s)
  <2>1. UNCHANGED <<host, created, before>>
    BY <1>12 DEF MountRouted
  <2>2. CASE UNCHANGED <<mounted, todo, step>>
    BY <2>1, <2>2 DEF DirTypes
  <2>3. CASE /\ mounted' = [mounted EXCEPT ![s] = @ \cup {Dir(s)}]
             /\ todo' = [todo EXCEPT ![s] = Tail(@)] /\ Step(s, "stat")
    <3>1. todo[s] # <<>>
      BY <1>12 DEF MountRouted, Mounting
    <3> QED
      BY <2>1, <2>3, <3>1 DEF DirTypes, Step
  <2> QED
    BY <1>12, <2>2, <2>3 DEF MountRouted
<1>13. CASE StartSupervisor(s)
  BY <1>13 DEF StartSupervisor, GiveUp
<1>14. CASE UnmountAll(s)
  BY <1>14 DEF UnmountAll, DirTypes
<1>15. CASE RemoveCreated(s)
  BY <1>15 DEF RemoveCreated, DirTypes
<1>16. CASE StartProgram(s)
  BY <1>16 DEF StartProgram
<1>17. CASE Arm(s)
  BY <1>17 DEF Arm
<1>18. CASE ProgramExits(s)
  BY <1>18 DEF ProgramExits
<1>19. CASE ProgramKilled(s)
  BY <1>19 DEF ProgramKilled, Over
<1>20. CASE SupervisorExits(s)
  BY <1>20 DEF SupervisorExits, Alive
<1>21. CASE Signal(s)
  BY <1>21 DEF Signal
<1>22. ASSUME NEW p \in {"rca", "outer", "inner"}, Forward(s, p) PROVE DirTypes'
  BY <1>22 DEF Forward, Forwarded, Alive
<1> QED
  BY SessionStep(s), <1>1, <1>2, <1>3, <1>4, <1>5, <1>6, <1>7, <1>8, <1>9, <1>10,
     <1>11, <1>12, <1>13, <1>14, <1>15, <1>16, <1>17, <1>18, <1>19, <1>20, <1>21,
     <1>22
     DEF SessionStep, ExtractStep, RcaStep, OuterStep, InnerStep, SupervisorStep

\* Nothing is lost from view while no directory is touched and inner does not move on.
LEMMA ViewKept ==
  ASSUME IInv, UNCHANGED <<dirVars, before>>,
         \A t \in Sessions :
           /\ st'[t]["inner"] \in {"none", "boot"} => st[t]["inner"] \in {"none", "boot"}
           /\ st'[t]["inner"] \in {"child", "up"} => st[t]["inner"] \in {"child", "up"}
  PROVE  Viewed'
<1>1. Viewed
  BY DEF IInv
<1> QED
  BY <1>1 DEF Viewed, View, dirVars, Dir

\* A directory of the first hour stays, and stays mounted or to be mounted.
LEMMA ViewedStep ==
  ASSUME IInv, NEW s \in Sessions, SessionStep(s)
  PROVE  Viewed'
<1>t. ProcTypes /\ DirTypes /\ Chained /\ Viewed
  BY TypeParts DEF IInv
<1> USE <1>t, Reports, ChainOfProcs, StateNames, StatusNames, ViewKept
<1>1. CASE Stat(s)
  BY <1>1, GoEffect DEF Stat
<1>2. CASE Create(s)
  BY <1>2, GoEffect, EndEffect DEF Create, CreateTemp
<1>3. CASE Write(s)
  BY <1>3, EndEffect DEF Write, procVars
<1>4. CASE Rename(s)
  BY <1>4, GoEffect, EndEffect DEF Rename
<1>5. CASE NotifyRun(s)
  BY <1>5, GoEffect DEF NotifyRun
<1>6. CASE StartOuter(s)
  <2>1. CASE Start(s, "rca", "up", "outer", "boot")
    <3>1. Becomes(s, "rca", "up", "outer", "boot")
      BY <2>1, StagesStart
    <3>2. st[s]["rca"] = "up" /\ st[s]["outer"] = "none" /\ UNCHANGED <<dirVars, before>>
      BY <1>6 DEF StartOuter
    <3> QED
      BY <3>1, <3>2 DEF Becomes
  <2>2. CASE End(s, "rca", Exited(1))
    BY <1>6, <2>2, EndEffect DEF StartOuter
  <2> QED
    BY <1>6, <2>1, <2>2 DEF StartOuter
<1>7. ASSUME NEW p \in {"rca", "outer"}, Wait(s, p) PROVE Viewed'
  BY <1>7, EndEffect DEF Wait, Reap, Over
<1>8. CASE StartInner(s)
  <2>1. CASE Start(s, "outer", "child", "inner", "boot")
    <3>1. Becomes(s, "outer", "child", "inner", "boot")
      BY <2>1, StagesStart
    <3>2. st[s]["outer"] = "boot" /\ st[s]["inner"] = "none" /\ UNCHANGED <<dirVars, before>>
      BY <1>8 DEF StartInner, Chained
    <3> QED
      BY <3>1, <3>2 DEF Becomes
  <2>2. CASE End(s, "outer", Exited(1))
    BY <1>8, <2>2, EndEffect DEF StartInner
  <2> QED
    BY <1>8, <2>1, <2>2 DEF StartInner
<1>9. ASSUME NEW p \in {"outer", "inner"}, ForwardSignals(s, p) PROVE Viewed'
  BY <1>9, GoEffect DEF ForwardSignals
<1>10. CASE StatDir(s)
  <2>1. /\ step' = [step EXCEPT ![s] = IF Missing(Dir(s)) THEN "mkdir" ELSE "mount"]
        /\ UNCHANGED <<st, host, todo, mounted, created, before>>
    BY <1>10 DEF StatDir, Step, procVars
  <2> QED
    BY <2>1 DEF Viewed, View, Missing, Dir, DirTypes
<1>11. CASE MkdirAll(s)
  <2>1. step[s] = "mkdir" /\ todo[s] # <<>> /\ UNCHANGED <<todo, mounted, before>>
    BY <1>11 DEF MkdirAll, Mounting
  <2>2. CASE /\ host' = host \cup {Dir(s)} /\ created' = [created EXCEPT ![s] = @ \cup {Dir(s)}]
             /\ Step(s, "mount") /\ UNCHANGED procVars
    BY <2>1, <2>2 DEF Viewed, View, Dir, Step, procVars, DirTypes
  <2>3. CASE GiveUp(s) /\ UNCHANGED <<host, created, step>>
    BY <2>1, <2>3, GoEffect DEF GiveUp, dirVars
  <2> QED
    BY <1>11, <2>2, <2>3 DEF MkdirAll
<1>12. CASE MountRouted(s)
  <2>1. st[s]["inner"] = "boot" /\ todo[s] # <<>> /\ UNCHANGED <<host, created, before>>
    BY <1>12 DEF MountRouted, Mounting
  <2>2. CASE /\ mounted' = [mounted EXCEPT ![s] = @ \cup {Dir(s)}]
             /\ todo' = [todo EXCEPT ![s] = Tail(@)] /\ Step(s, "stat") /\ UNCHANGED procVars
    <3>1. ASSUME NEW j \in DOMAIN todo[s]
          PROVE  todo[s][j] = Dir(s)
                 \/ \E k \in DOMAIN Tail(todo[s]) : Tail(todo[s])[k] = todo[s][j]
      <4>1. CASE j = 1
        BY <4>1 DEF Dir
      <4>2. CASE j # 1
        <5>1. j - 1 \in DOMAIN Tail(todo[s]) /\ Tail(todo[s])[j - 1] = todo[s][j]
          BY <2>1, <4>2 DEF DirTypes
        <5> QED
          BY <5>1
      <4> QED
        BY <4>1, <4>2
    <3>2. \A r \in Sessions \ {s} : UNCHANGED <<mounted[r], todo[r], step[r]>>
      BY <2>2 DEF Step, DirTypes
    <3>3. /\ mounted'[s] = mounted[s] \cup {Dir(s)} /\ todo'[s] = Tail(todo[s])
          /\ step'[s] = "stat"
      BY <2>2 DEF Step, DirTypes
    <3>4. ASSUME NEW d \in before, d \in mounted[s] \/ \E j \in DOMAIN todo[s] : todo[s][j] = d
          PROVE  d \in mounted'[s] \/ \E k \in DOMAIN todo'[s] : todo'[s][k] = d
      BY <3>1, <3>3, <3>4
    <3>5. View(s)'
      <4>1. UNCHANGED <<st, before, created>>
        BY <2>1, <2>2 DEF procVars
      <4>2. created[s] \cap before = {} /\ step'[s] # "mkdir"
        BY <3>3 DEF Viewed, View
      <4>3. \A d \in before : (\E i \in DOMAIN Routed[s] : Routed[s][i] = d) =>
              d \in mounted[s] \/ \E j \in DOMAIN todo[s] : todo[s][j] = d
        BY <2>1 DEF Viewed, View
      <4> QED
        BY <2>1, <3>4, <4>1, <4>2, <4>3 DEF View
    <3>6. \A r \in Sessions \ {s} : View(r)'
      BY <2>1, <2>2, <3>2 DEF Viewed, View, procVars, Dir
    <3> QED
      BY <2>1, <3>5, <3>6 DEF Viewed
  <2>3. CASE GiveUp(s) /\ UNCHANGED <<mounted, todo, step>>
    BY <2>1, <2>3, GoEffect DEF GiveUp, dirVars
  <2> QED
    BY <1>12, <2>2, <2>3 DEF MountRouted
<1>13. CASE StartSupervisor(s)
  <2>1. st[s]["inner"] = "boot" /\ todo[s] = <<>> /\ UNCHANGED <<dirVars, before>>
    BY <1>13 DEF StartSupervisor
  <2>2. CASE Start(s, "inner", "child", "supervisor", "up")
    <3>1. Becomes(s, "inner", "child", "supervisor", "up")
      BY <2>2, StagesStart
    <3>2. DOMAIN todo[s] = {}
      BY <2>1
    <3> QED
      BY <2>1, <3>1, <3>2 DEF Becomes, Viewed, View, Dir, dirVars
  <2>3. CASE Go(s, "inner", "failing")
    BY <2>1, <2>3, GoEffect
  <2> QED
    BY <1>13, <2>2, <2>3 DEF StartSupervisor, GiveUp
<1>14. CASE UnmountAll(s)
  <2>1. /\ st'[s]["inner"] \in {"failed", "leaving"}
        /\ \A r \in Sessions \ {s} : st'[r]["inner"] = st[r]["inner"]
    BY <1>14, GoEffect DEF UnmountAll
  <2>2. UNCHANGED <<host, todo, step, created, before>>
    BY <1>14 DEF UnmountAll
  <2>3. \A r \in Sessions \ {s} : mounted'[r] = mounted[r]
    BY <1>14 DEF UnmountAll, DirTypes
  <2> QED
    BY <2>1, <2>2, <2>3 DEF Viewed, View, Dir
<1>15. CASE RemoveCreated(s)
  <2>1. /\ st'[s]["inner"] = "gone"
        /\ \A r \in Sessions \ {s} : st'[r]["inner"] = st[r]["inner"]
    BY <1>15, EndEffect DEF RemoveCreated
  <2>2. UNCHANGED <<todo, step, created, before>>
    BY <1>15 DEF RemoveCreated
  <2>3. PICK removed \in SUBSET created[s] :
          host' = host \ removed /\ mounted' = [r \in Sessions |-> mounted[r] \ removed]
    BY <1>15 DEF RemoveCreated
  <2>4. removed \cap before = {}
    BY <2>3 DEF Viewed, View
  <2> QED
    BY <2>1, <2>2, <2>3, <2>4 DEF Viewed, View, Dir
<1>16. CASE StartProgram(s)
  BY <1>16, GoEffect DEF StartProgram
<1>17. CASE Arm(s)
  BY <1>17, GoEffect DEF Arm
<1>18. CASE ProgramExits(s)
  <2>1. UNCHANGED <<dirVars, before>>
    BY <1>18 DEF ProgramExits
  <2> QED
    BY <1>18, <2>1, ProgramEffect
<1>19. CASE ProgramKilled(s)
  BY <1>19, GoEffect, EndEffect DEF ProgramKilled, Over
<1>20. CASE SupervisorExits(s)
  BY <1>20, EndEffect DEF SupervisorExits, Alive
<1>21. CASE Signal(s)
  BY <1>21, HitEffect DEF Signal
<1>22. ASSUME NEW p \in {"rca", "outer", "inner"}, Forward(s, p) PROVE Viewed'
  BY <1>22, HitEffect DEF Forward, Forwarded, Alive
<1> QED
  BY SessionStep(s), <1>1, <1>2, <1>3, <1>4, <1>5, <1>6, <1>7, <1>8, <1>9, <1>10,
     <1>11, <1>12, <1>13, <1>14, <1>15, <1>16, <1>17, <1>18, <1>19, <1>20, <1>21,
     <1>22
     DEF SessionStep, ExtractStep, RcaStep, OuterStep, InnerStep, SupervisorStep

\* A debt stays while its directory is not touched: inner lives on, or is killed.
LEMMA OwedKept ==
  ASSUME Owed, UNCHANGED <<host, before, created>>,
         \A t \in Sessions :
           /\ Alive(t, "inner") => Alive(t, "inner")' \/ status'[t]["inner"] = Killed
           /\ status[t]["inner"] = Killed => status'[t]["inner"] = Killed
           /\ mounted'[t] = mounted[t] \/ Alive(t, "inner")'
  PROVE  Owed'
<1> SUFFICES ASSUME NEW d \in host \ before
             PROVE  \E s \in Sessions : Owes(s, d)'
  BY DEF Owed
<1>1. PICK s \in Sessions : Owes(s, d)
  BY DEF Owed
<1>2. Owes(s, d)'
  BY <1>1 DEF Owes
<1> QED
  BY <1>2

\* The same when nothing happens to inner.
LEMMA OwedQuiet ==
  ASSUME Owed, UNCHANGED <<dirVars, before>>,
         \A t \in Sessions :
           /\ st'[t]["inner"] = st[t]["inner"] \/ Alive(t, "inner")'
           /\ status'[t]["inner"] = status[t]["inner"]
  PROVE  Owed'
BY OwedKept DEF dirVars, Alive

\* Every directory a session makes is removed again, or still owed.
LEMMA OwedStep ==
  ASSUME IInv, Owed, NEW s \in Sessions, SessionStep(s)
  PROVE  Owed'
<1>t. ProcTypes /\ DirTypes /\ Chained /\ Reported
  BY TypeParts DEF IInv
<1>g. Killed # None
  BY StatusNames, NoneAssumption DEF Statuses
<1> USE <1>t, Reports, ChainOfProcs, StateNames, StatusNames
<1>1. CASE Stat(s)
  BY <1>1, GoEffect, OwedQuiet DEF Stat
<1>2. CASE Create(s)
  BY <1>2, GoEffect, EndEffect, OwedQuiet DEF Create, CreateTemp
<1>3. CASE Write(s)
  BY <1>3, EndEffect, OwedQuiet DEF Write, procVars
<1>4. CASE Rename(s)
  BY <1>4, GoEffect, EndEffect, OwedQuiet DEF Rename
<1>5. CASE NotifyRun(s)
  BY <1>5, GoEffect, OwedQuiet DEF NotifyRun
<1>6. CASE StartOuter(s)
  <2>1. CASE Start(s, "rca", "up", "outer", "boot")
    BY <1>6, <2>1, StagesStart, OwedQuiet DEF StartOuter, Becomes
  <2>2. CASE End(s, "rca", Exited(1))
    BY <1>6, <2>2, EndEffect, OwedQuiet DEF StartOuter
  <2> QED
    BY <1>6, <2>1, <2>2 DEF StartOuter
<1>7. ASSUME NEW p \in {"rca", "outer"}, Wait(s, p) PROVE Owed'
  BY <1>7, EndEffect, OwedQuiet DEF Wait, Reap, Over
<1>8. CASE StartInner(s)
  <2>1. CASE Start(s, "outer", "child", "inner", "boot")
    BY <1>8, <2>1, StagesStart, OwedQuiet DEF StartInner, Becomes, Alive
  <2>2. CASE End(s, "outer", Exited(1))
    BY <1>8, <2>2, EndEffect, OwedQuiet DEF StartInner
  <2> QED
    BY <1>8, <2>1, <2>2 DEF StartInner
<1>9. ASSUME NEW p \in {"outer", "inner"}, ForwardSignals(s, p) PROVE Owed'
  BY <1>9, GoEffect, OwedQuiet DEF ForwardSignals, Alive
<1>10. CASE StatDir(s)
  BY <1>10, OwedKept DEF StatDir, procVars, Alive
<1>11. CASE MkdirAll(s)
  <2>1. st[s]["inner"] = "boot" /\ todo[s] # <<>> /\ UNCHANGED <<todo, mounted, before>>
    BY <1>11 DEF MkdirAll, Mounting
  <2>2. CASE /\ host' = host \cup {Dir(s)} /\ created' = [created EXCEPT ![s] = @ \cup {Dir(s)}]
             /\ UNCHANGED procVars
    <3> SUFFICES ASSUME NEW d \in host' \ before
                 PROVE  \E t \in Sessions : Owes(t, d)'
      BY <2>1 DEF Owed
    <3>1. CASE d = Dir(s)
      <4>1. d \in created'[s]
        BY <2>2, <3>1 DEF DirTypes
      <4>2. Alive(s, "inner")'
        BY <2>1, <2>2 DEF Alive, procVars
      <4> QED
        BY <4>1, <4>2 DEF Owes
    <3>2. CASE d # Dir(s)
      <4>1. PICK t \in Sessions : Owes(t, d)
        BY <2>2, <3>2 DEF Owed
      <4>2. created[t] \subseteq created'[t]
        BY <2>2 DEF DirTypes
      <4> QED
        BY <2>1, <2>2, <4>1, <4>2 DEF Owes, Alive, procVars
    <3> QED
      BY <3>1, <3>2
  <2>3. CASE GiveUp(s) /\ UNCHANGED <<host, created, step>>
    BY <2>1, <2>3, GoEffect, OwedKept DEF GiveUp, Alive
  <2> QED
    BY <1>11, <2>2, <2>3 DEF MkdirAll
<1>12. CASE MountRouted(s)
  <2>1. st[s]["inner"] = "boot" /\ UNCHANGED <<host, created, before>>
    BY <1>12 DEF MountRouted, Mounting
  <2>2. CASE mounted' = [mounted EXCEPT ![s] = @ \cup {Dir(s)}] /\ UNCHANGED procVars
    BY <2>1, <2>2, OwedKept DEF procVars, Alive, DirTypes
  <2>3. CASE GiveUp(s) /\ UNCHANGED <<mounted, todo, step>>
    BY <2>1, <2>3, GoEffect, OwedKept DEF GiveUp, Alive
  <2> QED
    BY <1>12, <2>2, <2>3 DEF MountRouted
<1>13. CASE StartSupervisor(s)
  <2>1. st[s]["inner"] = "boot" /\ UNCHANGED <<dirVars, before>>
    BY <1>13 DEF StartSupervisor
  <2>2. CASE Start(s, "inner", "child", "supervisor", "up")
    BY <2>1, <2>2, StagesStart, OwedQuiet DEF Becomes, Alive
  <2>3. CASE GiveUp(s)
    BY <2>1, <2>3, GoEffect, OwedQuiet DEF GiveUp, Alive
  <2> QED
    BY <1>13, <2>2, <2>3 DEF StartSupervisor
<1>14. CASE UnmountAll(s)
  <2>1. /\ st'[s]["inner"] \in {"failed", "leaving"} /\ status' = status
        /\ \A r \in Sessions \ {s} : st'[r]["inner"] = st[r]["inner"]
    BY <1>14, GoEffect DEF UnmountAll
  <2>2. \A r \in Sessions \ {s} : mounted'[r] = mounted[r]
    BY <1>14 DEF UnmountAll, DirTypes
  <2>3. UNCHANGED <<host, created, before>>
    BY <1>14 DEF UnmountAll
  <2> QED
    BY <2>1, <2>2, <2>3, OwedKept DEF Alive
<1>15. CASE RemoveCreated(s)
  <2>1. PICK removed : /\ removed = created[s] \ mounted[s] /\ host' = host \ removed
                       /\ mounted' = [t \in Sessions |-> mounted[t] \ removed]
    BY <1>15 DEF RemoveCreated
  <2>2. UNCHANGED <<created, before>>
    BY <1>15 DEF RemoveCreated
  <2>3. \A t \in Sessions \ {s} :
          st'[t]["inner"] = st[t]["inner"] /\ status'[t]["inner"] = status[t]["inner"]
    BY <1>15, EndEffect DEF RemoveCreated
  <2> SUFFICES ASSUME NEW d \in host' \ before
               PROVE  \E t \in Sessions : Owes(t, d)'
    BY <2>2 DEF Owed
  <2>4. d \in host \ before /\ d \notin removed
    BY <2>1
  <2>5. PICK t \in Sessions : Owes(t, d)
    BY <2>4 DEF Owed
  <2>6. CASE t = s
    <3>1. d \in mounted[s]
      BY <2>1, <2>4, <2>5, <2>6 DEF Owes
    <3> QED
      BY <2>1, <2>2, <2>4, <2>5, <2>6, <3>1 DEF Owes
  <2>7. CASE t # s
    BY <2>1, <2>2, <2>3, <2>4, <2>5, <2>7 DEF Owes, Alive
  <2> QED
    BY <2>6, <2>7
<1>16. CASE StartProgram(s)
  BY <1>16, GoEffect, OwedQuiet DEF StartProgram
<1>17. CASE Arm(s)
  BY <1>17, GoEffect, OwedQuiet DEF Arm
<1>18. CASE ProgramExits(s)
  <2>1. UNCHANGED <<dirVars, before>>
    BY <1>18 DEF ProgramExits
  <2> QED
    BY <1>18, <2>1, ProgramEffect, OwedQuiet
<1>19. CASE ProgramKilled(s)
  BY <1>19, GoEffect, EndEffect, OwedQuiet DEF ProgramKilled
<1>20. CASE SupervisorExits(s)
  BY <1>20, EndEffect, OwedQuiet DEF SupervisorExits
<1>h. ASSUME NEW hit \in SUBSET Procs, Hit(s, hit), UNCHANGED <<dirVars, before>>
      PROVE  Owed'
  <2>1. \A t \in Sessions :
          \/ st'[t]["inner"] = st[t]["inner"] /\ status'[t]["inner"] = status[t]["inner"]
          \/ /\ Alive(t, "inner") /\ st'[t]["inner"] = "gone"
             /\ status'[t]["inner"] = IF status[t]["inner"] = None THEN Killed
                                       ELSE status[t]["inner"]
    BY <1>h, HitEffect
  <2>2. \A t \in Sessions : Alive(t, "inner") => status[t]["inner"] = None
    BY DEF Alive, Reported, ProcTypes
  <2> QED
    BY <1>h, <1>g, <2>1, <2>2, OwedKept DEF Alive, dirVars
<1>21. CASE Signal(s)
  BY <1>21, <1>h DEF Signal
<1>22. ASSUME NEW p \in {"rca", "outer", "inner"}, Forward(s, p) PROVE Owed'
  BY <1>22, <1>h DEF Forward, Forwarded
<1> QED
  BY SessionStep(s), <1>1, <1>2, <1>3, <1>4, <1>5, <1>6, <1>7, <1>8, <1>9, <1>10,
     <1>11, <1>12, <1>13, <1>14, <1>15, <1>16, <1>17, <1>18, <1>19, <1>20, <1>21,
     <1>22
     DEF SessionStep, ExtractStep, RcaStep, OuterStep, InnerStep, SupervisorStep

----------------------------------------------------------------------------
(* The theorems.                                                           *)

\* The first states satisfy the invariant.
LEMMA InitInv == Init => IInv
<1> SUFFICES ASSUME Init PROVE IInv
  OBVIOUS
<1>1. \A s \in Sessions, p \in Procs :
        st[s][p] = (IF p = "rca" THEN "extract" ELSE "none") /\ status[s][p] = None
  BY DEF Init
<1>2. \A s \in Sessions : todo[s] \in Seq(Dirs)
  BY RoutedAssumption DEF Init
<1>3. ProcTypes
  BY ChainOfProcs, StateNames DEF Init, ProcTypes
<1>4. CacheTypes
  BY DEF Init, CacheTypes, Copies
<1>5. SigTypes
  BY RoutedAssumption DEF Init, SigTypes
<1>6. DirTypes
  BY RoutedAssumption DEF Init, DirTypes
<1>7. NeverTorn /\ Extracted /\ Chained
  BY <1>1, ChainOfProcs DEF Init, NeverTorn, Extracted, Chained
<1>8. Reported
  BY <1>1 DEF Reported
<1>9. PassedUp
  <2>1. \A c \in Codes : None # Exited(c)
    BY CodesAssumption, StatusNames, NoneAssumption DEF Statuses
  <2> QED
    BY <1>1, <2>1, ChainOfProcs DEF PassedUp
<1>10. Reaped
  BY <1>1, ChainOfProcs DEF Reaped
<1>11. Viewed
  BY <1>1, ChainOfProcs DEF Init, Viewed, View
<1> QED
  BY <1>3, <1>4, <1>5, <1>6, <1>7, <1>8, <1>9, <1>10, <1>11, TypeParts DEF IInv

\* Every step of the specification keeps it.
LEMMA NextInv == IInv /\ [Next]_vars => IInv'
<1>1. ASSUME IInv, NEW s \in Sessions, SessionStep(s) PROVE IInv'
  <2>1. (ProcTypes /\ CacheTypes /\ SigTypes /\ DirTypes)'
    BY <1>1, ProcTypesStep, CacheTypesStep, SigTypesStep, DirTypesStep
  <2>2. TypeOK'
    BY <2>1 DEF TypeOK, ProcTypes, CacheTypes, SigTypes, DirTypes
  <2> QED
    BY <1>1, <2>2, ExtractedStep, ChainedStep, ReportedStep, PassedUpStep, ReapedStep,
       ViewedStep
       DEF IInv
<1>2. ASSUME IInv, UNCHANGED vars PROVE IInv'
  <2> USE <1>2 DEF vars, cacheVars, procVars, sigVars, dirVars
  <2>1. TypeOK'
    BY DEF IInv, TypeOK
  <2>2. NeverTorn' /\ Extracted' /\ Chained' /\ Reported'
    BY DEF IInv, NeverTorn, Extracted, Chained, Reported
  <2>3. PassedUp' /\ Reaped'
    BY DEF IInv, PassedUp, Reaped, Alive
  <2>4. Viewed'
    BY DEF IInv, Viewed, View, Dir
  <2> QED
    BY <2>1, <2>2, <2>3, <2>4 DEF IInv
<1> QED
  BY <1>1, <1>2 DEF Next

\* The invariant holds of every reachable state.
THEOREM Invariant == Spec => []IInv
BY InitInv, NextInv, PTL DEF Spec

\* Every variable keeps its type: in particular the status of a child that was killed
\* never goes up the chain as a negative number.
THEOREM TypeCorrect == Spec => []TypeOK
<1>1. IInv => TypeOK
  BY DEF IInv
<1> QED
  BY <1>1, Invariant, PTL

\* However many sessions extract the supervisor side by side, and wherever they end,
\* none executes a part of it.
THEOREM NeverTornHolds == Spec => []NeverTorn
<1>1. IInv => NeverTorn
  BY DEF IInv
<1> QED
  BY <1>1, Invariant, PTL

\* The exit code rca reports is the program's: each stage passes on its child's.
THEOREM ExitCodesHold == Spec => []ExitIsPrograms
<1>1. IInv => ExitIsPrograms
  <2> SUFFICES ASSUME IInv, NEW s \in Sessions, NEW c \in Codes, status[s]["rca"] = Exited(c)
               PROVE  status[s]["program"] \in {Exited(c), Unarmed}
    BY DEF ExitIsPrograms
  <2>1. status[s]["outer"] = Exited(c)
    BY ChainOfProcs DEF IInv, PassedUp
  <2>2. status[s]["inner"] = Exited(c)
    BY <2>1, ChainOfProcs DEF IInv, PassedUp
  <2>3. status[s]["supervisor"] = Exited(c)
    BY <2>2, ChainOfProcs DEF IInv, PassedUp
  <2> QED
    BY <2>3 DEF IInv, PassedUp
<1> QED
  BY <1>1, Invariant, PTL

\* Nothing of a session outlives rca, if its stages were not killed.
THEOREM ReturnHolds == Spec => []ReturnMeansDone
<1>1. IInv => ReturnMeansDone
  <2> SUFFICES ASSUME IInv, NEW s \in Sessions, Over(s, "rca"),
                      \A p \in {"rca", "outer", "inner"} : status[s][p] # Killed
               PROVE  /\ \A p \in {"outer", "inner", "supervisor"} : ~Alive(s, p)
                      /\ Alive(s, "program") => Over(s, "supervisor")
    BY DEF ReturnMeansDone
  <2>1. \A p \in {"rca", "outer", "inner"} :
          st[s][p] = "gone" => st[s][Child(p)] \in {"none", "gone"}
    BY DEF IInv, Reaped, Alive
  <2>2. Chained
    BY DEF IInv
  <2>3. st[s]["outer"] \in {"none", "gone"}
    BY <2>1, ChainOfProcs DEF Over
  <2>4. st[s]["inner"] \in {"none", "gone"}
    BY <2>1, <2>2, <2>3, ChainOfProcs DEF Chained
  <2>5. st[s]["supervisor"] \in {"none", "gone"}
    BY <2>1, <2>2, <2>4, ChainOfProcs DEF Chained
  <2> QED
    BY <2>2, <2>3, <2>4, <2>5 DEF Alive, Over, Chained
<1> QED
  BY <1>1, Invariant, PTL

\* What a session routes of the directories of the first hour stays mounted while its
\* supervisor lives, whatever the other sessions unmount and remove.
THEOREM KeepsViewHolds == Spec => []KeepsView
<1>1. IInv => KeepsView
  BY DEF IInv, Viewed, View, KeepsView
<1> QED
  BY <1>1, Invariant, PTL

\* After the last session the host has the directories it had before the first, if no
\* inner was killed and none of the routed directories was busy when it was unmounted.
THEOREM HostRestoredHolds == Spec => []HostRestored
<1>1. Init => Owed
  BY DEF Init, Owed
<1>2. IInv /\ Owed /\ [Next]_vars => Owed'
  <2>1. ASSUME IInv, Owed, NEW s \in Sessions, SessionStep(s) PROVE Owed'
    BY <2>1, OwedStep
  <2>2. ASSUME Owed, UNCHANGED vars PROVE Owed'
    BY <2>2, OwedQuiet DEF vars, procVars
  <2> QED
    BY <2>1, <2>2 DEF Next
<1>3. IInv /\ Owed => HostRestored
  <2> SUFFICES ASSUME IInv, Owed, \A s \in Sessions, p \in Procs : ~Alive(s, p),
                      \A s \in Sessions : status[s]["inner"] # Killed /\ mounted[s] = {}
               PROVE  host = before
    BY DEF HostRestored
  <2>1. before \subseteq host
    BY DEF IInv, Viewed
  <2>2. \A d \in host \ before : FALSE
    BY ChainOfProcs DEF Owed, Owes
  <2> QED
    BY <2>1, <2>2
<1> QED
  BY <1>1, <1>2, <1>3, Invariant, PTL DEF Spec
=============================================================================

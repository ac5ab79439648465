---------------------------- MODULE SpawnRelay -----------------------------
(***************************************************************************)
(* One routed subprocess: the parent's stand-in child (rca _spawn-proxy),  *)
(* the adapter's exec bridge and the executor's serveExec, with the        *)
(* process group it runs.                                                  *)
(*                                                                         *)
(*   parent -- proxy ==up1==> bridge ==up2==> serveExec -- child group     *)
(*                   <==dn1==        <==dn2==                              *)
(*                                                                         *)
(* Each end is several goroutines that share one stream: in the proxy the  *)
(* signal forwarder, the stdin pump and the main loop; in the bridge two   *)
(* copies; in the executor two output pumps, the control reader and the    *)
(* main goroutine.  A chunk frame is written in two writes, so that the    *)
(* copies may carry, and a broken transport keep, half of it.              *)
(*                                                                         *)
(* Chunks of one stream are numbered in the order they are produced.       *)
(***************************************************************************)
EXTENDS Integers, Sequences

CONSTANTS
  Loads,       \* bounds of one subprocess: the stdin chunks the parent may type
               \* (in), the chunks the group may write per output stream (out),
               \* the signals the parent may send to the proxy (signals)
  WireCap,     \* writes buffered on one leg of the relay, per direction
  PipeCap,     \* chunks buffered in one pipe of the child
  Codes,       \* codes the child may exit with
  Stubborn,    \* members of the group that survive a forwarded signal
  None         \* no code, no status yet

Procs   == {"leader", "heir"}
Outputs == {"stdout", "stderr"}

ASSUME BoundsAssumption ==
  /\ Loads \subseteq [in : Nat, out : [Outputs -> Nat],
                      signals : 0..4]         \* the proxy's queue of 4 never drops one
  /\ WireCap \in Nat \ {0, 1}                  \* a reader holds a header while it waits
  /\ PipeCap \in Nat \ {0}
  /\ Codes \subseteq 0..255 /\ Stubborn \subseteq Procs /\ None \notin Codes \cup {-1}

VARIABLES
  \* the member of Loads this subprocess has; constant from Init on
  load,
  \* parent
  typed, inClosed, sigSent,
  \* proxy: main loop, exit status, os/signal queue, stdin pump, what was output
  prx, status, sigc, inPump, taken, got,
  \* bridge
  brg, upCopy, dnCopy, link,
  up1, up2, dn1, dn2,
  \* executor: main goroutine, control reader, output pumps
  exe, ctl, held, pump, pumped,
  \* child group and its pipes
  proc, code, wrote, tty, stdinOpen, eaten, sawEof

parentVars == <<load, typed, inClosed, sigSent>>
proxyVars  == <<prx, status, sigc, inPump, taken, got>>
bridgeVars == <<brg, upCopy, dnCopy, link>>
execVars   == <<exe, ctl, held, pump, pumped>>
childVars  == <<proc, code, wrote, tty, stdinOpen, eaten, sawEof>>
vars == <<parentVars, proxyVars, bridgeVars, up1, up2, dn1, dn2, execVars, childVars>>

----------------------------------------------------------------------------
(* execproto: frames on a byte stream.                                     *)

Hdr(tag)      == [tag |-> tag, part |-> "header", n |-> 0]
Body(n)       == [tag |-> "data", part |-> "body", n |-> n]
Whole(tag, n) == [tag |-> tag, part |-> "whole", n |-> n]

\* ReadFrame: the header, then as many bytes as it announces, whoever wrote
\* them: what is not the body it announces is no chunk (-1).
HasFrame(w) == w # <<>> /\ (Head(w).part = "whole" \/ Len(w) > 1)
Frame(w) ==
  IF Head(w).part = "whole" THEN Head(w)
  ELSE Whole(Head(w).tag, IF w[2].part = "body" THEN w[2].n ELSE -1)
Rest(w)     == IF Head(w).part = "whole" THEN Tail(w) ELSE Tail(Tail(w))

Room(w) == Len(w) < WireCap

----------------------------------------------------------------------------
Init ==
  /\ load \in Loads
  /\ typed = 0 /\ inClosed = FALSE /\ sigSent = 0
  /\ prx = "dial" /\ status = None /\ sigc = 0 /\ inPump = "read" /\ taken = 0
  /\ got = [s \in Outputs |-> <<>>]
  /\ brg = "none" /\ upCopy = "copy" /\ dnCopy = "copy" /\ link = "none"
  /\ up1 = <<>> /\ up2 = <<>> /\ dn1 = <<>> /\ dn2 = <<>>
  /\ exe = "none" /\ ctl = "none" /\ held = 0
  /\ pump = [s \in Outputs |-> "none"] /\ pumped = [s \in Outputs |-> 0]
  /\ proc = [p \in Procs |-> "none"] /\ code = None
  /\ wrote = [s \in Outputs |-> 0]
  /\ tty = <<>> /\ stdinOpen = FALSE /\ eaten = <<>> /\ sawEof = FALSE

----------------------------------------------------------------------------
(* The parent, which sees an ordinary child process.                       *)

Type ==
  /\ ~inClosed /\ typed < load.in
  /\ typed' = typed + 1
  /\ UNCHANGED <<load, inClosed, sigSent, proxyVars, bridgeVars, up1, up2, dn1, dn2,
                 execVars, childVars>>

CloseStdin ==
  /\ ~inClosed
  /\ inClosed' = TRUE
  /\ UNCHANGED <<load, typed, sigSent, proxyVars, bridgeVars, up1, up2, dn1, dn2,
                 execVars, childVars>>

ProxyExits(by, n) == prx' = "exited" /\ status' = [by |-> by, code |-> n]

\* SIGTERM: queued for the forwarder once signal.Notify has run, fatal before.
Signal ==
  /\ prx # "exited" /\ sigSent < load.signals
  /\ sigSent' = sigSent + 1
  /\ IF prx = "run"
       THEN sigc' = sigc + 1 /\ UNCHANGED <<prx, status>>
       ELSE ProxyExits("killed", 0) /\ UNCHANGED sigc
  /\ UNCHANGED <<load, typed, inClosed, inPump, taken, got, bridgeVars, up1, up2, dn1, dn2,
                 execVars, childVars>>

KillProxy ==
  /\ prx # "exited"
  /\ ProxyExits("killed", 0)
  /\ UNCHANGED <<parentVars, sigc, inPump, taken, got, bridgeVars, up1, up2, dn1, dn2,
                 execVars, childVars>>

----------------------------------------------------------------------------
(* The proxy: cmdSpawnProxy.                                               *)

\* The bridge accepts as soon as the proxy connects; no bridge, no child.
Dial ==
  /\ prx = "dial"
  /\ \/ prx' = "dialled" /\ brg' = "dial" /\ UNCHANGED status
     \/ ProxyExits("error", 127) /\ UNCHANGED brg
  /\ UNCHANGED <<parentVars, sigc, inPump, taken, got, upCopy, dnCopy, link,
                 up1, up2, dn1, dn2, execVars, childVars>>

SendSpawn ==
  /\ prx = "dialled"
  /\ IF brg = "done"
       THEN ProxyExits("error", 127) /\ UNCHANGED up1
       ELSE prx' = "sent" /\ up1' = Append(up1, Whole("spawn", 0)) /\ UNCHANGED status
  /\ UNCHANGED <<parentVars, sigc, inPump, taken, got, bridgeVars, up2, dn1, dn2,
                 execVars, childVars>>

\* signal.Notify, then the two goroutines and the main loop.
Notify ==
  /\ prx = "sent"
  /\ prx' = "run"
  /\ UNCHANGED <<parentVars, status, sigc, inPump, taken, got, bridgeVars,
                 up1, up2, dn1, dn2, execVars, childVars>>

\* Mutant of ProxyUnlocked: control frames are written without wmu.
NoProxyLock == TRUE
ProxyUnlocked == inPump # "body"

\* A write on the proxy's connection: it fails, unnoticed, once the bridge has
\* closed it.
ProxyWrite(t) ==
  IF brg = "done" THEN UNCHANGED up1 ELSE Room(up1) /\ up1' = Append(up1, t)

ForwardSignal ==
  /\ prx = "run" /\ sigc > 0 /\ ProxyUnlocked
  /\ ProxyWrite(Whole("signal", 0))
  /\ sigc' = sigc - 1
  /\ UNCHANGED <<parentVars, prx, status, inPump, taken, got, bridgeVars, up2, dn1, dn2,
                 execVars, childVars>>

\* Mutant of InputEnded: the end is noticed before the input that precedes it.
EndBeforeData == inClosed
InputEnded == inClosed /\ taken = typed

PumpStdin ==
  /\ prx = "run" /\ inPump = "read"
  /\ \/ /\ taken < typed
        /\ taken' = taken + 1
        /\ ProxyWrite(Hdr("stdin"))
        /\ inPump' = "body"
     \/ /\ InputEnded
        /\ ProxyWrite(Whole("stdin", 0))
        /\ inPump' = "done"
        /\ UNCHANGED taken
  /\ UNCHANGED <<parentVars, prx, status, sigc, got, bridgeVars, up2, dn1, dn2,
                 execVars, childVars>>

PumpStdinBody ==
  /\ prx = "run" /\ inPump = "body"
  /\ ProxyWrite(Body(taken))
  /\ inPump' = "read"
  /\ UNCHANGED <<parentVars, prx, status, sigc, taken, got, bridgeVars, up2, dn1, dn2,
                 execVars, childVars>>

\* Mutant of ExitStatus: the code is not reduced to a byte.
RawStatus(f) == f.n
ExitStatus(f) == f.n % 256

\* The main loop writes output through and ends with the exit frame.
MainFrame ==
  /\ prx = "run" /\ HasFrame(dn1)
  /\ dn1' = Rest(dn1)
  /\ LET f == Frame(dn1) IN
       /\ got' = IF f.tag \in Outputs THEN [got EXCEPT ![f.tag] = Append(@, f.n)] ELSE got
       /\ IF f.tag = "exit" THEN ProxyExits("exit", ExitStatus(f)) ELSE UNCHANGED <<prx, status>>
  /\ UNCHANGED <<parentVars, sigc, inPump, taken, bridgeVars, up1, up2, dn2,
                 execVars, childVars>>

\* Mutant of MainEof: the end of the stream is not noticed.
NeverEof == FALSE /\ UNCHANGED vars

\* The stream ends without an exit frame: io.EOF, also between a header and its
\* body, is success; a frame torn elsewhere, or a reset by a peer that closed
\* with unread data, is an error.
MainEof ==
  /\ prx = "run" /\ ~HasFrame(dn1) /\ dnCopy = "done"
  /\ \/ ProxyExits("eof", 0)
     \/ /\ dn1 # <<>> \/ link = "cut" \/ (up1 # <<>> /\ brg = "done")
        /\ ProxyExits("error", 127)
  /\ UNCHANGED <<parentVars, sigc, inPump, taken, got, bridgeVars, up1, up2, dn1, dn2,
                 execVars, childVars>>

----------------------------------------------------------------------------
(* The bridge: ExecBridge.handle and splice.                               *)

BridgeDial ==
  /\ brg = "dial"
  /\ \/ brg' = "splice" /\ link' = "up" /\ exe' = "header" /\ UNCHANGED <<upCopy, dnCopy>>
     \/ brg' = "done" /\ upCopy' = "done" /\ dnCopy' = "done" /\ UNCHANGED <<link, exe>>
  /\ UNCHANGED <<parentVars, proxyVars, up1, up2, dn1, dn2, ctl, held, pump, pumped,
                 childVars>>

CopyUp ==
  /\ brg = "splice" /\ upCopy = "copy" /\ up1 # <<>>
  /\ link = "up" /\ exe # "closed" /\ Room(up2)
  /\ up2' = Append(up2, Head(up1))
  /\ up1' = Tail(up1)
  /\ UNCHANGED <<parentVars, proxyVars, bridgeVars, dn1, dn2, execVars, childVars>>

\* Mutant of CopyUpEnds: the proxy's end of stream is not passed on.
HoldUpEnd == FALSE /\ UNCHANGED vars

\* End of the proxy's stream, or a failed write: CloseWrite on the other side.
CopyUpEnds ==
  /\ brg = "splice" /\ upCopy = "copy"
  /\ IF up1 = <<>> THEN prx = "exited" ELSE link = "cut" \/ exe = "closed"
  /\ upCopy' = "done"
  /\ UNCHANGED <<parentVars, proxyVars, brg, dnCopy, link, up1, up2, dn1, dn2,
                 execVars, childVars>>

CopyDown ==
  /\ brg = "splice" /\ dnCopy = "copy" /\ dn2 # <<>>
  /\ prx # "exited" /\ Room(dn1)
  /\ dn1' = Append(dn1, Head(dn2))
  /\ dn2' = Tail(dn2)
  /\ UNCHANGED <<parentVars, proxyVars, bridgeVars, up1, up2, execVars, childVars>>

CopyDownEnds ==
  /\ brg = "splice" /\ dnCopy = "copy"
  /\ IF dn2 = <<>> THEN exe = "closed" \/ link = "cut" ELSE prx = "exited"
  /\ dnCopy' = "done"
  /\ UNCHANGED <<parentVars, proxyVars, brg, upCopy, link, up1, up2, dn1, dn2,
                 execVars, childVars>>

BridgeCloses ==
  /\ brg = "splice" /\ upCopy = "done" /\ dnCopy = "done"
  /\ brg' = "done"
  /\ UNCHANGED <<parentVars, proxyVars, upCopy, dnCopy, link, up1, up2, dn1, dn2,
                 execVars, childVars>>

\* The transport breaks; what it was carrying arrives in part.
Cut ==
  /\ link = "up"
  /\ link' = "cut"
  /\ \E k \in 0..Len(up2) : up2' = SubSeq(up2, 1, k)
  /\ \E k \in 0..Len(dn2) : dn2' = SubSeq(dn2, 1, k)
  /\ UNCHANGED <<parentVars, proxyVars, brg, upCopy, dnCopy, up1, dn1, execVars, childVars>>

----------------------------------------------------------------------------
(* The executor: serveExec.                                                *)

\* Mutant of ExecUnlocked: the pumps write their frames without wmu.
NoExecLock == TRUE
ExecUnlocked == \A s \in Outputs : pump[s] # "body"

\* A write on the executor's stream; errors are ignored.
StreamWrite(t) ==
  IF link = "cut" \/ brg = "done" THEN UNCHANGED dn2 ELSE Room(dn2) /\ dn2' = Append(dn2, t)

Running(p) == proc[p] = "run"
GroupEnded == \A p \in Procs : ~Running(p)

\* The request: a process is started, or cannot be.
ReadSpawn ==
  /\ exe = "header" /\ HasFrame(up2)
  /\ up2' = Rest(up2)
  /\ \/ /\ exe' = "pumping" /\ ctl' = "read" /\ stdinOpen' = TRUE
        /\ pump' = [s \in Outputs |-> "read"]
        /\ proc' = [proc EXCEPT !["leader"] = "run"]
        /\ UNCHANGED dn2
     \/ /\ exe' = "closed" /\ StreamWrite(Whole("exit", 127))
        /\ UNCHANGED <<ctl, stdinOpen, pump, proc>>
  /\ UNCHANGED <<parentVars, proxyVars, bridgeVars, up1, dn1, held, pumped,
                 code, wrote, tty, eaten, sawEof>>

UpEnded == up2 = <<>> /\ (upCopy = "done" \/ link = "cut")

ReadSpawnFails ==
  /\ exe = "header" /\ UpEnded
  /\ exe' = "closed"
  /\ UNCHANGED <<parentVars, proxyVars, bridgeVars, up1, up2, dn1, dn2, ctl, held,
                 pump, pumped, childVars>>

\* Mutant of Group: only the leader is signalled.
LeaderOnly == {"leader"}
Group == Procs

\* The control reader: signals reach the whole group at once, stdin chunks go
\* through a pipe that may be full, an empty one closes it.
Control ==
  /\ ctl = "read" /\ HasFrame(up2)
  /\ up2' = Rest(up2)
  /\ LET f == Frame(up2) IN
     \/ /\ f.tag = "signal"
        /\ proc' = [p \in Procs |-> IF p \in Group \ Stubborn /\ Running(p)
                                      THEN "dead" ELSE proc[p]]
        /\ code' = IF Running("leader") /\ proc'["leader"] = "dead" THEN -1 ELSE code
        /\ UNCHANGED <<ctl, held, stdinOpen>>
     \/ /\ f.tag = "stdin" /\ f.n = 0
        /\ stdinOpen' = FALSE
        /\ UNCHANGED <<ctl, held, proc, code>>
     \/ /\ f.tag = "stdin" /\ f.n # 0
        /\ ctl' = "write" /\ held' = f.n
        /\ UNCHANGED <<proc, code, stdinOpen>>
  /\ UNCHANGED <<parentVars, proxyVars, bridgeVars, up1, dn1, dn2, exe, pump, pumped,
                 wrote, tty, eaten, sawEof>>

\* stdin.Write: it blocks on a full pipe, and fails, unnoticed, on a closed one
\* or one that nobody reads.
WriteStdin ==
  /\ ctl = "write"
  /\ IF ~stdinOpen \/ GroupEnded
       THEN UNCHANGED tty
       ELSE Len(tty) < PipeCap /\ tty' = Append(tty, held)
  /\ ctl' = "read" /\ held' = 0
  /\ UNCHANGED <<parentVars, proxyVars, bridgeVars, up1, up2, dn1, dn2, exe, pump, pumped,
                 proc, code, wrote, stdinOpen, eaten, sawEof>>

\* The proxy's stream ended or broke, or serveExec closed it: stdin is closed.
ControlEnds ==
  /\ ctl = "read"
  /\ exe = "closed" \/ (~HasFrame(up2) /\ (upCopy = "done" \/ link = "cut"))
  /\ ctl' = "done"
  /\ stdinOpen' = FALSE
  /\ UNCHANGED <<parentVars, proxyVars, bridgeVars, up1, up2, dn1, dn2, exe, held, pump,
                 pumped, proc, code, wrote, tty, eaten, sawEof>>

\* Mutant of HasOutput: output is collected until the group ends.
AllOutput(s) == pumped[s] < wrote[s] /\ GroupEnded
HasOutput(s) == pumped[s] < wrote[s]

PumpOut(s) ==
  /\ pump[s] = "read" /\ HasOutput(s) /\ ExecUnlocked
  /\ StreamWrite(Hdr(s))
  /\ pumped' = [pumped EXCEPT ![s] = @ + 1]
  /\ pump' = [pump EXCEPT ![s] = "body"]
  /\ UNCHANGED <<parentVars, proxyVars, bridgeVars, up1, up2, dn1, exe, ctl, held, childVars>>

PumpBody(s) ==
  /\ pump[s] = "body"
  /\ StreamWrite(Body(pumped[s]))
  /\ pump' = [pump EXCEPT ![s] = "read"]
  /\ UNCHANGED <<parentVars, proxyVars, bridgeVars, up1, up2, dn1, exe, ctl, held, pumped,
                 childVars>>

\* A pipe ends when the last process that holds it does.
PumpEnds(s) ==
  /\ pump[s] = "read" /\ pumped[s] = wrote[s] /\ GroupEnded
  /\ pump' = [pump EXCEPT ![s] = "done"]
  /\ UNCHANGED <<parentVars, proxyVars, bridgeVars, up1, up2, dn1, dn2, exe, ctl, held, pumped,
                 childVars>>

\* Mutant of PumpsDone: the child is reaped without waiting for its output.
NoWait == TRUE
PumpsDone == \A s \in Outputs : pump[s] = "done"

\* cmd.Wait, which closes the stdin pipe.
Reap ==
  /\ exe = "pumping" /\ PumpsDone /\ proc["leader"] = "dead"
  /\ exe' = "exiting"
  /\ stdinOpen' = FALSE
  /\ UNCHANGED <<parentVars, proxyVars, bridgeVars, up1, up2, dn1, dn2, ctl, held, pump, pumped,
                 proc, code, wrote, tty, eaten, sawEof>>

SendExit ==
  /\ exe = "exiting" /\ ExecUnlocked
  /\ StreamWrite(Whole("exit", code))
  /\ exe' = "closed"
  /\ UNCHANGED <<parentVars, proxyVars, bridgeVars, up1, up2, dn1, ctl, held, pump, pumped,
                 childVars>>

----------------------------------------------------------------------------
(* The process group: whatever programs do.                                *)

ChildWrites(s) ==
  /\ ~GroupEnded /\ wrote[s] < load.out[s] /\ wrote[s] - pumped[s] < PipeCap
  /\ wrote' = [wrote EXCEPT ![s] = @ + 1]
  /\ UNCHANGED <<parentVars, proxyVars, bridgeVars, up1, up2, dn1, dn2, execVars,
                 proc, code, tty, stdinOpen, eaten, sawEof>>

ChildReads ==
  /\ ~GroupEnded
  /\ \/ /\ tty # <<>>
        /\ eaten' = Append(eaten, Head(tty)) /\ tty' = Tail(tty)
        /\ UNCHANGED sawEof
     \/ /\ tty = <<>> /\ ~stdinOpen
        /\ sawEof' = TRUE
        /\ UNCHANGED <<eaten, tty>>
  /\ UNCHANGED <<parentVars, proxyVars, bridgeVars, up1, up2, dn1, dn2, execVars,
                 proc, code, wrote, stdinOpen>>

Fork ==
  /\ Running("leader") /\ proc["heir"] = "none"
  /\ proc' = [proc EXCEPT !["heir"] = "run"]
  /\ UNCHANGED <<parentVars, proxyVars, bridgeVars, up1, up2, dn1, dn2, execVars,
                 code, wrote, tty, stdinOpen, eaten, sawEof>>

ProcExits(p) ==
  /\ Running(p)
  /\ proc' = [proc EXCEPT ![p] = "dead"]
  /\ IF p = "leader" THEN code' \in Codes ELSE UNCHANGED code
  /\ UNCHANGED <<parentVars, proxyVars, bridgeVars, up1, up2, dn1, dn2, execVars,
                 wrote, tty, stdinOpen, eaten, sawEof>>

----------------------------------------------------------------------------
ProxyStep   == Dial \/ SendSpawn \/ Notify \/ MainFrame \/ MainEof
BridgeStep  == BridgeDial \/ BridgeCloses
UpStep      == CopyUp \/ CopyUpEnds
DownStep    == CopyDown \/ CopyDownEnds
ControlStep == Control \/ WriteStdin \/ ControlEnds
PumpStep(s) == PumpOut(s) \/ PumpBody(s) \/ PumpEnds(s)
ExecStep    == ReadSpawn \/ ReadSpawnFails \/ Reap \/ SendExit
StdinStep   == PumpStdin \/ PumpStdinBody

Next ==
  \/ Type \/ CloseStdin \/ Signal \/ KillProxy
  \/ ProxyStep \/ ForwardSignal \/ StdinStep
  \/ BridgeStep \/ UpStep \/ DownStep \/ Cut
  \/ ExecStep \/ ControlStep \/ \E s \in Outputs : PumpStep(s) \/ ChildWrites(s)
  \/ ChildReads \/ Fork \/ \E p \in Procs : ProcExits(p)

Spec == Init /\ [][Next]_vars

\* Goroutines run whenever they can.  Nothing makes the parent type, signal or
\* kill, the transport break, or the child read, write, fork or exit.
Fairness ==
  /\ WF_vars(ProxyStep) /\ WF_vars(ForwardSignal) /\ WF_vars(StdinStep)
  /\ WF_vars(BridgeStep) /\ WF_vars(UpStep) /\ WF_vars(DownStep)
  /\ WF_vars(ExecStep) /\ WF_vars(ControlStep)
  /\ \A s \in Outputs : WF_vars(PumpStep(s))

FairSpec == Spec /\ Fairness

----------------------------------------------------------------------------
(* Properties.                                                             *)

Wire == Seq([tag : {"spawn", "signal", "stdin", "stdout", "stderr", "exit", "data"},
             part : {"header", "body", "whole"}, n : Int])

\* Types of every variable, and the bounds of the buffers.
TypeOK ==
  /\ load \in Loads
  /\ typed \in 0..load.in /\ inClosed \in BOOLEAN /\ sigSent \in 0..load.signals
  /\ prx \in {"dial", "dialled", "sent", "run", "exited"}
  /\ status = None \/ status \in [by : {"exit", "eof", "error", "killed"}, code : 0..255]
  /\ sigc \in 0..load.signals /\ inPump \in {"read", "body", "done"} /\ taken \in 0..typed
  /\ got \in [Outputs -> Seq(Nat)]
  /\ brg \in {"none", "dial", "splice", "done"}
  /\ upCopy \in {"copy", "done"} /\ dnCopy \in {"copy", "done"}
  /\ link \in {"none", "up", "cut"}
  /\ \A w \in {up1, up2, dn1, dn2} : w \in Wire /\ Len(w) <= WireCap
  /\ exe \in {"none", "header", "pumping", "exiting", "closed"}
  /\ ctl \in {"none", "read", "write", "done"} /\ held \in 0..load.in
  /\ pump \in [Outputs -> {"none", "read", "body", "done"}]
  /\ \A s \in Outputs : wrote[s] \in 0..load.out[s] /\ pumped[s] \in 0..wrote[s]
  /\ proc \in [Procs -> {"none", "run", "dead"}]
  /\ code = None \/ code \in Codes \cup {-1}
  /\ tty \in Seq(1..load.in) /\ Len(tty) <= PipeCap
  /\ stdinOpen \in BOOLEAN /\ sawEof \in BOOLEAN /\ eaten \in Seq(1..load.in)

\* The first chunks of a stream, in order.
Counted(q) == \A i \in DOMAIN q : q[i] = i

\* Nothing of what flows either way is lost, repeated, reordered or mixed with
\* another frame: both readers of the parent's pipes see a prefix of what the
\* group wrote there, the group a prefix of what was typed (the two wmu, the
\* two writes of WriteChunk, splice).
InOrder ==
  /\ \A s \in Outputs : Counted(got[s]) /\ Len(got[s]) <= wrote[s]
  /\ Counted(eaten \o tty)

\* What the parent of a local process would see in its exit status.
StatusOf(c) == IF c = -1 THEN 255 ELSE c

\* The exit frame is the last word: when it ends the proxy, the parent has all
\* that the group ever wrote, the whole group is gone, and the status is the
\* leader's, or 127 if it never started (serveExec: wg.Wait, cmd.Wait, WriteExit).
ExitIsLast ==
  status # None /\ status.by = "exit" =>
    /\ GroupEnded
    /\ \A s \in Outputs : Len(got[s]) = wrote[s]
    /\ status.code = IF code = None THEN 127 ELSE StatusOf(code)

Intact == link = "up" /\ prx # "exited"

\* As long as the relay holds, the group sees the end of its input only after
\* the parent closed it and all of it was read.
EofAfterInput ==
  sawEof /\ Intact /\ exe \in {"pumping", "exiting"} /\ ~GroupEnded =>
    inClosed /\ Len(eaten) = typed

\* The proxy ends once there is nothing left to wait for: the group is gone, the
\* transport broke, or the executor or the bridge gave up.
Over ==
  \/ exe \in {"pumping", "exiting"} /\ GroupEnded
  \/ exe = "closed" \/ link = "cut" \/ brg = "done"
ProxyReturns == Over /\ prx = "run" ~> prx = "exited"

\* Output streams while its writer runs on: what was written reaches the parent
\* unless the relay breaks (bgtask_test.go, TestExecIncrementalOutput).
OutputStreams ==
  \A s \in Outputs : \A k \in UNION {1..l.out[s] : l \in Loads} :
    wrote[s] >= k ~> Len(got[s]) >= k \/ ~Intact

\* A killed or finished proxy, or a broken transport, closes the input of a
\* process left behind, unless its pipe is full of input it does not read.
OrphanSeesEof ==
  exe = "pumping" /\ ~Intact ~> ~stdinOpen \/ Len(tty) = PipeCap

\* A signal that reaches the executor ends the relay of a group that does not
\* resist it (exec.go:124-127).
KillEnds ==
  ctl = "read" /\ HasFrame(up2) /\ Frame(up2).tag = "signal" ~> 
    exe = "closed" \/ link = "cut"

\* The signals sent reach the executor, or the relay is over.
SignalsArrive ==
  sigc > 0 ~> Over \/ ~Intact \/ (sigc = 0 /\ \A w \in {up1, up2} : \A i \in DOMAIN w : w[i].tag # "signal")

\* "exits with the remote child's exit code": the proxy of a process that was
\* started reports that process's status, unless it is killed or reports an error
\* of its own.
ExitCodeIsChilds ==
  status # None /\ status.by \in {"exit", "eof"} /\ proc["leader"] # "none" =>
    code # None /\ status.code = StatusOf(code)
=============================================================================

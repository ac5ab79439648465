----------------------------- MODULE MCProgress ----------------------------
(***************************************************************************)
(* What must happen in the end: one routed subprocess (SpawnRelay), rca    *)
(* serve behind a relay (Serve) and one rca run session (Session).  They   *)
(* share no state, so that they run here one at a time: each behaviour     *)
(* starts with two of them at rest, where they have nothing left to do.    *)
(***************************************************************************)
EXTENDS Serve

CONSTANTS r1, c1, s1, d1

VARIABLES
  \* SpawnRelay; its code is the child's
  load, typed, inClosed, sigSent, prx, status, sigc, inPump, taken, got,
  brg, upCopy, dnCopy, link, up1, up2, dn1, dn2, exe, ctl, held, pump, pumped,
  proc, childs, wrote, tty, stdinOpen, eaten, sawEof,
  \* Session; its status is ended
  dest, tmp, bin, st, ended, q, sent, host, before, todo, step, mounted, created

spawnVars == <<load, typed, inClosed, sigSent, prx, status, sigc, inPump, taken, got, brg,
               upCopy, dnCopy, link, up1, up2, dn1, dn2, exe, ctl, held, pump, pumped,
               proc, childs, wrote, tty, stdinOpen, eaten, sawEof>>
sessionVars == <<dest, tmp, bin, st, ended, q, sent, host, before, todo, step, mounted,
                 created>>

\* One relay and one client.  A byte of a uvarint holds a digit to base 4; the ID and
\* the address through the relay are longer than one digit tells.
OneRelay  == {r1}
OneClient == {c1}
PeerId    == <<7, 7, 7, 7, 7>>
Address   == <<1>>
Through   == [r \in {r1} |-> <<2, 5, 0, 1, 3>>]

\* A line of output; a signal.
LineOrSignal ==
  {[in |-> 0, out |-> [s \in {"stdout", "stderr"} |-> IF s = "stdout" THEN n ELSE 0],
    signals |-> 1 - n] : n \in 0..1}

Spn == INSTANCE SpawnRelay WITH
  Loads <- LineOrSignal, WireCap <- 2, PipeCap <- 1, Codes <- {3}, Stubborn <- {},
  code <- childs

Ses == INSTANCE Session WITH
  Sessions <- {s1}, Dirs <- {d1}, Routed <- [s \in {s1} |-> <<d1>>], Codes <- {0, 3},
  MaxSignals <- 1, status <- ended

\* The bridge is not there: the proxy ended with 127.
SpawnAtRest ==
  /\ load = CHOOSE l \in LineOrSignal : TRUE
  /\ typed = 0 /\ inClosed = TRUE /\ sigSent = 0
  /\ prx = "exited" /\ status = [by |-> "error", code |-> 127]
  /\ sigc = 0 /\ inPump = "read" /\ taken = 0 /\ got = [s \in Spn!Outputs |-> <<>>]
  /\ brg = "none" /\ upCopy = "copy" /\ dnCopy = "copy" /\ link = "none"
  /\ up1 = <<>> /\ up2 = <<>> /\ dn1 = <<>> /\ dn2 = <<>>
  /\ exe = "none" /\ ctl = "none" /\ held = 0
  /\ pump = [s \in Spn!Outputs |-> "none"] /\ pumped = [s \in Spn!Outputs |-> 0]
  /\ proc = [p \in Spn!Procs |-> "none"] /\ childs = None /\ wrote = [s \in Spn!Outputs |-> 0]
  /\ tty = <<>> /\ stdinOpen = FALSE /\ eaten = <<>> /\ sawEof = FALSE

\* No relay granted a reservation, and the user's code was refused.
ServeAtRest ==
  /\ nat = TRUE /\ keyed = [r \in {r1} |-> FALSE]
  /\ up = [r \in {r1} |-> TRUE] /\ same = [r \in {r1} |-> TRUE] /\ left = [r \in {r1} |-> 0]
  /\ loop = [r \in {r1} |-> "given_up"] /\ timer = [r \in {r1} |-> 0]
  /\ fails = [r \in {r1} |-> 1] /\ dropped = [r \in {r1} |-> FALSE]
  /\ code = Encode(Advertised) /\ handlers = {} /\ queue = <<>>
  /\ pc = [c \in {c1} |-> "refused"] /\ info = [c \in {c1} |-> None]
  /\ try = [c \in {c1} |-> 1] /\ hint = [c \in {c1} |-> FALSE]
  /\ faults = MaxFaults

\* The supervisor could not be extracted.
SessionAtRest ==
  /\ dest = "none" /\ tmp = [s \in {s1} |-> "none"] /\ bin = [s \in {s1} |-> None]
  /\ st = [s \in {s1} |-> [p \in Ses!Procs |-> IF p = "rca" THEN "gone" ELSE "none"]]
  /\ ended = [s \in {s1} |-> [p \in Ses!Procs |-> IF p = "rca" THEN Ses!Exited(1) ELSE None]]
  /\ q = [s \in {s1} |-> [p \in Ses!Procs |-> 0]] /\ sent = 0
  /\ before = {} /\ host = {} /\ todo = [s \in {s1} |-> <<d1>>]
  /\ step = [s \in {s1} |-> "stat"]
  /\ mounted = [s \in {s1} |-> {}] /\ created = [s \in {s1} |-> {}]

ProgressInit ==
  \/ Spn!Init /\ ServeAtRest /\ SessionAtRest
  \/ SpawnAtRest /\ Init /\ SessionAtRest
  \/ SpawnAtRest /\ ServeAtRest /\ Ses!Init

ProgressNext ==
  \/ Spn!Next /\ UNCHANGED <<vars, sessionVars>>
  \/ Next /\ UNCHANGED <<spawnVars, sessionVars>>
  \/ Ses!Next /\ UNCHANGED <<spawnVars, vars>>

ProgressSpec ==
  /\ ProgressInit /\ [][ProgressNext]_<<spawnVars, vars, sessionVars>>
  /\ Spn!Fairness /\ Fairness /\ Ses!Fairness

\* Properties of SpawnRelay and of Session, stated there.
ProxyReturns  == Spn!ProxyReturns
OutputStreams == Spn!OutputStreams
OrphanSeesEof == Spn!OrphanSeesEof
KillEnds      == Spn!KillEnds
SignalEnds    == Ses!SignalEnds
=============================================================================

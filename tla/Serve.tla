------------------------------- MODULE Serve -------------------------------
(***************************************************************************)
(* rca serve behind relays, and the start of the sessions that pair with   *)
(* it: reservations and their refresh loops (ReserveRelays), the relays    *)
(* themselves (rca relay), the pairing code, the dial and the server-info  *)
(* probe of rca run, the listener's queue and the executor's accept loop.  *)
(*                                                                         *)
(* Time passes in half minutes, and only when every timer has been seen to.*)
(* What is counted down is the time left, so that there is no clock.       *)
(***************************************************************************)
EXTENDS RefreshTimes, PairCode, SequencesExt, FiniteSets

CONSTANTS
  Relays, Clients,
  HostId, Direct,  \* the bytes of the peer ID and of the direct address
  Circuit,         \* ... and of the address through each relay
  QueueCap,        \* streams the listener holds: 32
  MaxFaults,       \* bound of the relays' restarts and the network's failures
  None

ASSUME ServeAssumption ==
  /\ IsFiniteSet(Relays) /\ QueueCap \in Nat /\ MaxFaults \in Nat
  /\ {HostId, Direct} \cup {Circuit[r] : r \in Relays} \subseteq Bytes \ {<<>>}

Tries == 2         \* attempts of the probe

VARIABLES
  \* the world: whether the host is behind a NAT, which relays keep their key
  nat, keyed,
  \* relay: whether it runs, under the ID serve knows, the life of its reservation
  up, same, left,
  \* serve: refresh loop of each relay, its timer, failures since the last
  \* grant, whether the relay lost that grant, and the code that was printed
  loop, timer, fails, dropped, code,
  \* listener: stream handlers that wait for a place in the queue, the queue
  handlers, queue,
  \* rca run: progress, the decoded code, the attempt, the answer to the probe
  pc, info, try, hint,
  faults

worldVars  == <<nat, keyed>>
relayVars  == <<up, same, left>>
loopVars   == <<loop, timer, fails, dropped>>
acceptVars == <<handlers, queue>>
clientVars == <<pc, info, try, hint>>
vars == <<worldVars, relayVars, loopVars, code, acceptVars, clientVars, faults>>

Init ==
  /\ nat \in BOOLEAN /\ keyed \in [Relays -> BOOLEAN]
  /\ up \in [Relays -> BOOLEAN] /\ same = [r \in Relays |-> TRUE]
  /\ left = [r \in Relays |-> 0]
  /\ loop = [r \in Relays |-> "listed"] /\ timer = [r \in Relays |-> 0]
  /\ fails = [r \in Relays |-> 0] /\ dropped = [r \in Relays |-> FALSE]
  /\ code = None /\ handlers = {} /\ queue = <<>>
  /\ pc = [c \in Clients |-> "unpaired"] /\ info = [c \in Clients |-> None]
  /\ try = [c \in Clients |-> 1] /\ hint = [c \in Clients |-> FALSE]
  /\ faults = 0

----------------------------------------------------------------------------
(* The relays: rca relay.                                                  *)

Fault == faults < MaxFaults /\ faults' = faults + 1

\* Reservations live in the relay's memory.
RelayStops(r) ==
  /\ up[r] /\ Fault
  /\ up' = [up EXCEPT ![r] = FALSE] /\ left' = [left EXCEPT ![r] = 0]
  /\ dropped' = [dropped EXCEPT ![r] = TRUE]
  /\ UNCHANGED <<worldVars, same, loop, timer, fails, code, acceptVars, clientVars>>

\* relayIdentity: without RCA_RELAY_KEY every start has an identity of its own.
Identity(r) == keyed[r] /\ same[r]

RelayStarts(r) ==
  /\ ~up[r]
  /\ up' = [up EXCEPT ![r] = TRUE] /\ same' = [same EXCEPT ![r] = Identity(r)]
  /\ UNCHANGED <<worldVars, left, loopVars, code, acceptVars, clientVars, faults>>

----------------------------------------------------------------------------
(* ReserveRelays and refreshLoop.                                          *)

Trying(r) == loop[r] \in {"first", "refresh"}

SetTimer(r, state, t) ==
  loop' = [loop EXCEPT ![r] = state] /\ timer' = [timer EXCEPT ![r] = t]

\* The relays of the list one after the other; refresh loops of those that
\* answered run already.
FirstAttempt(r) ==
  /\ loop[r] = "listed" /\ \A q \in Relays : loop[q] # "first"
  /\ SetTimer(r, "first", Attempt)
  /\ UNCHANGED <<worldVars, relayVars, fails, dropped, code, acceptVars, clientVars, faults>>

Refresh(r) ==
  /\ loop[r] = "sleep" /\ timer[r] = 0
  /\ SetTimer(r, "refresh", Attempt)
  /\ UNCHANGED <<worldVars, relayVars, fails, dropped, code, acceptVars, clientVars, faults>>

Granted(r) ==
  /\ Trying(r) /\ up[r] /\ same[r]
  /\ left' = [left EXCEPT ![r] = TTL]
  /\ SetTimer(r, "sleep", Sleep(TTL + Skew))
  /\ fails' = [fails EXCEPT ![r] = 0] /\ dropped' = [dropped EXCEPT ![r] = FALSE]
  /\ UNCHANGED <<worldVars, up, same, code, acceptVars, clientVars, faults>>

\* Mutant of AfterFailure: the refresh loop gives up.
GiveUp(r) == SetTimer(r, "given_up", 0)
\* A relay whose first reservation failed is left alone from then on.
AfterFailure(r) ==
  IF loop[r] = "first" THEN SetTimer(r, "given_up", 0)
  ELSE SetTimer(r, "sleep", Sleep(RetryDelay))

CapFails(n) == IF n > Enough THEN Enough ELSE n

\* The relay is away, or answers under another identity, or the network fails.
Refused(r) ==
  /\ Trying(r)
  /\ IF up[r] /\ same[r] THEN Fault ELSE UNCHANGED faults
  /\ AfterFailure(r)
  /\ fails' = [fails EXCEPT ![r] = CapFails(@ + 1)]
  /\ UNCHANGED <<worldVars, relayVars, dropped, code, acceptVars, clientVars>>

\* No timer is late: a loop that sleeps starts, an attempt ends when its time is up.
Tick ==
  /\ \A r \in Relays : loop[r] = "sleep" \/ Trying(r) => timer[r] > 0
  /\ timer' = [r \in Relays |-> IF timer[r] > 0 THEN timer[r] - 1 ELSE 0]
  /\ left' = [r \in Relays |-> IF left[r] > 0 THEN left[r] - 1 ELSE 0]
  /\ UNCHANGED <<worldVars, up, same, loop, fails, dropped, code, acceptVars,
                 clientVars, faults>>

----------------------------------------------------------------------------
(* The pairing code.                                                       *)

\* The relays of the list that granted the first reservation.
Reserved == {r \in Relays : loop[r] \in {"sleep", "refresh"}}

Advertised == [id |-> HostId, addrs |-> <<Direct>> \o SetToSeq({Circuit[r] : r \in Reserved})]

\* printPairingCode; the stream handler is registered before.
PrintCode ==
  /\ code = None /\ \A r \in Relays : loop[r] \notin {"listed", "first"}
  /\ code' = Encode(Advertised)
  /\ UNCHANGED <<worldVars, relayVars, loopVars, acceptVars, clientVars, faults>>

\* What a user may paste: the code, a part of it, more than it, something else.
Pastes ==
  {[prefix |-> p, bytes |-> SubSeq(code.bytes, 1, k)] : p \in BOOLEAN, k \in 0..Len(code.bytes)}
  \cup {[prefix |-> TRUE, bytes |-> Append(code.bytes, 1)]}

----------------------------------------------------------------------------
(* rca run: decode, then probe the executor before the launch.             *)

Pair(c) ==
  /\ pc[c] = "unpaired" /\ code # None
  /\ \E p \in Pastes :
       LET d == Decode(p) IN
       IF d.ok THEN pc' = [pc EXCEPT ![c] = "dial"] /\ info' = [info EXCEPT ![c] = d]
       ELSE pc' = [pc EXCEPT ![c] = "refused"] /\ UNCHANGED info
  /\ UNCHANGED <<worldVars, relayVars, loopVars, code, acceptVars, try, hint, faults>>

\* A circuit address leads somewhere as long as the reservation lives.
Reachable(addr) ==
  \/ addr = Direct /\ ~nat
  \/ \E r \in Relays : addr = Circuit[r] /\ up[r] /\ same[r] /\ left[r] > 0

\* Dial, and the first request; the peer proves its identity.
Dial(c) ==
  /\ pc[c] = "dial"
  /\ info[c].id = HostId /\ \E i \in DOMAIN info[c].addrs : Reachable(info[c].addrs[i])
  /\ pc' = [pc EXCEPT ![c] = "open"]
  /\ handlers' = handlers \cup {<<c, try[c]>>}
  /\ UNCHANGED <<worldVars, relayVars, loopVars, code, queue, info, try, hint, faults>>

\* Mutant of NextTry: an attempt too many.
TryThrice(c) ==
  IF try[c] <= Tries
    THEN pc' = [pc EXCEPT ![c] = "dial"] /\ try' = [try EXCEPT ![c] = @ + 1]
    ELSE pc' = [pc EXCEPT ![c] = "launched"] /\ UNCHANGED try
\* Two attempts, and the launch goes on without the answer.
NextTry(c) ==
  IF try[c] < Tries
    THEN pc' = [pc EXCEPT ![c] = "dial"] /\ try' = [try EXCEPT ![c] = @ + 1]
    ELSE pc' = [pc EXCEPT ![c] = "launched"] /\ UNCHANGED try

\* The dial fails or runs into its deadline, or the stream breaks.
ProbeFails(c) ==
  /\ pc[c] \in {"dial", "open"}
  /\ NextTry(c)
  /\ UNCHANGED <<worldVars, relayVars, loopVars, code, acceptVars, info, hint, faults>>

----------------------------------------------------------------------------
(* The listener and the accept loop of the executor.                       *)

\* Mutant of Incoming: a full queue turns the stream away without a word.
IncomingOrDrop(s) ==
  handlers' = handlers \ {s} /\ queue' = IF Len(queue) < QueueCap THEN Append(queue, s) ELSE queue
\* The handler of a stream waits for a place.
Incoming(s) ==
  Len(queue) < QueueCap /\ handlers' = handlers \ {s} /\ queue' = Append(queue, s)

Handler(s) ==
  /\ s \in handlers
  /\ Incoming(s)
  /\ UNCHANGED <<worldVars, relayVars, loopVars, code, clientVars, faults>>

\* A goroutine per stream: it answers the probe, or finds the stream broken.
Accept ==
  /\ queue # <<>>
  /\ queue' = Tail(queue)
  /\ LET c == Head(queue)[1] IN
     IF pc[c] = "open" /\ Head(queue)[2] = try[c]
       THEN pc' = [pc EXCEPT ![c] = "launched"] /\ hint' = [hint EXCEPT ![c] = TRUE]
       ELSE UNCHANGED <<pc, hint>>
  /\ UNCHANGED <<worldVars, relayVars, loopVars, code, handlers, info, try, faults>>

----------------------------------------------------------------------------
LoopStep(r) == FirstAttempt(r) \/ Refresh(r) \/ Granted(r) \/ Refused(r)
Streams     == Clients \X (1..Tries)

Next ==
  \/ Tick \/ PrintCode \/ Accept
  \/ \E r \in Relays : LoopStep(r) \/ RelayStops(r) \/ RelayStarts(r)
  \/ \E c \in Clients : Pair(c) \/ Dial(c) \/ ProbeFails(c)
  \/ \E s \in Streams : Handler(s)

Spec == Init /\ [][Next]_vars

\* Time passes and the programs run; a relay that stopped is started again; a
\* stream breaks, and a user pairs, or not.
Fairness ==
  /\ WF_vars(Tick) /\ WF_vars(PrintCode) /\ WF_vars(Accept)
  /\ \A r \in Relays : WF_vars(LoopStep(r)) /\ WF_vars(RelayStarts(r))
  /\ \A c \in Clients : WF_vars(pc[c] = "dial" /\ (Dial(c) \/ ProbeFails(c)))
  /\ \A s \in Streams : WF_vars(Handler(s))

FairSpec == Spec /\ Fairness

----------------------------------------------------------------------------
(* Properties.                                                             *)

Timers    == 0..(TTL + Skew)
LoopState == {"listed", "first", "sleep", "refresh", "given_up"}

\* Types of every variable.
TypeOK ==
  /\ nat \in BOOLEAN /\ keyed \in [Relays -> BOOLEAN]
  /\ up \in [Relays -> BOOLEAN] /\ same \in [Relays -> BOOLEAN] /\ left \in [Relays -> 0..TTL]
  /\ loop \in [Relays -> LoopState] /\ timer \in [Relays -> Timers]
  /\ fails \in [Relays -> 0..Enough] /\ dropped \in [Relays -> BOOLEAN]
  /\ code = None \/ code \in [prefix : BOOLEAN, bytes : Bytes]
  /\ handlers \subseteq Streams /\ queue \in Seq(Streams) /\ Len(queue) <= QueueCap
  /\ pc \in [Clients -> {"unpaired", "refused", "dial", "open", "launched"}]
  /\ \A c \in Clients : info[c] = None \/ info[c].id \in Bytes
  /\ try \in [Clients -> 1..Tries] /\ hint \in [Clients -> BOOLEAN]
  /\ faults \in 0..MaxFaults

\* Serve holds a reservation it advertised as long as the relay keeps what it grants,
\* unless the refresh failed as often as fits in the margin: the margin, the shortest
\* sleep and the retry delay of refreshLoop add up.
LapseTakesFailures ==
  \A r \in Reserved : left[r] = 0 /\ ~dropped[r] => fails[r] >= Enough

\* Once restarts and failures are over, every relay in the pairing code that keeps its
\* key leads to serve again, and for ever, although it forgot the reservation and
\* nobody told serve (ReserveRelays, appendCircuitAddrs "a circuit addr for them would
\* be a dead end", RCA_RELAY_KEY).
StaysReachable ==
  \A r \in Relays :
    code # None /\ keyed[r] /\ (\E i \in DOMAIN Decode(code).addrs : Decode(code).addrs[i] = Circuit[r])
      ~> [](left[r] > 0 /\ up[r] /\ same[r])

\* A code that is accepted leads to the host that printed it and has all its
\* addresses: a part of a code, or more than a code, is refused (Encode, Decode).
CodeReadBack ==
  \A c \in Clients : info[c] # None =>
    info[c].id = HostId /\ info[c].addrs = Advertised.addrs

\* The probe delays the launch, it does not block it, as long as serve takes streams
\* from the listener: no stream gets lost between the handler, the queue and Accept.
ProbeEnds == \A c \in Clients : pc[c] = "dial" ~> pc[c] = "launched"
=============================================================================

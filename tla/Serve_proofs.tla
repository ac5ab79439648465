---------------------------- MODULE Serve_proofs ---------------------------
(***************************************************************************)
(* Proofs about Serve, for any number of relays, sessions, restarts and    *)
(* failures.                                                               *)
(*                                                                         *)
(* The times of the refresh loop add up, for every life of a reservation   *)
(* and every skew of the relay's clock that TimesAssumption admits.  A     *)
(* pairing code is read back, and no code is the beginning of another, for *)
(* every base, peer ID and list of addresses: what the recursive functions *)
(* of PairCode compute follows by induction.                               *)
(***************************************************************************)
EXTENDS Serve, RecursionTheorems, SequenceTheorems

\* The sleeps of refreshLoop in numbers: a grant outlasts the margin, and as many
\* failures as Enough less one fit in it.
LEMMA Times ==
  /\ TTL \in Nat /\ Skew \in Nat /\ Enough \in Nat /\ Enough >= 0
  /\ Sleep(TTL + Skew) = TTL + Skew - Margin
  /\ Sleep(RetryDelay) = MinSleep
  /\ Retry = 3 /\ 3 * Enough <= 11 - Skew
<1>1. TTL \in Nat /\ Skew \in Nat /\ TTL >= 12 /\ Skew <= 9
  BY TimesAssumption DEF Margin, MinSleep, Attempt
<1>2. Sleep(RetryDelay) = 2 /\ Retry = 3
  BY DEF Sleep, RetryDelay, Margin, MinSleep, Retry, Attempt
<1>3. Enough = (11 - Skew) \div 3
  BY <1>1, <1>2 DEF Enough, Margin
<1>4. Enough \in Nat /\ 3 * Enough <= 11 - Skew
  BY <1>1, <1>3
<1> QED
  BY <1>1, <1>2, <1>4 DEF Sleep, Margin, MinSleep

----------------------------------------------------------------------------
(* The refresh loop: the inductive invariant.                              *)

\* Types of what the refresh loops count.
LoopTypes ==
  /\ left \in [Relays -> Nat] /\ timer \in [Relays -> Nat] /\ fails \in [Relays -> Nat]
  /\ loop \in [Relays -> LoopState] /\ dropped \in [Relays -> BOOLEAN]

\* What is left of a reservation that the relay keeps: the margin, less the time the
\* failures so far have taken.
Margins ==
  \A r \in Relays : ~dropped[r] /\ fails[r] < Enough =>
    /\ loop[r] = "sleep"   => left[r] >= 10 - Skew - 3 * fails[r] + timer[r]
    /\ loop[r] = "refresh" => left[r] >= 9 - Skew - 3 * fails[r] + timer[r]

IInv == LoopTypes /\ Margins

\* The first attempts and the refreshes of one relay.
LEMMA LoopStepInv ==
  ASSUME IInv, NEW r \in Relays, LoopStep(r)
  PROVE  IInv'
<1> USE Times DEF IInv, LoopTypes, Margins, LoopState, SetTimer, relayVars
<1>1. CASE FirstAttempt(r)
  BY <1>1 DEF FirstAttempt, Attempt
<1>2. CASE Refresh(r)
  BY <1>2 DEF Refresh, Attempt
<1>3. CASE Granted(r)
  <2>0. Sleep(TTL + Skew) = TTL + Skew - 10 /\ TTL + Skew - 10 \in Nat
    BY TimesAssumption DEF Margin, MinSleep
  <2>1. /\ left' = [left EXCEPT ![r] = TTL] /\ loop' = [loop EXCEPT ![r] = "sleep"]
        /\ timer' = [timer EXCEPT ![r] = TTL + Skew - 10]
        /\ fails' = [fails EXCEPT ![r] = 0] /\ dropped' = [dropped EXCEPT ![r] = FALSE]
    BY <1>3, <2>0 DEF Granted
  <2>2. TTL >= 10 - Skew - 3 * 0 + (TTL + Skew - 10)
    OBVIOUS
  <2> QED
    BY <2>0, <2>1, <2>2
<1>4. CASE Refused(r)
  <2>1. UNCHANGED <<left, dropped>>
    BY <1>4 DEF Refused
  <2>2. fails' = [fails EXCEPT ![r] = CapFails(@ + 1)] /\ CapFails(fails[r] + 1) \in Nat
    BY <1>4 DEF Refused, CapFails
  <2>3. CASE loop[r] = "first"
    BY <1>4, <2>1, <2>2, <2>3 DEF Refused, AfterFailure
  <2>4. CASE loop[r] = "refresh"
    <3>1. loop' = [loop EXCEPT ![r] = "sleep"] /\ timer' = [timer EXCEPT ![r] = 2]
      BY <1>4, <2>4 DEF Refused, AfterFailure, MinSleep
    <3>2. CapFails(fails[r] + 1) < Enough => CapFails(fails[r] + 1) = fails[r] + 1
      BY DEF CapFails
    <3> QED
      BY <2>1, <2>2, <2>4, <3>1, <3>2
  <2> QED
    BY <1>4, <2>3, <2>4 DEF Refused, Trying
<1> QED
  BY <1>1, <1>2, <1>3, <1>4 DEF LoopStep

\* Half a minute passes.
LEMMA TickInv ==
  ASSUME IInv, Tick
  PROVE  IInv'
<1>1. /\ timer' = [r \in Relays |-> IF timer[r] > 0 THEN timer[r] - 1 ELSE 0]
      /\ left' = [r \in Relays |-> IF left[r] > 0 THEN left[r] - 1 ELSE 0]
      /\ UNCHANGED <<loop, fails, dropped>>
      /\ \A r \in Relays : loop[r] \in {"sleep", "refresh"} => timer[r] > 0
  BY DEF Tick, Trying
<1>2. LoopTypes'
  BY <1>1 DEF IInv, LoopTypes
<1>3. ASSUME NEW r \in Relays, ~dropped[r], fails[r] < Enough
      PROVE  /\ loop[r] = "sleep"   => left'[r] >= 10 - Skew - 3 * fails[r] + timer'[r]
             /\ loop[r] = "refresh" => left'[r] >= 9 - Skew - 3 * fails[r] + timer'[r]
  <2>1. left[r] \in Nat /\ timer[r] \in Nat /\ fails[r] \in Nat
    BY DEF IInv, LoopTypes
  <2>2. 3 * fails[r] <= 8 - Skew
    BY <1>3, <2>1, Times
  <2> QED
    BY <1>1, <1>3, <2>1, <2>2, Times DEF IInv, Margins
<1> QED
  BY <1>1, <1>2, <1>3 DEF IInv, Margins

\* Every step of the specification keeps the invariant.
LEMMA NextInv == IInv /\ [Next]_vars => IInv'
<1>1. ASSUME IInv, UNCHANGED <<left, loopVars>> PROVE IInv'
  BY <1>1 DEF IInv, LoopTypes, Margins, loopVars
<1>2. ASSUME IInv, NEW r \in Relays, RelayStops(r) PROVE IInv'
  BY <1>2 DEF RelayStops, IInv, LoopTypes, Margins
<1>3. ASSUME IInv, NEW r \in Relays, RelayStarts(r) PROVE IInv'
  BY <1>1, <1>3 DEF RelayStarts
<1>4. ASSUME IInv, PrintCode \/ Accept PROVE IInv'
  BY <1>1, <1>4 DEF PrintCode, Accept, relayVars
<1>5. ASSUME IInv, NEW c \in Clients, Pair(c) \/ Dial(c) \/ ProbeFails(c) PROVE IInv'
  BY <1>1, <1>5 DEF Pair, Dial, ProbeFails, relayVars
<1>6. ASSUME IInv, NEW s \in Streams, Handler(s) PROVE IInv'
  BY <1>1, <1>6 DEF Handler, relayVars
<1>7. ASSUME IInv, UNCHANGED vars PROVE IInv'
  BY <1>1, <1>7 DEF vars, relayVars
<1> QED
  BY <1>2, <1>3, <1>4, <1>5, <1>6, <1>7, LoopStepInv, TickInv DEF Next

----------------------------------------------------------------------------
(* The refresh loop: the theorem.                                          *)

\* A reservation the relay keeps does not lapse before the refresh failed as often as
\* fits in the margin, whatever the relay grants and however its clock is set.
THEOREM LapseHolds == Spec => []LapseTakesFailures
<1>1. Init => IInv
  BY DEF Init, IInv, LoopTypes, Margins, LoopState
<1>2. IInv => LapseTakesFailures
  <2> SUFFICES ASSUME IInv, NEW r \in Reserved, left[r] = 0, ~dropped[r], fails[r] < Enough
               PROVE  FALSE
    BY Times DEF IInv, LoopTypes, LapseTakesFailures, Reserved
  <2>1. r \in Relays /\ loop[r] \in {"sleep", "refresh"}
    BY DEF Reserved
  <2>2. timer[r] \in Nat /\ fails[r] \in Nat
    BY <2>1 DEF IInv, LoopTypes
  <2>3. 3 * fails[r] <= 8 - Skew
    BY <2>2, Times
  <2> QED
    BY <2>1, <2>2, <2>3, Times DEF IInv, Margins
<1> QED
  BY <1>1, <1>2, NextInv, PTL DEF Spec

----------------------------------------------------------------------------
(* Digits.                                                                 *)

Byte == 0..(2 * Base - 1)

\* Division by the base of the digits.
LEMMA Division ==
  ASSUME NEW n \in Nat
  PROVE  /\ n \div Base \in Nat /\ n % Base \in 0..(Base - 1)
         /\ n = Base * (n \div Base) + (n % Base)
         /\ n >= Base => n \div Base < n
<1> DEFINE q == n \div Base
<1>1. Base \in Nat /\ Base >= 2
  BY BaseAssumption
<1>2. q \in Nat /\ n % Base \in 0..(Base - 1) /\ n = Base * q + (n % Base)
  BY <1>1
<1>3. n >= Base => q < n
  <2> HIDE DEF q
  <2>1. q = 0 \/ 2 * q <= Base * q
    BY <1>1, <1>2
  <2> QED
    BY <1>1, <1>2, <2>1
<1> QED
  BY <1>2, <1>3

\* What Uvarint computes is a sequence of bytes, by the equation it is defined with.
LEMMA UvarintDef ==
  ASSUME NEW n \in Nat
  PROVE  /\ Uvarint[n] \in Bytes
         /\ n < Base => Uvarint[n] = <<n>>
         /\ n >= Base => Uvarint[n] = <<Base + (n % Base)>> \o Uvarint[n \div Base]
<1> DEFINE stop == {k \in Nat : k < Base}
           base == [k \in Nat |-> IF k < Base THEN <<k>> ELSE <<>>]
           prev == [k \in Nat |-> k \div Base]
           step == [p \in Nat \X Bytes |-> <<Base + (p[1] % Base)>> \o p[2]]
           m    == [k \in Nat |-> k]
           Body(f) == [k \in Nat |->
             IF k < Base THEN <<k>> ELSE <<Base + (k % Base)>> \o f[k \div Base]]
<1>1. Descends(Nat, stop, m, prev)
  BY Division, BaseAssumption DEF Descends
<1>2. base \in [Nat -> Bytes]
  <2>1. \A k \in Nat : k < Base => <<k>> \in Bytes
    BY BaseAssumption DEF Bytes
  <2>2. <<>> \in Bytes
    BY DEF Bytes
  <2> QED
    BY <2>1, <2>2
<1>3. step \in [Nat \X Bytes -> Bytes]
  <2>1. ASSUME NEW k \in Nat, NEW s \in Bytes PROVE <<Base + (k % Base)>> \o s \in Bytes
    <3>1. Base + (k % Base) \in 0..(2 * Base - 1)
      BY Division, BaseAssumption
    <3> QED
      BY <3>1 DEF Bytes
  <2> QED
    BY <2>1
<1>4. PICK f : Computes(f, Nat, Bytes, stop, base, prev, step)
  <2> HIDE DEF m, base, prev, step, stop
  <2> QED
    BY <1>1, <1>2, <1>3, Recursion
<1>5. \A g : g = Body(g) => Equation(g, Nat, Bytes, stop, base, prev, step)
  <2> TAKE g
  <2>1. HAVE g = Body(g)
  <2>2. ASSUME NEW k \in Nat, k \notin stop, g[prev[k]] \in Bytes
        PROVE  g[k] = step[<<k, g[prev[k]]>>]
    <3>1. prev[k] = k \div Base /\ <<k, g[prev[k]]>> \in Nat \X Bytes
      BY <2>2
    <3>2. g[k] = <<Base + (k % Base)>> \o g[k \div Base]
      BY <2>1, <2>2, BaseAssumption
    <3> QED
      BY <3>1, <3>2
  <2>3. ASSUME NEW k \in stop PROVE g[k] = base[k]
    BY <2>1, <2>3
  <2> HIDE DEF base, prev, step, stop
  <2> QED
    BY <2>2, <2>3 DEF Computes, Equation
<1>6. f = Body(f)
  <2>1. f \in [Nat -> Bytes]
    BY <1>4 DEF Computes
  <2>2. ASSUME NEW k \in Nat PROVE f[k] = Body(f)[k]
    <3>1. f[k] = IF k \in stop THEN base[k] ELSE step[<<k, f[prev[k]]>>]
      BY <1>4 DEF Computes
    <3>2. k \div Base \in Nat
      BY Division
    <3> QED
      BY <2>1, <3>1, <3>2
  <2> HIDE DEF base, prev, step, stop
  <2> QED
    BY <2>1, <2>2
<1>7. Uvarint = Body(Uvarint)
  BY <1>6 DEF Uvarint
<1>8. Uvarint[n] = f[n]
  BY <1>4, <1>5, <1>7 DEF Computes
<1>9. Uvarint[n] \in Bytes
  BY <1>4, <1>8 DEF Computes
<1>10. Uvarint[n] = IF n < Base THEN <<n>> ELSE <<Base + (n % Base)>> \o Uvarint[n \div Base]
  BY <1>7
<1> HIDE DEF Body
<1> QED
  BY <1>9, <1>10, BaseAssumption

\* What ReadUvarint returns.
Number(n, rest) == [ok |-> TRUE, n |-> n, rest |-> rest]
Numbers == {Failed} \cup {Number(n, rest) : n \in Nat, rest \in Bytes}

\* The first byte of a buffer, and what the buffer is without it.
LEMMA FirstByte ==
  ASSUME NEW buf \in Bytes, buf # <<>>
  PROVE  /\ Head(buf) \in Byte /\ Tail(buf) \in Bytes /\ Len(Tail(buf)) < Len(buf)
         /\ buf = <<Head(buf)>> \o Tail(buf)
<1>1. buf \in Seq(Byte)
  BY DEF Byte, Bytes
<1>2. Head(buf) \in Byte /\ Tail(buf) \in Seq(Byte) /\ Len(buf) \in Nat
      /\ Len(Tail(buf)) = Len(buf) - 1
  <2> HIDE DEF Byte
  <2> QED
    BY <1>1
<1>3. buf = <<Head(buf)>> \o Tail(buf)
  <2> HIDE DEF Byte
  <2> QED
    BY <1>1
<1> QED
  BY <1>2, <1>3 DEF Byte, Bytes

\* What ReadUvarint computes, by the equation it is defined with.
LEMMA ReadUvarintDef ==
  ASSUME NEW buf \in Bytes
  PROVE  /\ ReadUvarint[buf] \in Numbers
         /\ ReadUvarint[buf] =
              IF buf = <<>> THEN Failed
              ELSE IF Head(buf) < Base THEN Number(Head(buf), Tail(buf))
              ELSE IF ~ReadUvarint[Tail(buf)].ok THEN Failed
              ELSE Number(Head(buf) - Base + Base * ReadUvarint[Tail(buf)].n,
                          ReadUvarint[Tail(buf)].rest)
<1> DEFINE stop == {b \in Bytes : b = <<>> \/ Head(b) < Base}
           base == [b \in Bytes |-> IF b = <<>> THEN Failed
                                    ELSE IF Head(b) < Base THEN Number(Head(b), Tail(b))
                                    ELSE Failed]
           prev == [b \in Bytes |-> IF b = <<>> THEN <<>> ELSE Tail(b)]
           More(b, r) == IF ~r.ok THEN Failed ELSE Number(Head(b) - Base + Base * r.n, r.rest)
           step == [p \in Bytes \X Numbers |-> IF p[1] \in stop THEN Failed ELSE More(p[1], p[2])]
           m    == [b \in Bytes |-> Len(b)]
           Body(f) == [b \in Bytes |-> IF b = <<>> THEN Failed
                                       ELSE IF Head(b) < Base THEN Number(Head(b), Tail(b))
                                       ELSE More(b, f[Tail(b)])]
<1>1. Descends(Bytes, stop, m, prev)
  <2>1. \A b \in Bytes : Len(b) \in Nat
    BY DEF Bytes
  <2>2. <<>> \in Bytes
    BY DEF Bytes
  <2> QED
    BY <2>1, <2>2, FirstByte DEF Descends
<1>2. base \in [Bytes -> Numbers]
  <2>1. \A b \in Bytes : b # <<>> => Head(b) \in Nat /\ Tail(b) \in Bytes
    <3>1. Byte \subseteq Nat
      BY BaseAssumption DEF Byte
    <3> QED
      BY <3>1, FirstByte
  <2> QED
    BY <2>1 DEF Numbers
<1>3. step \in [Bytes \X Numbers -> Numbers]
  <2>1. ASSUME NEW b \in Bytes, b \notin stop, NEW r \in Numbers PROVE More(b, r) \in Numbers
    <3>1. CASE r = Failed
      <4>1. ~Failed.ok
        BY DEF Failed
      <4>2. More(b, Failed) = Failed
        BY <4>1
      <4> QED
        BY <3>1, <4>2 DEF Numbers
    <3>2. CASE r # Failed
      <4>1. PICK n \in Nat, rest \in Bytes : r = Number(n, rest)
        BY <3>2 DEF Numbers
      <4>2. r.ok /\ r.n = n /\ r.rest = rest
        BY <4>1 DEF Number
      <4>3. Head(b) - Base + Base * n \in Nat
        <5>1. Head(b) \in Byte /\ ~(Head(b) < Base)
          BY <2>1, FirstByte
        <5>2. Base * n \in Nat
          BY BaseAssumption
        <5> QED
          BY <5>1, <5>2, BaseAssumption DEF Byte
      <4> QED
        BY <4>2, <4>3 DEF Numbers
    <3> QED
      BY <3>1, <3>2
  <2>2. Failed \in Numbers
    BY DEF Numbers
  <2> HIDE DEF More, stop
  <2> QED
    BY <2>1, <2>2
<1>4. PICK f : Computes(f, Bytes, Numbers, stop, base, prev, step)
  <2> HIDE DEF m, base, prev, step, stop
  <2> QED
    BY <1>1, <1>2, <1>3, Recursion
<1>5. \A g : g = Body(g) => Equation(g, Bytes, Numbers, stop, base, prev, step)
  <2> TAKE g
  <2>1. HAVE g = Body(g)
  <2>2. ASSUME NEW b \in Bytes, b \notin stop, g[prev[b]] \in Numbers
        PROVE  g[b] = step[<<b, g[prev[b]]>>]
    <3>1. prev[b] = Tail(b) /\ <<b, g[prev[b]]>> \in Bytes \X Numbers
      BY <2>2
    <3>2. g[b] = More(b, g[Tail(b)])
      BY <2>1, <2>2
    <3> HIDE DEF More
    <3> QED
      BY <2>2, <3>1, <3>2
  <2>3. ASSUME NEW b \in stop PROVE g[b] = base[b]
    BY <2>1, <2>3
  <2> HIDE DEF base, prev, step, stop
  <2> QED
    BY <2>2, <2>3 DEF Equation
<1>6. f = Body(f)
  <2>1. f \in [Bytes -> Numbers]
    BY <1>4 DEF Computes
  <2>2. ASSUME NEW b \in Bytes PROVE f[b] = Body(f)[b]
    <3>1. f[b] = IF b \in stop THEN base[b] ELSE step[<<b, f[prev[b]]>>]
      BY <1>4 DEF Computes
    <3>2. prev[b] \in Bytes
      BY <1>1 DEF Descends
    <3>3. f[prev[b]] \in Numbers
      BY <2>1, <3>2
    <3> HIDE DEF More
    <3> QED
      BY <3>1, <3>3
  <2> HIDE DEF base, prev, step, stop, More
  <2> QED
    BY <2>1, <2>2
<1>7. ReadUvarint = Body(ReadUvarint)
  BY <1>6 DEF ReadUvarint, Number
<1>8. ReadUvarint[buf] = f[buf]
  BY <1>4, <1>5, <1>7 DEF Computes
<1>9. ReadUvarint[buf] \in Numbers
  BY <1>4, <1>8 DEF Computes
<1>10. ReadUvarint[buf] = Body(ReadUvarint)[buf]
  BY <1>7
<1> QED
  BY <1>9, <1>10

\* Sequences of bytes one after the other.
LEMMA ConcatBytes ==
  ASSUME NEW a \in Bytes, NEW b \in Bytes
  PROVE  /\ a \o b \in Bytes /\ Len(a \o b) = Len(a) + Len(b)
         /\ Len(a) \in Nat /\ Len(b) \in Nat
         /\ a \o <<>> = a /\ <<>> \o a = a
  BY DEF Bytes

LEMMA ConcatAgain ==
  ASSUME NEW a \in Bytes, NEW b \in Bytes, NEW c \in Bytes
  PROVE  (a \o b) \o c = a \o (b \o c)
  BY DEF Bytes

LEMMA ConcatFirst ==
  ASSUME NEW a \in Bytes, a # <<>>, NEW b \in Bytes
  PROVE  a \o b # <<>> /\ Head(a \o b) = Head(a) /\ Tail(a \o b) = Tail(a) \o b
  BY DEF Bytes

\* The fields of a number that was read.
LEMMA NumberFields ==
  ASSUME NEW n, NEW rest
  PROVE  /\ Number(n, rest).ok /\ Number(n, rest).n = n /\ Number(n, rest).rest = rest
         /\ ~Failed.ok /\ Number(n, rest) # Failed
<1>1. Number(n, rest).ok /\ Number(n, rest).n = n /\ Number(n, rest).rest = rest
  BY DEF Number
<1>2. ~Failed.ok
  BY DEF Failed
<1> QED
  BY <1>1, <1>2

\* The cases of ReadUvarint.
LEMMA ReadCases ==
  ASSUME NEW buf \in Bytes
  PROVE  /\ ReadUvarint[buf].ok =>
              buf # <<>> /\ (~(Head(buf) < Base) => ReadUvarint[Tail(buf)].ok)
         /\ buf # <<>> /\ Head(buf) < Base => ReadUvarint[buf] = Number(Head(buf), Tail(buf))
         /\ \A n, rest :
              buf # <<>> /\ ~(Head(buf) < Base) /\ ReadUvarint[Tail(buf)] = Number(n, rest)
                => ReadUvarint[buf] = Number(Head(buf) - Base + Base * n, rest)
<1> DEFINE r == ReadUvarint[buf]
           t == ReadUvarint[Tail(buf)]
<1>1. r = IF buf = <<>> THEN Failed
          ELSE IF Head(buf) < Base THEN Number(Head(buf), Tail(buf))
          ELSE IF ~t.ok THEN Failed ELSE Number(Head(buf) - Base + Base * t.n, t.rest)
  BY ReadUvarintDef
<1> HIDE DEF r, t
<1>2. r.ok => buf # <<>> /\ (~(Head(buf) < Base) => t.ok)
  BY <1>1, NumberFields
<1>3. ASSUME NEW n, NEW rest, t = Number(n, rest), buf # <<>>, ~(Head(buf) < Base)
      PROVE  r = Number(Head(buf) - Base + Base * n, rest)
  <2>1. t.ok /\ t.n = n /\ t.rest = rest
    BY <1>3, NumberFields
  <2> QED
    BY <1>1, <1>3, <2>1
<1> QED
  BY <1>1, <1>2, <1>3 DEF r, t

\* A number is read back, and what follows it is left.
LEMMA ReadBack ==
  ASSUME NEW n \in Nat, NEW rest \in Bytes
  PROVE  ReadUvarint[Uvarint[n] \o rest] = Number(n, rest)
<1> DEFINE Q == {k \in Nat : ReadUvarint[Uvarint[k] \o rest] # Number(k, rest)}
<1>1. SUFFICES ASSUME Q # {} PROVE FALSE
  OBVIOUS
<1>2. PICK k \in Q : \A j \in Q : k <= j
  <2>1. Q \in SUBSET Nat
    OBVIOUS
  <2> HIDE DEF Q
  <2> QED
    BY <1>1, <2>1, LeastNumber
<1>3. CASE k < Base
  <2>1. Uvarint[k] = <<k>>
    BY <1>3, UvarintDef
  <2>2. <<k>> \in Bytes /\ <<k>> # <<>> /\ Head(<<k>>) = k /\ Tail(<<k>>) = <<>>
    <3>1. <<k>> \in Bytes
      BY <2>1, UvarintDef
    <3> QED
      BY <3>1
  <2>3. /\ <<k>> \o rest \in Bytes /\ <<k>> \o rest # <<>>
        /\ Head(<<k>> \o rest) = k /\ Tail(<<k>> \o rest) = rest
    <3> DEFINE s == <<k>>
    <3>1. s \in Bytes /\ s # <<>> /\ Head(s) = k /\ Tail(s) = <<>>
      BY <2>2
    <3> HIDE DEF s
    <3>2. s \o rest \in Bytes /\ <<>> \o rest = rest
      BY <3>1, ConcatBytes
    <3>3. s \o rest # <<>> /\ Head(s \o rest) = k /\ Tail(s \o rest) = rest
      BY <3>1, <3>2, ConcatFirst
    <3> QED
      BY <3>2, <3>3 DEF s
  <2> QED
    BY <1>3, <2>1, <2>3, ReadUvarintDef
<1>4. CASE k >= Base
  <2> DEFINE q == k \div Base
             d == Base + (k % Base)
  <2>1. /\ q \in Nat /\ d \in Nat /\ d >= Base /\ q < k
        /\ (d - Base) + Base * q = k
    BY <1>4, Division, BaseAssumption
  <2>2. Uvarint[k] = <<d>> \o Uvarint[q] /\ Uvarint[k] \in Bytes /\ Uvarint[q] \in Bytes
    BY <1>4, <2>1, UvarintDef
  <2> HIDE DEF q, d
  <2>3. Uvarint[k] # <<>> /\ Head(Uvarint[k]) = d /\ Tail(Uvarint[k]) = Uvarint[q]
    BY <2>1, <2>2 DEF Bytes
  <2>4. /\ Uvarint[k] \o rest \in Bytes /\ Uvarint[k] \o rest # <<>>
        /\ Head(Uvarint[k] \o rest) = d /\ Tail(Uvarint[k] \o rest) = Uvarint[q] \o rest
    <3> DEFINE s == Uvarint[k]
    <3>1. s \in Bytes /\ s # <<>> /\ Head(s) = d /\ Tail(s) = Uvarint[q]
      BY <2>2, <2>3
    <3> HIDE DEF s
    <3>2. s \o rest \in Bytes
      BY <3>1, ConcatBytes
    <3>3. s \o rest # <<>> /\ Head(s \o rest) = d /\ Tail(s \o rest) = Uvarint[q] \o rest
      BY <3>1, ConcatFirst
    <3> QED
      BY <3>2, <3>3 DEF s
  <2>5. ReadUvarint[Uvarint[q] \o rest] = Number(q, rest)
    BY <1>2, <2>1
  <2>6. ~(d < Base)
    BY <2>1, BaseAssumption
  <2>7. ReadUvarint[Uvarint[k] \o rest] = Number(d - Base + Base * q, rest)
    <3> DEFINE s == Uvarint[k] \o rest
    <3>1. s \in Bytes /\ s # <<>> /\ Head(s) = d /\ ReadUvarint[Tail(s)] = Number(q, rest)
      BY <2>4, <2>5
    <3> HIDE DEF s
    <3>2. ReadUvarint[s] = Number(Head(s) - Base + Base * q, rest)
      BY <2>6, <3>1, ReadCases
    <3> QED
      BY <3>1, <3>2 DEF s
  <2> QED
    BY <2>1, <2>7
<1> QED
  BY <1>3, <1>4, BaseAssumption

\* A number that was read is read again if more follows.
LEMMA ReadFurther ==
  ASSUME NEW buf \in Bytes, ReadUvarint[buf].ok, NEW more \in Bytes
  PROVE  ReadUvarint[buf \o more] = Number(ReadUvarint[buf].n, ReadUvarint[buf].rest \o more)
<1> DEFINE Same(b) == ReadUvarint[b \o more] = Number(ReadUvarint[b].n, ReadUvarint[b].rest \o more)
           Q == {k \in Nat : \E b \in Bytes : Len(b) = k /\ ReadUvarint[b].ok /\ ~Same(b)}
<1>1. SUFFICES ASSUME Q # {} PROVE FALSE
  <2>1. Len(buf) \in Nat
    BY ConcatBytes
  <2> QED
    BY <2>1
<1>2. PICK k \in Q : \A j \in Q : k <= j
  <2>1. Q \in SUBSET Nat
    OBVIOUS
  <2> HIDE DEF Q
  <2> QED
    BY <1>1, <2>1, LeastNumber
<1>3. PICK b \in Bytes : Len(b) = k /\ ReadUvarint[b].ok /\ ~Same(b)
  BY <1>2
<1>4. b # <<>>
  BY <1>3, ReadUvarintDef, NumberFields
<1>5. /\ b \o more \in Bytes /\ b \o more # <<>>
      /\ Head(b \o more) = Head(b) /\ Tail(b \o more) = Tail(b) \o more
  BY <1>4, ConcatBytes, ConcatFirst
<1>6. Tail(b) \in Bytes /\ Len(Tail(b)) \in Nat /\ Len(Tail(b)) < k
  BY <1>3, <1>4, FirstByte, ConcatBytes
<1>7. CASE Head(b) < Base
  <2>1. ReadUvarint[b] = Number(Head(b), Tail(b))
    BY <1>4, <1>7, ReadCases
  <2>2. ReadUvarint[b \o more] = Number(Head(b), Tail(b) \o more)
    BY <1>5, <1>7, ReadCases
  <2> QED
    BY <1>3, <2>1, <2>2, NumberFields
<1>8. CASE ~(Head(b) < Base)
  <2>1. ReadUvarint[Tail(b)].ok
    BY <1>3, <1>4, <1>8, ReadCases
  <2>2. Same(Tail(b))
    <3>1. SUFFICES ASSUME ~Same(Tail(b)) PROVE FALSE
      OBVIOUS
    <3>2. Len(Tail(b)) \in Q
      BY <1>6, <2>1, <3>1
    <3> QED
      BY <1>2, <1>6, <3>2
  <2>3. PICK n \in Nat, rest \in Bytes : ReadUvarint[Tail(b)] = Number(n, rest)
    BY <1>6, <2>1, ReadUvarintDef, NumberFields DEF Numbers
  <2>4. ReadUvarint[b] = Number(Head(b) - Base + Base * n, rest)
    BY <1>4, <1>8, <2>3, ReadCases
  <2>5. ReadUvarint[Tail(b) \o more] = Number(n, rest \o more)
    BY <2>2, <2>3, NumberFields
  <2>6. ReadUvarint[b \o more] = Number(Head(b) - Base + Base * n, rest \o more)
    <3> DEFINE s == b \o more
    <3>1. /\ s \in Bytes /\ s # <<>> /\ Head(s) = Head(b)
          /\ ReadUvarint[Tail(s)] = Number(n, rest \o more)
      BY <1>5, <2>5
    <3> HIDE DEF s
    <3>2. ReadUvarint[s] = Number(Head(s) - Base + Base * n, rest \o more)
      BY <1>8, <3>1, ReadCases
    <3> QED
      BY <3>1, <3>2 DEF s
  <2> QED
    BY <1>3, <2>4, <2>6, NumberFields
<1> QED
  BY <1>7, <1>8

----------------------------------------------------------------------------
(* Chunks: a length and as many bytes.                                     *)

\* What ReadChunk returns.
Piece(chunk, rest) == [ok |-> TRUE, chunk |-> chunk, rest |-> rest]

\* The fields of a chunk that was read.
LEMMA PieceFields ==
  ASSUME NEW chunk, NEW rest
  PROVE  /\ Piece(chunk, rest).ok /\ Piece(chunk, rest).chunk = chunk
         /\ Piece(chunk, rest).rest = rest
  BY DEF Piece

\* Equal results have equal parts.
LEMMA PiecesEqual ==
  ASSUME NEW c, NEW r, NEW d, NEW s, Piece(c, r) = Piece(d, s)
  PROVE  c = d /\ r = s
<1> DEFINE p == Piece(c, r)
<1>1. p.chunk = c /\ p.rest = r
  BY PieceFields
<1>2. p.chunk = d /\ p.rest = s
  BY PieceFields
<1> QED
  BY <1>1, <1>2

\* Sequences cut where they were joined.
LEMMA Cut ==
  ASSUME NEW a \in Bytes, NEW b \in Bytes
  PROVE  /\ SubSeq(a \o b, 1, Len(a)) = a
         /\ SubSeq(a \o b, Len(a) + 1, Len(a \o b)) = b
<1> a \in Seq(Byte) /\ b \in Seq(Byte)
  BY DEF Bytes, Byte
<1> HIDE DEF Byte
<1>1. SubSeq(a \o b, 1, Len(a)) = a
  OBVIOUS
<1>2. SubSeq(a \o b, Len(a) + 1, Len(a \o b)) = b
  OBVIOUS
<1> QED
  BY <1>1, <1>2

\* A sequence cut in two, also when another follows it.
LEMMA CutFurther ==
  ASSUME NEW a \in Bytes, NEW b \in Bytes, NEW n \in Nat, n <= Len(a)
  PROVE  /\ SubSeq(a, 1, n) \in Bytes /\ SubSeq(a, n + 1, Len(a)) \in Bytes
         /\ a = SubSeq(a, 1, n) \o SubSeq(a, n + 1, Len(a))
         /\ SubSeq(a \o b, 1, n) = SubSeq(a, 1, n)
         /\ SubSeq(a \o b, n + 1, Len(a \o b)) = SubSeq(a, n + 1, Len(a)) \o b
<1> a \in Seq(Byte) /\ b \in Seq(Byte)
  BY DEF Bytes, Byte
<1> DEFINE u == SubSeq(a, 1, n)
           v == SubSeq(a, n + 1, Len(a))
<1>1. u \in Seq(Byte) /\ v \in Seq(Byte) /\ Len(u) = n /\ Len(v) = Len(a) - n
  <2> HIDE DEF Byte
  <2> QED
    OBVIOUS
<1>2. a = u \o v
  <2>1. /\ Len(a) \in Nat /\ 1 \in 1..(Len(a) + 1) /\ n \in 0..Len(a)
        /\ Len(a) \in n..Len(a) /\ 1 - 1 = 0
    BY ConcatBytes
  <2> HIDE DEF Byte
  <2>2. u \o v = SubSeq(a, 1, Len(a))
    BY <2>1, ConcatAdjacentSubSeq
  <2> QED
    BY <2>2, SubSeqFull
<1>3. u \in Bytes /\ v \in Bytes
  BY <1>1 DEF Bytes, Byte
<1> HIDE DEF u, v
<1>4. v \o b \in Bytes /\ (u \o v) \o b = u \o (v \o b)
  <2>1. v \o b \in Bytes
    BY <1>3, ConcatBytes
  <2>2. (u \o v) \o b = u \o (v \o b)
    BY <1>3, ConcatAgain
  <2> QED
    BY <2>1, <2>2
<1>5. SubSeq(a \o b, 1, n) = u /\ SubSeq(a \o b, n + 1, Len(a \o b)) = v \o b
  <2> DEFINE w == v \o b
  <2>1. w \in Bytes /\ a \o b = u \o w
    BY <1>2, <1>4
  <2> HIDE DEF w
  <2>2. SubSeq(u \o w, 1, n) = u /\ SubSeq(u \o w, n + 1, Len(u \o w)) = w
    BY <1>1, <1>3, <2>1, Cut
  <2> QED
    BY <2>1, <2>2 DEF w
<1> QED
  BY <1>2, <1>3, <1>5 DEF u, v

\* The cases of ReadChunk.
LEMMA ChunkCases ==
  ASSUME NEW buf \in Bytes
  PROVE  /\ ReadChunk(buf) = Failed \/ \E c, r \in Bytes : ReadChunk(buf) = Piece(c, r)
         /\ ReadChunk(buf).ok =>
              \E n \in Nat : \E r \in Bytes : ReadUvarint[buf] = Number(n, r) /\ n <= Len(r)
         /\ \A n \in Nat : \A r \in Bytes :
              ReadUvarint[buf] = Number(n, r) /\ n <= Len(r) =>
                ReadChunk(buf) = Piece(SubSeq(r, 1, n), SubSeq(r, n + 1, Len(r)))
<1> DEFINE u == ReadUvarint[buf]
<1>1. ReadChunk(buf) = IF ~u.ok THEN Failed
                       ELSE IF Len(u.rest) < u.n THEN Failed
                       ELSE Piece(SubSeq(u.rest, 1, u.n), SubSeq(u.rest, u.n + 1, Len(u.rest)))
  BY DEF ReadChunk, Piece
<1>2. u = Failed \/ \E n \in Nat, r \in Bytes : u = Number(n, r)
  BY ReadUvarintDef DEF Numbers
<1> HIDE DEF u
<1>3. CASE u = Failed
  <2>1. ReadChunk(buf) = Failed /\ ~Failed.ok
    BY <1>1, <1>3, NumberFields
  <2>2. \A n, r : u # Number(n, r)
    BY <1>3, NumberFields
  <2> QED
    BY <2>1, <2>2 DEF u
<1>4. ASSUME NEW n \in Nat, NEW r \in Bytes, u = Number(n, r)
      PROVE  /\ Len(r) < n => ReadChunk(buf) = Failed
             /\ n <= Len(r) => ReadChunk(buf) = Piece(SubSeq(r, 1, n), SubSeq(r, n + 1, Len(r)))
  <2>1. u.ok /\ u.n = n /\ u.rest = r
    BY <1>4, NumberFields
  <2>2. Len(r) \in Nat
    BY ConcatBytes
  <2> QED
    BY <1>1, <2>1, <2>2
<1>5. CASE u # Failed
  <2>1. PICK n \in Nat, r \in Bytes : u = Number(n, r)
    BY <1>2, <1>5
  <2>2. CASE Len(r) < n
    <3>1. ReadChunk(buf) = Failed /\ ~Failed.ok
      BY <1>4, <2>1, <2>2, NumberFields
    <3>2. \A k, s : u = Number(k, s) => k = n /\ s = r
      <4> TAKE k, s
      <4>1. u.n = n /\ u.rest = r
        BY <2>1, NumberFields
      <4> QED
        BY <4>1, NumberFields
    <3>3. ~(n <= Len(r))
      BY <2>2, ConcatBytes
    <3> QED
      BY <3>1, <3>2, <3>3 DEF u
  <2>3. CASE ~(Len(r) < n)
    <3>1. n <= Len(r)
      BY <2>3, ConcatBytes
    <3>2. SubSeq(r, 1, n) \in Bytes /\ SubSeq(r, n + 1, Len(r)) \in Bytes
      BY <3>1, CutFurther
    <3> QED
      BY <1>4, <2>1, <3>1, <3>2 DEF u
  <2> QED
    BY <2>2, <2>3
<1> QED
  BY <1>3, <1>5

\* A chunk is read back, and what follows it is left.
LEMMA ChunkBack ==
  ASSUME NEW b \in Bytes, NEW rest \in Bytes
  PROVE  Chunk(b) \in Bytes /\ ReadChunk(Chunk(b) \o rest) = Piece(b, rest)
<1> DEFINE s == b \o rest
           u == Uvarint[Len(b)]
<1>1. Len(b) \in Nat /\ s \in Bytes /\ Len(s) = Len(b) + Len(rest) /\ Len(rest) \in Nat
  BY ConcatBytes
<1>2. u \in Bytes
  BY <1>1, UvarintDef
<1>3. SubSeq(s, 1, Len(b)) = b /\ SubSeq(s, Len(b) + 1, Len(s)) = rest
  BY Cut
<1>4. ReadUvarint[u \o s] = Number(Len(b), s)
  BY <1>1, ReadBack
<1>5. Chunk(b) \in Bytes /\ Chunk(b) \o rest = u \o s /\ u \o s \in Bytes
  <2>1. Chunk(b) = u \o b
    BY DEF Chunk
  <2> HIDE DEF u, s
  <2>2. u \o b \in Bytes /\ u \o s \in Bytes
    BY <1>1, <1>2, ConcatBytes
  <2>3. (u \o b) \o rest = u \o (b \o rest)
    BY <1>2, ConcatAgain
  <2> QED
    BY <2>1, <2>2, <2>3 DEF s
<1> HIDE DEF u, s
<1>6. ReadChunk(u \o s) = Piece(SubSeq(s, 1, Len(b)), SubSeq(s, Len(b) + 1, Len(s)))
  <2> DEFINE t == u \o s
             n == Len(b)
  <2>1. t \in Bytes /\ ReadUvarint[t] = Number(n, s) /\ n \in Nat /\ s \in Bytes /\ n <= Len(s)
    BY <1>1, <1>4, <1>5
  <2> HIDE DEF t, n
  <2>2. ReadChunk(t) = Piece(SubSeq(s, 1, n), SubSeq(s, n + 1, Len(s)))
    BY <2>1, ChunkCases
  <2> QED
    BY <2>2 DEF t, n
<1> QED
  BY <1>3, <1>5, <1>6

\* A chunk that was read is read again if more follows.
LEMMA ChunkFurther ==
  ASSUME NEW buf \in Bytes, NEW c, NEW r, ReadChunk(buf) = Piece(c, r), NEW more \in Bytes
  PROVE  ReadChunk(buf \o more) = Piece(c, r \o more)
<1>1. PICK n \in Nat, s \in Bytes : ReadUvarint[buf] = Number(n, s) /\ n <= Len(s)
  BY PieceFields, ChunkCases
<1>2. c = SubSeq(s, 1, n) /\ r = SubSeq(s, n + 1, Len(s))
  <2>1. ReadChunk(buf) = Piece(SubSeq(s, 1, n), SubSeq(s, n + 1, Len(s)))
    BY <1>1, ChunkCases
  <2> DEFINE x == SubSeq(s, 1, n)
             y == SubSeq(s, n + 1, Len(s))
  <2>2. Piece(c, r) = Piece(x, y)
    BY <2>1
  <2> HIDE DEF x, y
  <2>3. c = x /\ r = y
    BY <2>2, PiecesEqual
  <2> QED
    BY <2>3 DEF x, y
<1>3. ReadUvarint[buf \o more] = Number(n, s \o more) /\ buf \o more \in Bytes
  <2>1. ReadUvarint[buf].ok /\ ReadUvarint[buf].n = n /\ ReadUvarint[buf].rest = s
    BY <1>1, NumberFields
  <2> QED
    BY <2>1, ReadFurther, ConcatBytes
<1>4. s \o more \in Bytes /\ n <= Len(s \o more)
  BY <1>1, ConcatBytes
<1>5. SubSeq(s \o more, 1, n) = c /\ SubSeq(s \o more, n + 1, Len(s \o more)) = r \o more
  BY <1>1, <1>2, CutFurther
<1> DEFINE t == s \o more
           d == buf \o more
<1> HIDE DEF t, d
<1>6. ReadChunk(d) = Piece(SubSeq(t, 1, n), SubSeq(t, n + 1, Len(t)))
  BY <1>3, <1>4, ChunkCases DEF t, d
<1> QED
  BY <1>5, <1>6 DEF t, d

----------------------------------------------------------------------------
(* The loops over the addresses.                                           *)

\* What the loop of Encode has written after each turn.
LEMMA ChunksDef ==
  ASSUME NEW addrs \in Seq(Bytes)
  PROVE  \E w \in [0..Len(addrs) -> Bytes] :
           /\ Chunks(addrs) = w[Len(addrs)] /\ w[0] = <<>>
           /\ \A i \in 1..Len(addrs) : w[i] = w[i - 1] \o Chunk(addrs[i])
<1> DEFINE S == 0..Len(addrs)
           stop == {0}
           base == [i \in S |-> <<>>]
           prev == [i \in S |-> IF i = 0 THEN 0 ELSE i - 1]
           step == [p \in S \X Bytes |-> IF p[1] = 0 THEN <<>> ELSE p[2] \o Chunk(addrs[p[1]])]
           m    == [i \in S |-> i]
           Body(f) == [i \in S |-> IF i = 0 THEN <<>> ELSE f[i - 1] \o Chunk(addrs[i])]
<1>0. Len(addrs) \in Nat /\ <<>> \in Bytes
  BY DEF Bytes
<1>1. Descends(S, stop, m, prev)
  BY <1>0 DEF Descends
<1>2. base \in [S -> Bytes]
  BY <1>0
<1>3. step \in [S \X Bytes -> Bytes]
  <2>1. ASSUME NEW i \in S, i # 0, NEW b \in Bytes PROVE b \o Chunk(addrs[i]) \in Bytes
    <3>1. addrs[i] \in Bytes
      BY <1>0, <2>1
    <3>2. Chunk(addrs[i]) \in Bytes
      BY <1>0, <3>1, ChunkBack
    <3> QED
      BY <3>2, ConcatBytes
  <2> QED
    BY <1>0, <2>1
<1>4. PICK f : Computes(f, S, Bytes, stop, base, prev, step)
  <2> HIDE DEF m, base, prev, step, stop, S
  <2> QED
    BY <1>1, <1>2, <1>3, Recursion
<1>5. ASSUME NEW g, g = Body(g) PROVE Equation(g, S, Bytes, stop, base, prev, step)
  <2>1. ASSUME NEW i \in S, i \notin stop, g[prev[i]] \in Bytes PROVE g[i] = step[<<i, g[prev[i]]>>]
    <3>1. prev[i] = i - 1 /\ <<i, g[prev[i]]>> \in S \X Bytes
      BY <2>1
    <3>2. g[i] = g[i - 1] \o Chunk(addrs[i])
      BY <1>5, <2>1
    <3> QED
      BY <2>1, <3>1, <3>2
  <2>2. ASSUME NEW i \in stop PROVE g[i] = base[i]
    BY <1>0, <1>5, <2>2
  <2> HIDE DEF base, prev, step, stop, S
  <2> QED
    BY <2>1, <2>2 DEF Equation
<1>6. f = Body(f)
  <2>1. f \in [S -> Bytes]
    BY <1>4 DEF Computes
  <2>2. ASSUME NEW i \in S PROVE f[i] = Body(f)[i]
    <3>1. f[i] = IF i \in stop THEN base[i] ELSE step[<<i, f[prev[i]]>>]
      BY <1>4 DEF Computes
    <3>2. i # 0 => prev[i] = i - 1 /\ i - 1 \in S
      OBVIOUS
    <3> QED
      BY <2>1, <3>1, <3>2
  <2> HIDE DEF base, prev, step, stop, S
  <2> QED
    BY <2>1, <2>2
<1> DEFINE w == CHOOSE g : g = Body(g)
<1>7. w = Body(w)
  BY <1>6
<1>8. Chunks(addrs) = w[Len(addrs)]
  BY DEF Chunks
<1> HIDE DEF w
<1>9. \A i \in S : w[i] = f[i]
  BY <1>4, <1>5, <1>7 DEF Computes
<1>10. w \in [S -> Bytes]
  BY <1>4, <1>7, <1>9 DEF Computes
<1>11. w[0] = <<>> /\ \A i \in 1..Len(addrs) : w[i] = w[i - 1] \o Chunk(addrs[i])
  BY <1>0, <1>7
<1> QED
  BY <1>8, <1>10, <1>11

\* What Decode's loop returns.
State(rest, addrs) == [ok |-> TRUE, rest |-> rest, addrs |-> addrs]
States == {Failed} \cup {State(rest, addrs) : rest \in Bytes, addrs \in Seq(Bytes)}

\* The fields of a state, and the parts of equal ones.
LEMMA StateFields ==
  ASSUME NEW rest, NEW addrs
  PROVE  /\ State(rest, addrs).ok /\ State(rest, addrs).rest = rest
         /\ State(rest, addrs).addrs = addrs
  BY DEF State

LEMMA StatesEqual ==
  ASSUME NEW r, NEW a, NEW s, NEW b, State(r, a) = State(s, b)
  PROVE  r = s /\ a = b
<1> DEFINE p == State(r, a)
<1>1. p.rest = r /\ p.addrs = a
  BY StateFields
<1>2. p.rest = s /\ p.addrs = b
  BY StateFields
<1> QED
  BY <1>1, <1>2

\* The cases of a turn of Decode's loop.
LEMMA AddrCases ==
  /\ ReadAddr(Failed) = Failed
  /\ \A rest \in Bytes : \A addrs \in Seq(Bytes) :
       \/ ReadAddr(State(rest, addrs)) = Failed
       \/ \E c, r \in Bytes : /\ ReadChunk(rest) = Piece(c, r) /\ c # <<>>
                              /\ ReadAddr(State(rest, addrs)) = State(r, Append(addrs, c))
  /\ \A rest, addrs, c, r :
       ReadChunk(rest) = Piece(c, r) /\ c # <<>> =>
         ReadAddr(State(rest, addrs)) = State(r, Append(addrs, c))
<1>1. ReadAddr(Failed) = Failed
  BY NumberFields DEF ReadAddr
<1>2. ASSUME NEW rest, NEW addrs, NEW c, NEW r, ReadChunk(rest) = Piece(c, r), c # <<>>
      PROVE  ReadAddr(State(rest, addrs)) = State(r, Append(addrs, c))
  <2> DEFINE s == State(rest, addrs)
             p == ReadChunk(rest)
  <2>1. s.ok /\ s.rest = rest /\ s.addrs = addrs
    BY StateFields
  <2>2. p.ok /\ p.chunk = c /\ p.rest = r
    BY <1>2, PieceFields
  <2>3. ReadAddr(s) = IF ~s.ok THEN Failed ELSE IF ~ReadChunk(s.rest).ok THEN Failed
                      ELSE IF ~Parses(ReadChunk(s.rest).chunk) THEN Failed
                      ELSE State(ReadChunk(s.rest).rest, Append(s.addrs, ReadChunk(s.rest).chunk))
    BY DEF ReadAddr, State
  <2> HIDE DEF s, p
  <2>4. ReadAddr(s) = State(r, Append(addrs, c))
    BY <1>2, <2>1, <2>2, <2>3 DEF p, Parses
  <2> QED
    BY <2>4 DEF s
<1>3. ASSUME NEW rest \in Bytes, NEW addrs \in Seq(Bytes), ReadAddr(State(rest, addrs)) # Failed
      PROVE  \E c, r \in Bytes : ReadChunk(rest) = Piece(c, r) /\ c # <<>>
  <2> DEFINE s == State(rest, addrs)
             p == ReadChunk(rest)
  <2>1. s.rest = rest
    BY StateFields
  <2>2. ReadAddr(s) # Failed => p.ok /\ p.chunk # <<>>
    BY <2>1 DEF ReadAddr, Parses
  <2>3. p # Failed
    BY <1>3, <2>2, NumberFields
  <2>4. PICK c \in Bytes, r \in Bytes : p = Piece(c, r)
    BY <2>3, ChunkCases
  <2>5. p.chunk = c
    BY <2>4, PieceFields
  <2> QED
    BY <1>3, <2>2, <2>4, <2>5
<1>4. ASSUME NEW rest \in Bytes, NEW addrs \in Seq(Bytes), ReadAddr(State(rest, addrs)) # Failed
      PROVE  \E c, r \in Bytes : /\ ReadChunk(rest) = Piece(c, r) /\ c # <<>>
                                 /\ ReadAddr(State(rest, addrs)) = State(r, Append(addrs, c))
  BY <1>2, <1>3, <1>4
<1> QED
  BY <1>1, <1>2, <1>4

\* States of the loop.
LEMMA StateType ==
  ASSUME NEW rest \in Bytes, NEW addrs \in Seq(Bytes)
  PROVE  State(rest, addrs) \in States
  BY DEF States

\* A turn of the loop leads from state to state.
LEMMA ReadAddrType ==
  ASSUME NEW s \in States
  PROVE  ReadAddr(s) \in States
<1>1. CASE s = Failed
  BY <1>1, AddrCases
<1>2. CASE s # Failed
  <2>1. PICK rest \in Bytes, addrs \in Seq(Bytes) : s = State(rest, addrs)
    BY <1>2 DEF States
  <2>2. CASE ReadAddr(s) = Failed
    BY <2>2 DEF States
  <2>3. CASE ReadAddr(s) # Failed
    <3>1. PICK c \in Bytes, r \in Bytes : ReadAddr(s) = State(r, Append(addrs, c))
      BY <2>1, <2>3, AddrCases
    <3>2. Append(addrs, c) \in Seq(Bytes)
      OBVIOUS
    <3> QED
      BY <3>1, <3>2, StateType
  <2> QED
    BY <2>2, <2>3
<1> QED
  BY <1>1, <1>2

\* The states the loop of Decode goes through.
LEMMA ReadAddrsDef ==
  ASSUME NEW buf \in Bytes
  PROVE  /\ ReadAddrs(buf, 0) = State(buf, <<>>)
         /\ \A i \in Nat : /\ ReadAddrs(buf, i) \in States
                           /\ ReadAddrs(buf, i + 1) = ReadAddr(ReadAddrs(buf, i))
<1> DEFINE start == State(buf, <<>>)
           stop == {0}
           base == [i \in Nat |-> start]
           prev == [i \in Nat |-> IF i = 0 THEN 0 ELSE i - 1]
           step == [p \in Nat \X States |-> ReadAddr(p[2])]
           m    == [i \in Nat |-> i]
           Body(f) == [i \in Nat |-> IF i = 0 THEN start ELSE ReadAddr(f[i - 1])]
<1>1. Descends(Nat, stop, m, prev)
  BY DEF Descends
<1>2. base \in [Nat -> States]
  <2>1. <<>> \in Seq(Bytes)
    OBVIOUS
  <2> QED
    BY <2>1, StateType
<1>3. step \in [Nat \X States -> States]
  BY ReadAddrType
<1>4. PICK f : Computes(f, Nat, States, stop, base, prev, step)
  <2> HIDE DEF m, base, prev, step, stop
  <2> QED
    BY <1>1, <1>2, <1>3, Recursion
<1>5. ASSUME NEW g, g = Body(g) PROVE Equation(g, Nat, States, stop, base, prev, step)
  <2> HIDE DEF start
  <2>1. ASSUME NEW i \in Nat, i \notin stop, g[prev[i]] \in States
        PROVE  g[i] = step[<<i, g[prev[i]]>>]
    <3>1. prev[i] = i - 1 /\ <<i, g[prev[i]]>> \in Nat \X States
      BY <2>1
    <3>2. g[i] = ReadAddr(g[i - 1])
      BY <1>5, <2>1
    <3> QED
      BY <2>1, <3>1, <3>2
  <2>2. ASSUME NEW i \in stop PROVE g[i] = base[i]
    BY <1>5, <2>2
  <2> HIDE DEF base, prev, step, stop
  <2> QED
    BY <2>1, <2>2 DEF Equation
<1>6. f = Body(f)
  <2> HIDE DEF start
  <2>1. f \in [Nat -> States]
    BY <1>4 DEF Computes
  <2>2. ASSUME NEW i \in Nat PROVE f[i] = Body(f)[i]
    <3>1. f[i] = IF i \in stop THEN base[i] ELSE step[<<i, f[prev[i]]>>]
      BY <1>4 DEF Computes
    <3>2. i # 0 => prev[i] = i - 1 /\ i - 1 \in Nat
      OBVIOUS
    <3> QED
      BY <2>1, <3>1, <3>2
  <2> HIDE DEF base, prev, step, stop
  <2> QED
    BY <2>1, <2>2
<1> DEFINE w == CHOOSE g : g = Body(g)
<1>7. w = Body(w)
  BY <1>6
<1>8. \A i : ReadAddrs(buf, i) = w[i]
  BY DEF ReadAddrs, State
<1> HIDE DEF w
<1>9. \A i \in Nat : w[i] = f[i]
  BY <1>4, <1>5, <1>7 DEF Computes
<1>10. \A i \in Nat : w[i] \in States
  BY <1>4, <1>9 DEF Computes
<1> HIDE DEF start
<1>11. w[0] = start /\ \A i \in Nat : w[i + 1] = ReadAddr(w[i])
  <2>1. \A i \in Nat : i + 1 \in Nat /\ i + 1 # 0 /\ (i + 1) - 1 = i
    OBVIOUS
  <2> QED
    BY <1>7, <2>1
<1> QED
  BY <1>8, <1>10, <1>11 DEF start

\* Addresses that were read are read again if more follows.
LEMMA AddrsFurther ==
  ASSUME NEW buf \in Bytes, NEW more \in Bytes
  PROVE  \A i \in Nat : \A r \in Bytes : \A a \in Seq(Bytes) :
           ReadAddrs(buf, i) = State(r, a) => ReadAddrs(buf \o more, i) = State(r \o more, a)
<1> DEFINE all == buf \o more
           P == {i \in Nat : \A r \in Bytes : \A a \in Seq(Bytes) :
                   ReadAddrs(buf, i) = State(r, a) => ReadAddrs(all, i) = State(r \o more, a)}
<1>1. all \in Bytes
  BY ConcatBytes
<1>2. 0 \in P
  <2>1. ASSUME NEW r \in Bytes, NEW a \in Seq(Bytes), ReadAddrs(buf, 0) = State(r, a)
        PROVE  ReadAddrs(all, 0) = State(r \o more, a)
    <3>1. r = buf /\ a = <<>>
      BY <2>1, ReadAddrsDef, StatesEqual
    <3>2. ReadAddrs(all, 0) = State(all, <<>>)
      BY <1>1, ReadAddrsDef
    <3> QED
      BY <3>1, <3>2
  <2> QED
    BY <2>1
<1>3. ASSUME NEW i \in P PROVE i + 1 \in P
  <2>1. ASSUME NEW r \in Bytes, NEW a \in Seq(Bytes), ReadAddrs(buf, i + 1) = State(r, a)
        PROVE  ReadAddrs(all, i + 1) = State(r \o more, a)
    <3>1. ReadAddr(ReadAddrs(buf, i)) = State(r, a) /\ ReadAddrs(buf, i) \in States
      BY <2>1, ReadAddrsDef
    <3>2. State(r, a) # Failed
      BY StateFields, NumberFields
    <3>3. PICK q \in Bytes, b \in Seq(Bytes) : ReadAddrs(buf, i) = State(q, b)
      BY <3>1, <3>2, AddrCases DEF States
    <3>4. PICK c \in Bytes, s \in Bytes :
            ReadChunk(q) = Piece(c, s) /\ c # <<>> /\ State(r, a) = State(s, Append(b, c))
      BY <3>1, <3>2, <3>3, AddrCases
    <3>5. r = s /\ a = Append(b, c)
      <4> DEFINE d == Append(b, c)
      <4>1. State(r, a) = State(s, d)
        BY <3>4
      <4> HIDE DEF d
      <4>2. r = s /\ a = d
        BY <4>1, StatesEqual
      <4> QED
        BY <4>2 DEF d
    <3>6. ReadAddrs(all, i) = State(q \o more, b)
      BY <3>3
    <3>7. ReadChunk(q \o more) = Piece(c, s \o more)
      BY <3>4, ChunkFurther
    <3>8. ReadAddr(State(q \o more, b)) = State(s \o more, Append(b, c))
      BY <3>4, <3>7, AddrCases
    <3> HIDE DEF all
    <3>9. ReadAddrs(all, i + 1) = ReadAddr(ReadAddrs(all, i))
      BY <1>1, ReadAddrsDef
    <3> QED
      BY <3>5, <3>6, <3>8, <3>9
  <2> QED
    BY <2>1
<1>4. P \in SUBSET Nat
  OBVIOUS
<1>5. P = Nat
  <2> HIDE DEF P
  <2> QED
    BY <1>2, <1>3, <1>4, Induction
<1> QED
  BY <1>5

\* What the loop of Encode writes the loop of Decode reads.
LEMMA AddrsBack ==
  ASSUME NEW addrs \in Seq(Bytes), \A i \in 1..Len(addrs) : addrs[i] # <<>>
  PROVE  Chunks(addrs) \in Bytes /\ ReadAddrs(Chunks(addrs), Len(addrs)) = State(<<>>, addrs)
<1>1. PICK w \in [0..Len(addrs) -> Bytes] :
        /\ Chunks(addrs) = w[Len(addrs)] /\ w[0] = <<>>
        /\ \A i \in 1..Len(addrs) : w[i] = w[i - 1] \o Chunk(addrs[i])
  BY ChunksDef
<1>2. Len(addrs) \in Nat
  OBVIOUS
<1> DEFINE P == {i \in Nat :
                   i <= Len(addrs) => ReadAddrs(w[i], i) = State(<<>>, SubSeq(addrs, 1, i))}
<1>3. 0 \in P
  <2>1. w[0] = <<>> /\ <<>> \in Bytes /\ SubSeq(addrs, 1, 0) = <<>>
    BY <1>1, <1>2 DEF Bytes
  <2> QED
    BY <2>1, ReadAddrsDef
<1>4. ASSUME NEW i \in P PROVE i + 1 \in P
  <2> SUFFICES ASSUME i + 1 <= Len(addrs)
               PROVE  ReadAddrs(w[i + 1], i + 1) = State(<<>>, SubSeq(addrs, 1, i + 1))
    OBVIOUS
  <2> DEFINE a == addrs[i + 1]
             sofar == SubSeq(addrs, 1, i)
             c == Chunk(a)
  <2>1. /\ i \in Nat /\ i + 1 \in 1..Len(addrs) /\ (i + 1) - 1 = i /\ i \in 0..Len(addrs)
        /\ i + 1 \in 0..Len(addrs) /\ i <= Len(addrs)
    BY <1>2
  <2>2. /\ a \in Bytes /\ a # <<>> /\ sofar \in Seq(Bytes)
        /\ Append(sofar, a) = SubSeq(addrs, 1, i + 1)
    BY <2>1
  <2>3. w[i] \in Bytes /\ w[i + 1] \in Bytes /\ w[i + 1] = w[i] \o c
    BY <1>1, <2>1
  <2>4. ReadAddrs(w[i], i) = State(<<>>, sofar)
    BY <2>1
  <2> HIDE DEF a, sofar
  <2>5. <<>> \in Bytes /\ c \in Bytes /\ c \o <<>> = c /\ <<>> \o c = c
    <3>1. <<>> \in Bytes
      BY DEF Bytes
    <3>2. c \in Bytes
      BY <2>2, <3>1, ChunkBack
    <3> HIDE DEF c
    <3> QED
      BY <3>1, <3>2, ConcatBytes
  <2>6. ReadChunk(c) = Piece(a, <<>>)
    <3>1. ReadChunk(Chunk(a) \o <<>>) = Piece(a, <<>>)
      BY <2>2, <2>5, ChunkBack
    <3> QED
      BY <2>5, <3>1
  <2> HIDE DEF c
  <2>7. ReadAddrs(w[i] \o c, i) = State(<<>> \o c, sofar)
    <3> DEFINE v == w[i]
               e == <<>>
    <3>1. v \in Bytes /\ e \in Bytes /\ ReadAddrs(v, i) = State(e, sofar)
      BY <2>3, <2>4, <2>5
    <3> HIDE DEF v, e
    <3>2. ReadAddrs(v \o c, i) = State(e \o c, sofar)
      BY <2>1, <2>2, <2>5, <3>1, AddrsFurther
    <3> QED
      BY <3>2 DEF v, e
  <2>8. ReadAddrs(w[i + 1], i) = State(c, sofar)
    BY <2>3, <2>5, <2>7
  <2>9. ReadAddr(State(c, sofar)) = State(<<>>, Append(sofar, a))
    <3> DEFINE e == <<>>
    <3>1. ReadChunk(c) = Piece(a, e) /\ a # <<>>
      BY <2>2, <2>6
    <3> HIDE DEF e
    <3>2. ReadAddr(State(c, sofar)) = State(e, Append(sofar, a))
      BY <3>1, AddrCases
    <3> QED
      BY <3>2 DEF e
  <2>10. ReadAddrs(w[i + 1], i + 1) = ReadAddr(ReadAddrs(w[i + 1], i))
    BY <2>1, <2>3, ReadAddrsDef
  <2> QED
    BY <2>2, <2>8, <2>9, <2>10
<1>5. P = Nat
  <2>1. P \in SUBSET Nat
    OBVIOUS
  <2> HIDE DEF P
  <2> QED
    BY <1>3, <1>4, <2>1, Induction
<1>6. ReadAddrs(w[Len(addrs)], Len(addrs)) = State(<<>>, SubSeq(addrs, 1, Len(addrs)))
  BY <1>2, <1>5
<1>7. SubSeq(addrs, 1, Len(addrs)) = addrs
  BY SubSeqFull
<1>8. w[Len(addrs)] \in Bytes
  BY <1>1, <1>2
<1>9. ReadAddrs(w[Len(addrs)], Len(addrs)) = State(<<>>, addrs)
  BY <1>6, <1>7
<1> QED
  BY <1>1, <1>8, <1>9

----------------------------------------------------------------------------
(* Whole codes.                                                            *)

\* What Decode returns.
Known(id, addrs) == [ok |-> TRUE, id |-> id, addrs |-> addrs]

\* The fields of a code that was decoded.
LEMMA KnownFields ==
  ASSUME NEW id, NEW addrs
  PROVE  Known(id, addrs).ok /\ Known(id, addrs).id = id /\ Known(id, addrs).addrs = addrs
  BY DEF Known

\* What the parts of a code have to be for Decode to accept it.
Parts(bytes, id, r, n, s, a) ==
  /\ ReadChunk(bytes) = Piece(id, r) /\ id # <<>>
  /\ ReadUvarint[r] = Number(n, s) /\ ReadAddrs(s, n) = State(<<>>, a)

\* A string that has such parts is accepted.
LEMMA DecodeParts ==
  ASSUME NEW p, NEW bytes, NEW id, NEW r, NEW n, NEW s, NEW a,
         p.prefix = TRUE, p.bytes = bytes, Parts(bytes, id, r, n, s, a)
  PROVE  Decode(p) = Known(id, a)
<1> DEFINE i == ReadChunk(bytes)
           c == ReadUvarint[i.rest]
           l == ReadAddrs(c.rest, c.n)
<1>1. i.ok /\ i.chunk = id /\ i.rest = r /\ id # <<>>
  BY PieceFields DEF Parts
<1>2. c = Number(n, s)
  BY <1>1 DEF Parts
<1>3. c.ok /\ c.n = n /\ c.rest = s
  BY <1>2, NumberFields
<1>4. l = State(<<>>, a)
  BY <1>3 DEF Parts
<1>5. l.ok /\ l.rest = <<>> /\ l.addrs = a
  BY <1>4, StateFields
<1>6. Decode(p) = IF ~p.prefix THEN Failed ELSE IF ~i.ok THEN Failed
                  ELSE IF ~Parses(i.chunk) THEN Failed ELSE IF ~c.ok THEN Failed
                  ELSE IF ~l.ok THEN Failed ELSE IF l.rest # <<>> THEN Failed
                  ELSE Known(i.chunk, l.addrs)
  BY DEF Decode, Known
<1> HIDE DEF i, c, l
<1> QED
  BY <1>1, <1>3, <1>5, <1>6 DEF Parses

\* A string that is accepted has such parts.
LEMMA DecodeCases ==
  ASSUME NEW p, p.bytes \in Bytes, Decode(p).ok
  PROVE  p.prefix /\ \E id, r, s \in Bytes : \E n \in Nat : \E a \in Seq(Bytes) :
           Parts(p.bytes, id, r, n, s, a)
<1> DEFINE i == ReadChunk(p.bytes)
           c == ReadUvarint[i.rest]
           l == ReadAddrs(c.rest, c.n)
<1>1. Decode(p) = IF ~p.prefix THEN Failed ELSE IF ~i.ok THEN Failed
                  ELSE IF ~Parses(i.chunk) THEN Failed ELSE IF ~c.ok THEN Failed
                  ELSE IF ~l.ok THEN Failed ELSE IF l.rest # <<>> THEN Failed
                  ELSE Known(i.chunk, l.addrs)
  BY DEF Decode, Known
<1>2. p.prefix /\ i.ok /\ i.chunk # <<>> /\ c.ok /\ l.ok /\ l.rest = <<>>
  <2> HIDE DEF i, c, l
  <2> QED
    BY <1>1, NumberFields DEF Parses
<1>3. PICK id \in Bytes, r \in Bytes : i = Piece(id, r)
  BY <1>2, ChunkCases, NumberFields
<1>4. i.chunk = id /\ i.rest = r
  BY <1>3, PieceFields
<1>5. PICK n \in Nat, s \in Bytes : c = Number(n, s)
  BY <1>2, <1>4, ReadUvarintDef, NumberFields DEF Numbers
<1>6. c.n = n /\ c.rest = s
  BY <1>5, NumberFields
<1>7. l \in States /\ l # Failed
  BY <1>2, <1>6, ReadAddrsDef, NumberFields
<1>8. PICK t \in Bytes, a \in Seq(Bytes) : l = State(t, a)
  BY <1>7 DEF States
<1>9. t = <<>>
  BY <1>2, <1>8, StateFields
<1>10. Parts(p.bytes, id, r, n, s, a)
  BY <1>2, <1>3, <1>4, <1>5, <1>6, <1>8, <1>9 DEF Parts
<1> QED
  BY <1>2, <1>10

\* The parts of a code when more follows.
LEMMA PartsFurther ==
  ASSUME NEW bytes \in Bytes, NEW more \in Bytes, NEW id \in Bytes, NEW r \in Bytes,
         NEW n \in Nat, NEW s \in Bytes, NEW a \in Seq(Bytes), Parts(bytes, id, r, n, s, a)
  PROVE  /\ ReadChunk(bytes \o more) = Piece(id, r \o more)
         /\ ReadUvarint[r \o more] = Number(n, s \o more)
         /\ ReadAddrs(s \o more, n) = State(more, a)
<1>1. ReadChunk(bytes \o more) = Piece(id, r \o more)
  BY ChunkFurther DEF Parts
<1>2. ReadUvarint[r].ok /\ ReadUvarint[r].n = n /\ ReadUvarint[r].rest = s
  BY NumberFields DEF Parts
<1>3. ReadUvarint[r \o more] = Number(n, s \o more)
  BY <1>2, ReadFurther
<1>4. ReadAddrs(s \o more, n) = State(more, a)
  <2> DEFINE e == <<>>
  <2>1. e \in Bytes /\ ReadAddrs(s, n) = State(e, a)
    BY DEF Bytes, Parts
  <2>2. e \o more = more
    BY ConcatBytes
  <2> HIDE DEF e
  <2>3. ReadAddrs(s \o more, n) = State(e \o more, a)
    BY <2>1, AddrsFurther
  <2> QED
    BY <2>2, <2>3
<1> QED
  BY <1>1, <1>3, <1>4

\* The parts of a code and of what begins with it.
LEMMA PartsAgain ==
  ASSUME NEW b \in Bytes, NEW more \in Bytes,
         NEW id \in Bytes, NEW r \in Bytes, NEW n \in Nat, NEW s \in Bytes, NEW a \in Seq(Bytes),
         Parts(b, id, r, n, s, a),
         NEW id2, NEW r2, NEW n2, NEW s2, NEW a2, Parts(b \o more, id2, r2, n2, s2, a2)
  PROVE  more = <<>>
<1>1. /\ ReadChunk(b \o more) = Piece(id, r \o more)
      /\ ReadUvarint[r \o more] = Number(n, s \o more)
      /\ ReadAddrs(s \o more, n) = State(more, a)
  BY PartsFurther
<1> DEFINE d == b \o more
           u == r \o more
           t == s \o more
<1>2. ReadChunk(d) = Piece(id2, r2) /\ ReadUvarint[r2] = Number(n2, s2)
  BY DEF Parts
<1> HIDE DEF d, u, t
<1>3. ReadChunk(d) = Piece(id, u) /\ ReadUvarint[u] = Number(n, t)
  BY <1>1 DEF d, u, t
<1>4. r2 = u
  <2>1. Piece(id2, r2) = Piece(id, u)
    BY <1>2, <1>3
  <2> QED
    BY <2>1, PiecesEqual
<1>5. n2 = n /\ s2 = t
  <2>1. Number(n2, s2) = Number(n, t)
    BY <1>2, <1>3, <1>4
  <2> DEFINE x == Number(n2, s2)
  <2>2. x.n = n2 /\ x.rest = s2
    BY NumberFields
  <2>3. x.n = n /\ x.rest = t
    BY <2>1, NumberFields
  <2> HIDE DEF x
  <2> QED
    BY <2>2, <2>3
<1>6. State(<<>>, a2) = State(more, a)
  BY <1>1, <1>5 DEF Parts, t
<1> DEFINE e == <<>>
<1>7. State(e, a2) = State(more, a)
  BY <1>6
<1> HIDE DEF e
<1>8. e = more
  BY <1>7, StatesEqual
<1> QED
  BY <1>8 DEF e

\* No code is the beginning of another: Decode never accepts both a string of bytes and a
\* longer one that begins with it, so that a truncated or an extended code is refused.
THEOREM PrefixFree ==
  ASSUME NEW p, NEW q, NEW more, p.bytes \in Bytes, more \in Bytes, q.bytes = p.bytes \o more,
         Decode(p).ok, Decode(q).ok
  PROVE  more = <<>>
<1> DEFINE b == p.bytes
<1>1. PICK id \in Bytes, r \in Bytes, s \in Bytes, n \in Nat, a \in Seq(Bytes) :
        Parts(b, id, r, n, s, a)
  BY DecodeCases
<1>2. q.bytes \in Bytes
  BY ConcatBytes
<1>3. PICK id2 \in Bytes, r2 \in Bytes, s2 \in Bytes, n2 \in Nat, a2 \in Seq(Bytes) :
        Parts(b \o more, id2, r2, n2, s2, a2)
  BY <1>2, DecodeCases
<1> QED
  BY <1>1, <1>3, PartsAgain

\* Decode reads back what Encode writes, for every peer ID and list of addresses.
THEOREM RoundTrip ==
  ASSUME NEW id \in Bytes, id # <<>>, NEW addrs \in Seq(Bytes),
         \A i \in 1..Len(addrs) : addrs[i] # <<>>
  PROVE  /\ Encode([id |-> id, addrs |-> addrs]).bytes \in Bytes
         /\ Encode([id |-> id, addrs |-> addrs]).prefix = TRUE
         /\ Decode(Encode([id |-> id, addrs |-> addrs])) = Known(id, addrs)
<1> DEFINE code0 == Encode([id |-> id, addrs |-> addrs])
           n == Len(addrs)
           u == Uvarint[n]
           s == Chunks(addrs)
           r == u \o s
           c == Chunk(id)
<1>1. n \in Nat /\ u \in Bytes /\ s \in Bytes /\ c \in Bytes
  <2>1. n \in Nat
    OBVIOUS
  <2>2. <<>> \in Bytes
    BY DEF Bytes
  <2> QED
    BY <2>1, <2>2, UvarintDef, AddrsBack, ChunkBack
<1>2. code0.prefix = TRUE /\ code0.bytes = (c \o u) \o s
  BY DEF Encode
<1>3. ReadAddrs(s, n) = State(<<>>, addrs)
  BY AddrsBack
<1> HIDE DEF c, u, s, n
<1>4. r \in Bytes /\ c \o r \in Bytes
  BY <1>1, ConcatBytes
<1>5. (c \o u) \o s = c \o r
  BY <1>1, ConcatAgain
<1>6. ReadUvarint[r] = Number(n, s)
  BY <1>1, ReadBack DEF u
<1> HIDE DEF r
<1>7. ReadChunk(c \o r) = Piece(id, r)
  BY <1>4, ChunkBack DEF c
<1>8. Parts(c \o r, id, r, n, s, addrs)
  BY <1>3, <1>6, <1>7 DEF Parts
<1> HIDE DEF code0
<1>9. Decode(code0) = Known(id, addrs)
  BY <1>2, <1>5, <1>8, DecodeParts
<1>10. code0.bytes \in Bytes /\ code0.prefix = TRUE
  BY <1>2, <1>4, <1>5
<1> QED
  BY <1>9, <1>10 DEF code0

----------------------------------------------------------------------------
(* What serve prints, and what rca run accepts.                            *)

\* What the host has to advertise: sequences of bytes that are not empty.
LEMMA AdvertisedType ==
  /\ HostId \in Bytes \ {<<>>} /\ Advertised.id = HostId
  /\ Advertised.addrs \in Seq(Bytes)
  /\ \A i \in 1..Len(Advertised.addrs) : Advertised.addrs[i] # <<>>
  /\ Advertised = [id |-> HostId, addrs |-> Advertised.addrs]
<1> DEFINE Names == Bytes \ {<<>>}
           S == {Circuit[r] : r \in Reserved}
           n == Cardinality(S)
           s == SetToSeq(S)
           a == <<Direct>> \o s
<1>1. HostId \in Names /\ Direct \in Names /\ S \subseteq Names
  BY ServeAssumption DEF Reserved
<1>2. IsFiniteSet(S)
  <2> DEFINE f == [r \in Reserved |-> Circuit[r]]
  <2>1. IsFiniteSet(Reserved)
    BY ServeAssumption, FS_Subset DEF Reserved
  <2>2. f \in Surjection(Reserved, S)
    BY DEF Surjection
  <2> HIDE DEF f, S
  <2> QED
    BY <2>1, <2>2, FS_Surjection
<1>3. n \in Nat /\ s \in [1..n -> S]
  <2> HIDE DEF S
  <2>1. n \in Nat /\ ExistsBijection(1..n, S)
    BY <1>2, FS_CardinalityType
  <2>2. PICK g \in [1..n -> S] : IsInjective(g)
    BY <2>1 DEF ExistsBijection, Bijection, Injection
  <2> QED
    BY <2>1, <2>2 DEF SetToSeq
<1> HIDE DEF n, s, S, Names
<1>4. a \in Seq(Names)
  <2>1. s \in Seq(Names)
    BY <1>1, <1>3
  <2> QED
    BY <1>1, <2>1
<1>5. a \in Seq(Bytes) /\ \A i \in 1..Len(a) : a[i] # <<>>
  <2> HIDE DEF a
  <2>1. \A i \in 1..Len(a) : a[i] \in Names
    BY <1>4
  <2>2. \A i \in 1..Len(a) : a[i] \in Bytes /\ a[i] # <<>>
    BY <2>1 DEF Names
  <2>3. a \in [1..Len(a) -> Bytes] /\ Len(a) \in Nat
    BY <1>4, <2>2
  <2> QED
    BY <2>2, <2>3
<1>6. Advertised = [id |-> HostId, addrs |-> a]
  BY DEF Advertised, a, s, S
<1> HIDE DEF a
<1> QED
  BY <1>1, <1>5, <1>6 DEF Names

\* The code serve prints is read back.
LEMMA AdvertisedBack ==
  /\ Encode(Advertised).prefix = TRUE /\ Encode(Advertised).bytes \in Bytes
  /\ Encode(Advertised) = [prefix |-> TRUE, bytes |-> Encode(Advertised).bytes]
  /\ Decode(Encode(Advertised)) = Known(HostId, Advertised.addrs)
<1> DEFINE a == Advertised.addrs
<1>1. HostId \in Bytes /\ HostId # <<>> /\ a \in Seq(Bytes) /\ \A i \in 1..Len(a) : a[i] # <<>>
  BY AdvertisedType
<1>2. Advertised = [id |-> HostId, addrs |-> a]
  BY AdvertisedType
<1>3. \A x : Encode(x) = [prefix |-> TRUE, bytes |-> Encode(x).bytes]
  BY DEF Encode
<1> HIDE DEF a
<1>4. /\ Encode([id |-> HostId, addrs |-> a]).bytes \in Bytes
      /\ Encode([id |-> HostId, addrs |-> a]).prefix = TRUE
      /\ Decode(Encode([id |-> HostId, addrs |-> a])) = Known(HostId, a)
  BY <1>1, RoundTrip
<1> QED
  BY <1>2, <1>3, <1>4 DEF a

\* The code, and what is accepted of it.
Printed ==
  code # None => code = Encode(Advertised) /\ \A r \in Relays : loop[r] \notin {"listed", "first"}

Infos == info \in [Clients -> {None} \cup {Known(HostId, a) : a \in Seq(Bytes)}]

Paired ==
  \A c \in Clients :
    info[c] # None => code # None /\ info[c] = Known(HostId, Advertised.addrs)

\* Of what a user pastes only the code is accepted.
LEMMA PasteAccepted ==
  ASSUME code = Encode(Advertised), NEW p \in Pastes, Decode(p).ok
  PROVE  Decode(p) = Known(HostId, Advertised.addrs)
<1> DEFINE b == code.bytes
           known == Known(HostId, Advertised.addrs)
<1>1. b \in Bytes /\ code = [prefix |-> TRUE, bytes |-> b] /\ Decode(code) = known
  BY AdvertisedBack
<1>2. Decode(code).ok
  BY <1>1, KnownFields
<1>3. CASE p = [prefix |-> TRUE, bytes |-> Append(b, 1)]
  <2> DEFINE one == <<1>>
  <2>1. one \in Bytes /\ one # <<>>
    BY BaseAssumption DEF Bytes
  <2>2. p.bytes = b \o one
    BY <1>1, <1>3 DEF Bytes
  <2> HIDE DEF b, one, known
  <2>3. one = <<>>
    BY <1>1, <1>2, <2>1, <2>2, PrefixFree DEF b
  <2> QED
    BY <2>1, <2>3
<1>4. CASE \E x \in BOOLEAN, k \in 0..Len(b) : p = [prefix |-> x, bytes |-> SubSeq(b, 1, k)]
  <2>1. PICK x \in BOOLEAN, k \in 0..Len(b) : p = [prefix |-> x, bytes |-> SubSeq(b, 1, k)]
    BY <1>4
  <2> DEFINE u == SubSeq(b, 1, k)
             v == SubSeq(b, k + 1, Len(b))
  <2>2. p = [prefix |-> x, bytes |-> u] /\ p.prefix = x /\ p.bytes = u
    BY <2>1
  <2> HIDE DEF b, known
  <2>3. k \in Nat /\ k <= Len(b)
    BY <1>1, ConcatBytes
  <2>4. u \in Bytes /\ v \in Bytes /\ b = u \o v
    BY <1>1, <2>3, CutFurther
  <2>5. p.prefix
    BY <2>2, <2>4, DecodeCases
  <2> HIDE DEF u, v
  <2>6. v = <<>>
    BY <1>2, <2>2, <2>4, PrefixFree DEF b
  <2>7. b = u
    BY <2>4, <2>6, ConcatBytes
  <2>8. p = [prefix |-> TRUE, bytes |-> b]
    BY <2>2, <2>5, <2>7
  <2> QED
    BY <1>1, <2>8 DEF known
<1> QED
  BY <1>3, <1>4 DEF Pastes

\* The inductive invariant.
CInv == TypeOK /\ Infos /\ Printed /\ Paired

\* Steps of the relays and the refresh loops keep what is advertised, once it is printed.
LEMMA LoopStepPrinted ==
  ASSUME CInv, NEW r \in Relays, LoopStep(r)
  PROVE  code # None => /\ Advertised' = Advertised
                         /\ \A q \in Relays : loop'[q] \notin {"listed", "first"}
<1> SUFFICES ASSUME code # None
             PROVE  /\ Advertised' = Advertised
                    /\ \A q \in Relays : loop'[q] \notin {"listed", "first"}
  OBVIOUS
<1>1. loop \in [Relays -> LoopState] /\ \A q \in Relays : loop[q] \notin {"listed", "first"}
  BY DEF CInv, TypeOK, Printed
<1>2. CASE loop' = loop
  BY <1>1, <1>2 DEF Advertised, Reserved
<1>3. CASE /\ loop[r] \in {"sleep", "refresh"}
           /\ \E s \in {"sleep", "refresh"} : loop' = [loop EXCEPT ![r] = s]
  <2>1. PICK s \in {"sleep", "refresh"} : loop' = [loop EXCEPT ![r] = s]
    BY <1>3
  <2>2. \A q \in Relays : loop'[q] = IF q = r THEN s ELSE loop[q]
    BY <1>1, <2>1
  <2>3. Reserved' = Reserved
    BY <1>3, <2>2 DEF Reserved
  <2> QED
    BY <1>1, <2>2, <2>3 DEF Advertised
<1>4. ~FirstAttempt(r)
  BY <1>1 DEF FirstAttempt
<1>5. Refresh(r) => loop[r] = "sleep" /\ loop' = [loop EXCEPT ![r] = "refresh"]
  BY DEF Refresh, SetTimer
<1>6. Granted(r) => loop[r] = "refresh" /\ loop' = [loop EXCEPT ![r] = "sleep"]
  BY <1>1 DEF Granted, Trying, SetTimer
<1>7. Refused(r) => loop[r] = "refresh" /\ loop' = [loop EXCEPT ![r] = "sleep"]
  BY <1>1 DEF Refused, Trying, AfterFailure, SetTimer
<1> QED
  BY <1>3, <1>4, <1>5, <1>6, <1>7 DEF LoopStep

\* A step that keeps what is advertised, once it is printed, keeps what was read of it.
LEMMA PrintedStays ==
  ASSUME Infos, Printed, Paired, UNCHANGED <<code, info>>,
         code # None => /\ Advertised' = Advertised
                        /\ \A q \in Relays : loop'[q] \notin {"listed", "first"}
  PROVE  Infos' /\ Printed' /\ Paired'
<1>1. Infos'
  BY DEF Infos
<1>2. Printed'
  BY DEF Printed
<1>3. Paired'
  <2>1. SUFFICES ASSUME NEW c \in Clients, info[c] # None
                 PROVE  code # None /\ info[c] = Known(HostId, Advertised'.addrs)
    BY DEF Paired
  <2>2. code # None /\ info[c] = Known(HostId, Advertised.addrs)
    BY <2>1 DEF Paired
  <2> QED
    BY <2>2
<1> QED
  BY <1>1, <1>2, <1>3

\* So does one that leaves the loops alone.
LEMMA LoopKept ==
  ASSUME Infos, Printed, Paired, UNCHANGED <<code, info, loop>>
  PROVE  Infos' /\ Printed' /\ Paired'
<1>1. Advertised' = Advertised
  BY DEF Advertised, Reserved
<1>2. code # None => \A q \in Relays : loop'[q] \notin {"listed", "first"}
  BY DEF Printed
<1> QED
  BY <1>1, <1>2, PrintedStays

\* The code is printed when every first attempt is over.
LEMMA PrintCodeInv ==
  ASSUME CInv, PrintCode
  PROVE  Infos' /\ Printed' /\ Paired'
<1>1. /\ code = None /\ code' = Encode(Advertised) /\ UNCHANGED <<loop, info>>
      /\ \A r \in Relays : loop[r] \notin {"listed", "first"}
  BY DEF PrintCode, loopVars, clientVars
<1>2. Advertised' = Advertised
  BY <1>1 DEF Advertised, Reserved
<1>3. Infos'
  BY <1>1 DEF CInv, Infos
<1>4. Printed'
  BY <1>1, <1>2 DEF Printed
<1>5. Paired'
  BY <1>1 DEF CInv, Paired
<1> QED
  BY <1>3, <1>4, <1>5

\* A user pastes the code, or something else.
LEMMA PairInv ==
  ASSUME CInv, NEW c \in Clients, Pair(c)
  PROVE  Infos' /\ Printed' /\ Paired'
<1> DEFINE known == Known(HostId, Advertised.addrs)
<1>1. code # None /\ UNCHANGED <<code, loop>>
  BY DEF Pair, loopVars
<1>2. Advertised' = Advertised
  BY <1>1 DEF Advertised, Reserved
<1>3. code = Encode(Advertised)
  BY <1>1 DEF CInv, Printed
<1>4. info' = info \/ info' = [info EXCEPT ![c] = known]
  <2>1. PICK p \in Pastes :
          IF Decode(p).ok THEN info' = [info EXCEPT ![c] = Decode(p)] ELSE info' = info
    BY DEF Pair
  <2>2. Decode(p).ok => Decode(p) = known
    BY <1>3, PasteAccepted
  <2> HIDE DEF known
  <2> QED
    BY <2>1, <2>2
<1>5. known \in {Known(HostId, a) : a \in Seq(Bytes)}
  BY AdvertisedType
<1> HIDE DEF known
<1>6. Infos'
  BY <1>4, <1>5 DEF CInv, Infos
<1>7. Printed'
  BY <1>1, <1>2 DEF CInv, Printed
<1>8. Paired'
  <2>1. known' = known
    BY <1>2 DEF known
  <2>2. \A d \in Clients : info'[d] = info[d] \/ info'[d] = known
    BY <1>4 DEF CInv, Infos
  <2>3. \A d \in Clients : info[d] # None => info[d] = known
    BY DEF CInv, Paired, known
  <2>4. ASSUME NEW d \in Clients, info'[d] # None PROVE code' # None /\ info'[d] = known
    BY <1>1, <2>2, <2>3, <2>4
  <2> QED
    BY <1>2, <2>4 DEF Paired, known
<1> QED
  BY <1>6, <1>7, <1>8

\* What the timers are set to.
LEMMA TimerTypes ==
  /\ Attempt \in Timers /\ Sleep(TTL + Skew) \in Timers /\ Sleep(RetryDelay) \in Timers
  /\ 0 \in Timers /\ 0 \in 0..Enough /\ 0 \in 0..TTL /\ 0 \in 0..MaxFaults
  /\ TTL \in 0..TTL /\ Enough \in Nat /\ MaxFaults \in Nat /\ QueueCap \in Nat
<1>1. TTL \in Nat /\ TTL >= 12 /\ Skew \in Nat
  BY TimesAssumption DEF Margin, MinSleep, Attempt
<1>2. Sleep(TTL + Skew) = TTL + Skew - 10 /\ Sleep(RetryDelay) = 2 /\ Enough \in Nat
  BY Times DEF Margin, MinSleep
<1> QED
  BY <1>1, <1>2, ServeAssumption DEF Timers, Attempt

\* Types: the refresh loops, the relays, time.
LEMMA LoopStepTypes ==
  ASSUME TypeOK, NEW r \in Relays, LoopStep(r)
  PROVE  TypeOK'
<1> USE TimerTypes DEF TypeOK, LoopState, SetTimer, worldVars, acceptVars, clientVars
<1>2. CASE FirstAttempt(r)
  BY <1>2 DEF FirstAttempt, relayVars
<1>3. CASE Refresh(r)
  BY <1>3 DEF Refresh, relayVars
<1>4. CASE Granted(r)
  BY <1>4 DEF Granted
<1>5. CASE Refused(r)
  <2>1. faults' \in 0..MaxFaults
    BY <1>5 DEF Refused, Fault
  <2>2. CapFails(fails[r] + 1) \in 0..Enough
    BY DEF CapFails
  <2>3. /\ fails' = [fails EXCEPT ![r] = CapFails(fails[r] + 1)]
        /\ UNCHANGED <<worldVars, relayVars, dropped, code, acceptVars, clientVars>>
    BY <1>5 DEF Refused
  <2>4. loop' \in [Relays -> LoopState] /\ timer' \in [Relays -> Timers]
    BY <1>5 DEF Refused, AfterFailure
  <2> QED
    BY <2>1, <2>2, <2>3, <2>4 DEF relayVars
<1> QED
  BY <1>2, <1>3, <1>4, <1>5 DEF LoopStep

LEMMA RelayTypes ==
  ASSUME TypeOK, NEW r \in Relays, RelayStops(r) \/ RelayStarts(r)
  PROVE  TypeOK'
<1> USE TimerTypes DEF TypeOK, worldVars, acceptVars, clientVars
<1>1. CASE RelayStops(r)
  BY <1>1 DEF RelayStops, Fault
<1>2. CASE RelayStarts(r)
  BY <1>2 DEF RelayStarts, loopVars, Identity
<1> QED
  BY <1>1, <1>2

LEMMA TickTypes ==
  ASSUME TypeOK, Tick
  PROVE  TypeOK'
<1>1. /\ timer' = [r \in Relays |-> IF timer[r] > 0 THEN timer[r] - 1 ELSE 0]
      /\ left' = [r \in Relays |-> IF left[r] > 0 THEN left[r] - 1 ELSE 0]
  BY DEF Tick
<1>2. timer' \in [Relays -> Timers] /\ left' \in [Relays -> 0..TTL]
  BY <1>1, TimerTypes, TimesAssumption DEF TypeOK, Timers
<1> QED
  BY <1>2 DEF TypeOK, Tick, worldVars, acceptVars, clientVars

\* The ID in a code that was read.
LEMMA InfoType ==
  ASSUME NEW i \in [Clients -> {None} \cup {Known(HostId, a) : a \in Seq(Bytes)}]
  PROVE  \A c \in Clients : i[c] = None \/ i[c].id \in Bytes
<1>1. ASSUME NEW c \in Clients, i[c] # None PROVE i[c].id \in Bytes
  <2>1. PICK a \in Seq(Bytes) : i[c] = Known(HostId, a)
    BY <1>1
  <2> QED
    BY <2>1, KnownFields, AdvertisedType
<1> QED
  BY <1>1

\* Types: the code and the sessions that pair.
LEMMA PrintCodeTypes ==
  ASSUME TypeOK, PrintCode
  PROVE  TypeOK'
<1>1. Encode(Advertised) \in [prefix : BOOLEAN, bytes : Bytes]
  BY AdvertisedBack
<1> QED
  BY <1>1 DEF TypeOK, PrintCode, worldVars, relayVars, loopVars, acceptVars, clientVars

LEMMA PairTypes ==
  ASSUME TypeOK, Infos', NEW c \in Clients, Pair(c)
  PROVE  TypeOK'
<1>1. \A d \in Clients : info'[d] = None \/ info'[d].id \in Bytes
  BY InfoType DEF Infos
<1>2. pc' = [pc EXCEPT ![c] = "dial"] \/ pc' = [pc EXCEPT ![c] = "refused"]
  BY DEF Pair
<1> QED
  BY <1>1, <1>2 DEF TypeOK, Pair, worldVars, relayVars, loopVars, acceptVars

\* Types: the probe.
LEMMA ClientTypes ==
  ASSUME TypeOK, NEW c \in Clients, Dial(c) \/ ProbeFails(c)
  PROVE  TypeOK'
<1> USE DEF TypeOK, worldVars, relayVars, loopVars
<1>1. CASE Dial(c)
  <2>1. <<c, try[c]>> \in Streams
    BY DEF Streams
  <2> QED
    BY <1>1, <2>1 DEF Dial
<1>2. CASE ProbeFails(c)
  <2>1. /\ pc' \in [Clients -> {"unpaired", "refused", "dial", "open", "launched"}]
        /\ try' \in [Clients -> 1..Tries]
    <3>1. try[c] \in {1, 2} /\ try[c] + 1 \in Nat
      BY DEF Tries
    <3>2. CASE try[c] = 1
      <4>1. pc' = [pc EXCEPT ![c] = "dial"] /\ try' = [try EXCEPT ![c] = 2]
        BY <1>2, <3>2 DEF ProbeFails, NextTry, Tries
      <4> QED
        BY <4>1 DEF Tries
    <3>3. CASE try[c] = 2
      <4>1. pc' = [pc EXCEPT ![c] = "launched"] /\ try' = try
        BY <1>2, <3>3 DEF ProbeFails, NextTry, Tries
      <4> QED
        BY <4>1
    <3> QED
      BY <3>1, <3>2, <3>3
  <2> QED
    BY <1>2, <2>1 DEF ProbeFails, acceptVars
<1> QED
  BY <1>1, <1>2

\* Types: the listener.
LEMMA AcceptTypes ==
  ASSUME TypeOK, Accept \/ \E s \in Streams : Handler(s)
  PROVE  TypeOK'
<1> USE DEF TypeOK, worldVars, relayVars, loopVars
<1>1. CASE Accept
  <2>1. queue' = Tail(queue) /\ queue # <<>>
    BY <1>1 DEF Accept
  <2>2. Tail(queue) \in Seq(Streams) /\ Len(Tail(queue)) <= QueueCap
    BY <2>1, TimerTypes
  <2>3. pc' \in [Clients -> {"unpaired", "refused", "dial", "open", "launched"}]
        /\ hint' \in [Clients -> BOOLEAN]
    BY <1>1 DEF Accept
  <2> QED
    BY <1>1, <2>1, <2>2, <2>3 DEF Accept
<1>2. ASSUME NEW s \in Streams, Handler(s) PROVE TypeOK'
  <2>1. queue' = Append(queue, s) /\ handlers' = handlers \ {s} /\ Len(queue) < QueueCap
    BY <1>2 DEF Handler, Incoming
  <2>2. Append(queue, s) \in Seq(Streams) /\ Len(Append(queue, s)) <= QueueCap
    BY <2>1, TimerTypes
  <2> QED
    BY <1>2, <2>1, <2>2 DEF Handler, clientVars
<1> QED
  BY <1>1, <1>2

\* Every step of the specification keeps the invariant.
LEMMA CNextInv == CInv /\ [Next]_vars => CInv'
<1>1. ASSUME CInv, NEW r \in Relays, LoopStep(r) PROVE CInv'
  <2>1. UNCHANGED <<code, info>>
    BY <1>1 DEF LoopStep, FirstAttempt, Refresh, Granted, Refused, clientVars
  <2> QED
    BY <1>1, <2>1, LoopStepPrinted, LoopStepTypes, PrintedStays DEF CInv
<1>2. ASSUME CInv, NEW r \in Relays, RelayStops(r) \/ RelayStarts(r) PROVE CInv'
  <2>1. UNCHANGED <<code, info, loop>>
    BY <1>2 DEF RelayStops, RelayStarts, clientVars, loopVars
  <2> QED
    BY <1>2, <2>1, RelayTypes, LoopKept DEF CInv
<1>3. ASSUME CInv, Tick PROVE CInv'
  <2>1. UNCHANGED <<code, info, loop>>
    BY <1>3 DEF Tick, clientVars
  <2> QED
    BY <1>3, <2>1, TickTypes, LoopKept DEF CInv
<1>4. ASSUME CInv, PrintCode PROVE CInv'
  BY <1>4, PrintCodeTypes, PrintCodeInv DEF CInv
<1>5. ASSUME CInv, NEW c \in Clients, Pair(c) PROVE CInv'
  BY <1>5, PairTypes, PairInv DEF CInv
<1>6. ASSUME CInv, NEW c \in Clients, Dial(c) \/ ProbeFails(c) PROVE CInv'
  <2>1. UNCHANGED <<code, info, loop>>
    BY <1>6 DEF Dial, ProbeFails, loopVars
  <2> QED
    BY <1>6, <2>1, ClientTypes, LoopKept DEF CInv
<1>7. ASSUME CInv, Accept \/ \E s \in Streams : Handler(s) PROVE CInv'
  <2>1. UNCHANGED <<code, info, loop>>
    BY <1>7 DEF Accept, Handler, loopVars, clientVars
  <2> QED
    BY <1>7, <2>1, AcceptTypes, LoopKept DEF CInv
<1>8. ASSUME CInv, UNCHANGED vars PROVE CInv'
  <2>1. UNCHANGED <<code, info, loop>>
    BY <1>8 DEF vars, loopVars, clientVars
  <2>2. TypeOK'
    BY <1>8 DEF CInv, TypeOK, vars, worldVars, relayVars, loopVars, acceptVars, clientVars
  <2> QED
    BY <1>8, <2>1, <2>2, LoopKept DEF CInv
<1> QED
  BY <1>1, <1>2, <1>3, <1>4, <1>5, <1>6, <1>7, <1>8 DEF Next

\* So that it always holds.
LEMMA CInvHolds == Spec => []CInv
<1>1. Init => CInv
  <2> SUFFICES ASSUME Init PROVE CInv
    OBVIOUS
  <2>1. code = None /\ info = [c \in Clients |-> None]
    BY DEF Init
  <2>2. TypeOK
    <3>1. \A c \in Clients : info[c] = None
      BY <2>1
    <3>2. try \in [Clients -> 1..Tries]
      BY DEF Init, Tries
    <3>3. queue = <<>> /\ Len(queue) <= QueueCap /\ queue \in Seq(Streams)
      BY TimerTypes DEF Init
    <3> QED
      BY <3>1, <3>2, <3>3, TimerTypes DEF Init, TypeOK, LoopState
  <2>3. Infos /\ Printed /\ Paired
    BY <2>1 DEF Infos, Printed, Paired
  <2> QED
    BY <2>2, <2>3 DEF CInv
<1> QED
  BY <1>1, CNextInv, PTL DEF Spec

\* Every variable of the refresh loops, the listener and the sessions keeps its type;
\* the queue its limit, the probe its attempts.
THEOREM TypesHold == Spec => []TypeOK
<1>1. CInv => TypeOK
  BY DEF CInv
<1> QED
  BY <1>1, CInvHolds, PTL

\* Whatever a user pastes, a session that accepts it knows the host that printed the
\* code and every address in it.
THEOREM CodeReadBackHolds == Spec => []CodeReadBack
<1>1. CInv => CodeReadBack
  <2> SUFFICES ASSUME CInv, NEW c \in Clients, info[c] # None
               PROVE  info[c].id = HostId /\ info[c].addrs = Advertised.addrs
    BY DEF CodeReadBack
  <2>1. info[c] = Known(HostId, Advertised.addrs)
    BY DEF CInv, Paired
  <2> QED
    BY <2>1, KnownFields
<1> QED
  BY <1>1, CInvHolds, PTL
=============================================================================

------------------------------ MODULE PairCode -----------------------------
(***************************************************************************)
(* The pairing code (internal/paircode/paircode.go): a peer's identity and *)
(* its addresses as one string.  A string is whether it starts with the    *)
(* prefix, and the bytes its base64 part stands for; a peer ID, an address *)
(* and a code are sequences of bytes.                                      *)
(***************************************************************************)
EXTENDS Integers, Sequences

CONSTANT Base     \* a byte of a uvarint holds a digit of this base: 128

ASSUME BaseAssumption == Base \in Nat /\ Base >= 2

Bytes == Seq(0..(2 * Base - 1))

\* Digits, least first; all but the last carry the continuation bit.
Uvarint[n \in Nat] ==
  IF n < Base THEN <<n>> ELSE <<Base + (n % Base)>> \o Uvarint[n \div Base]

Chunk(bytes) == Uvarint[Len(bytes)] \o bytes

\* The loop over the addresses of Encode.
Chunks(addrs) ==
  LET after[i \in 0..Len(addrs)] == IF i = 0 THEN <<>> ELSE after[i - 1] \o Chunk(addrs[i])
  IN after[Len(addrs)]

\* Mutant of Encode: the number of addresses is left out.
EncodeUncounted(info) == [prefix |-> TRUE, bytes |-> Chunk(info.id) \o Chunks(info.addrs)]
Encode(info) ==
  [prefix |-> TRUE, bytes |-> Chunk(info.id) \o Uvarint[Len(info.addrs)] \o Chunks(info.addrs)]

Failed == [ok |-> FALSE]

\* binary.Uvarint: the digits up to the first byte without the continuation bit.
ReadUvarint[buf \in Bytes] ==
  IF buf = <<>> THEN Failed
  ELSE IF Head(buf) < Base THEN [ok |-> TRUE, n |-> Head(buf), rest |-> Tail(buf)]
  ELSE LET more == ReadUvarint[Tail(buf)]
       IN IF ~more.ok THEN Failed
          ELSE [ok |-> TRUE, n |-> Head(buf) - Base + Base * more.n, rest |-> more.rest]

ReadChunk(buf) ==
  LET len == ReadUvarint[buf]
  IN IF ~len.ok THEN Failed
     ELSE IF Len(len.rest) < len.n THEN Failed
     ELSE [ok |-> TRUE, chunk |-> SubSeq(len.rest, 1, len.n),
           rest |-> SubSeq(len.rest, len.n + 1, Len(len.rest))]

\* The libraries that parse IDs and addresses refuse at least the empty ones.
Parses(bytes) == bytes # <<>>

\* One turn of the loop over the addresses of Decode, and the first n turns.
ReadAddr(state) ==
  LET c == ReadChunk(state.rest)
  IN IF ~state.ok THEN Failed
     ELSE IF ~c.ok THEN Failed
     ELSE IF ~Parses(c.chunk) THEN Failed
     ELSE [ok |-> TRUE, rest |-> c.rest, addrs |-> Append(state.addrs, c.chunk)]

ReadAddrs(buf, n) ==
  LET after[i \in Nat] ==
        IF i = 0 THEN [ok |-> TRUE, rest |-> buf, addrs |-> <<>>] ELSE ReadAddr(after[i - 1])
  IN after[n]

Decode(code) ==
  LET id    == ReadChunk(code.bytes)
      count == ReadUvarint[id.rest]
      addrs == ReadAddrs(count.rest, count.n)
  IN IF ~code.prefix THEN Failed
     ELSE IF ~id.ok THEN Failed
     ELSE IF ~Parses(id.chunk) THEN Failed
     ELSE IF ~count.ok THEN Failed
     ELSE IF ~addrs.ok THEN Failed
     ELSE IF addrs.rest # <<>> THEN Failed
     ELSE [ok |-> TRUE, id |-> id.chunk, addrs |-> addrs.addrs]
=============================================================================

-------------------------- MODULE Interpose_proofs -------------------------
(***************************************************************************)
(* Proofs about Interpose: for any number of threads, files, slots and     *)
(* descriptors, numbers of the program stand for what it opened, no handle *)
(* of the adapter is lost but by an open that fails, and what a program    *)
(* writes reaches the file when it is closed, whoever else opens and       *)
(* closes.                                                                 *)
(***************************************************************************)
EXTENDS Interpose, WellFoundedInduction, TLAPS

----------------------------------------------------------------------------
(* The inductive invariant.                                                *)

\* Records of the table, of threads and of descriptors.
IsSlot(r) ==
  /\ DOMAIN r = {"fd", "file", "handle", "writable", "wbuf"}
  /\ r.fd \in Fds /\ r.handle \in Nat /\ (r.fd # 0 => r.file \in Paths)
IsThread(r) ==
  /\ DOMAIN r = {"pc", "file", "mode", "fd", "slot", "handle", "seed", "whole", "want"}
  /\ r.fd \in Fds /\ r.slot \in Slots \cup {0} /\ r.handle \in Nat
IsDesc(r) == DOMAIN r = {"file", "mode", "want", "whole"}

Types ==
  /\ DOMAIN kern = Fds
  /\ DOMAIN tab = Slots /\ \A i \in Slots : IsSlot(tab[i])
  /\ DOMAIN th = Threads /\ \A t \in Threads : IsThread(th[t])
  /\ DOMAIN desc = Fds /\ \A n \in Fds : IsDesc(desc[n])
  /\ DOMAIN sess = {"open", "next"} /\ sess.next \in Nat \ {0}
  /\ \A h \in DOMAIN sess.open : h \in Nat /\ h # 0 /\ h < sess.next
  /\ dropped \subseteq DOMAIN sess.open

\* Where a thread is in an open, has a number, has a slot, or has given the slot up.
Opening(t)  == th[t].pc \in {"stat", "readdir", "open", "null", "claim", "seedopen", "seed",
                             "seedclose"}
OwnsFd(t)   == th[t].pc \in {"claim", "seedopen", "seed", "seedclose", "flush", "release",
                             "free", "real"}
OwnsSlot(t) == th[t].pc \in {"seedopen", "seed", "seedclose", "flush", "release", "free"}
NoSlot(t)   == th[t].pc \in {"claim", "real"}

\* A number has one slot at most, and it is a placeholder to the kernel.
OneSlot ==
  \A i, j \in Slots : tab[i].fd = tab[j].fd /\ tab[i].fd # 0 => i = j
SlotsAreNull ==
  \A i \in Slots : tab[i].fd # 0 => kern[tab[i].fd] = "null"

\* A number in the hands of an open or a close is a placeholder which the program does not
\* know, with the thread's slot or with none, and in no other hands.
Owners ==
  \A t \in Threads : OwnsFd(t) =>
    th[t].fd # 0 /\ kern[th[t].fd] = "null" /\ desc[th[t].fd] = Closed
OwnSlots ==
  \A t \in Threads :
    /\ OwnsSlot(t) => th[t].slot # 0 /\ tab[th[t].slot].fd = th[t].fd
    /\ NoSlot(t) => \A i \in Slots : tab[i].fd # th[t].fd
OneOwner ==
  \A t, u \in Threads : OwnsFd(t) /\ OwnsFd(u) /\ th[t].fd = th[u].fd => t = u
Files ==
  \A t \in Threads :
    /\ Opening(t) => th[t].file \in Paths
    /\ Opening(t) /\ OwnsSlot(t) => tab[th[t].slot].file = th[t].file

\* A free number stands for nothing; any other for what its slot has, or the kernel.
FreeIsClosed ==
  \A n \in Fds : kern[n] = "free" => n # 0 /\ desc[n] = Closed
StandsFor ==
  \A n \in Fds : desc[n] # Closed =>
    /\ \A i \in Slots : n # 0 /\ tab[i].fd = n => tab[i].file = desc[n].file
    /\ (n = 0 \/ \A i \in Slots : tab[i].fd # n) => kern[n] = desc[n].file

Numbers ==
  OneSlot /\ SlotsAreNull /\ Owners /\ OwnSlots /\ OneOwner /\ Files /\ FreeIsClosed /\ StandsFor

\* Who has a handle: a thread in the middle of an open, a slot until it is closed.
Has(t)  == th[t].pc \in {"null", "claim", "seed", "seedclose"}
Live(i) == tab[i].fd # 0 /\ \A t \in Threads : th[t].slot = i => th[t].pc # "free"

\* Handles are the adapter's, each of the file it was opened for, ...
Issued ==
  /\ \A i \in Slots : tab[i].fd # 0 => tab[i].handle < sess.next
  /\ \A t \in Threads : Has(t) => th[t].handle < sess.next
SlotHandles ==
  \A i \in Slots : Live(i) /\ tab[i].handle # 0 =>
    tab[i].handle \in DOMAIN sess.open /\ sess.open[tab[i].handle] = tab[i].file
ThreadHandles ==
  \A t \in Threads : Has(t) /\ th[t].handle # 0 =>
    th[t].handle \in DOMAIN sess.open /\ sess.open[th[t].handle] = th[t].file

\* ... each in one place, ...
Apart ==
  /\ \A i, j \in Slots :
       tab[i].fd # 0 /\ tab[j].fd # 0 /\ tab[i].handle = tab[j].handle /\ tab[i].handle # 0
         => i = j
  /\ \A i \in Slots, t \in Threads :
       tab[i].fd # 0 /\ Has(t) /\ tab[i].handle = th[t].handle => tab[i].handle = 0
  /\ \A t, u \in Threads :
       Has(t) /\ Has(u) /\ th[t].handle = th[u].handle /\ th[t].handle # 0 => t = u
  /\ \A i \in Slots : tab[i].fd # 0 => tab[i].handle \notin dropped
  /\ \A t \in Threads : Has(t) => th[t].handle \notin dropped

\* ... and each in some place.
Kept ==
  \A h \in DOMAIN sess.open :
    \/ h \in dropped
    \/ \E i \in Slots : Live(i) /\ tab[i].handle = h
    \/ \E t \in Threads : Has(t) /\ th[t].handle = h

\* A descriptor to write has no handle.
NoneRead(t) ==
  /\ th[t].pc \in {"stat", "readdir", "open"} => th[t].handle = 0
  /\ th[t].pc \in {"readdir", "open"} => ~Writes(th[t].mode)
  /\ th[t].pc \in {"null", "claim"} /\ Writes(th[t].mode) => th[t].handle = 0
Unread ==
  /\ \A i \in Slots : tab[i].fd # 0 /\ tab[i].writable => tab[i].handle = 0
  /\ \A t \in Threads : NoneRead(t)
  /\ \A t \in Threads : th[t].pc = "flush" => tab[th[t].slot].handle = 0

Handles == Issued /\ SlotHandles /\ ThreadHandles /\ Apart /\ Kept /\ Unread

IInv == Types /\ Numbers /\ Handles

\* The least of a set of numbers is one of them.
LEMMA MinMember ==
  ASSUME NEW S, S \subseteq Nat, S # {}
  PROVE  Min(S) \in S
<1>1. PICK R : R = {m \in Nat \X Nat : m[1] < m[2]}
  OBVIOUS
<1>2. R = OpToRel(<, Nat)
  BY <1>1, Zenon DEF OpToRel
<1>3. IsWellFoundedOn(R, Nat)
  BY <1>2, NatLessThanWellFounded, Zenon
<1>4. PICK x \in S : \A y \in S : <<y, x>> \notin R
  BY <1>3, WFMin, Zenon
<1>5. \A y \in S : x <= y
  <2>1. SUFFICES ASSUME NEW y \in S, ~(x <= y) PROVE FALSE
    OBVIOUS
  <2>2. x \in Nat /\ y \in Nat /\ y < x
    BY <2>1
  <2>3. <<y, x>> \in R
    BY <1>1, <2>2
  <2> QED
    BY <1>4, <2>3
<1> QED
  BY <1>5 DEF Min

----------------------------------------------------------------------------
(* What the steps change.                                                  *)

\* The parts of a thread's, and of a slot's, record that the invariant speaks of.
SameThread(u) ==
  /\ th'[u].pc = th[u].pc /\ th'[u].fd = th[u].fd /\ th'[u].slot = th[u].slot
  /\ th'[u].file = th[u].file /\ th'[u].mode = th[u].mode /\ th'[u].handle = th[u].handle
SameSlot(i) ==
  /\ tab'[i].fd = tab[i].fd /\ tab'[i].file = tab[i].file
  /\ tab'[i].handle = tab[i].handle /\ tab'[i].writable = tab[i].writable
SameNumber(n) == desc'[n].file = desc[n].file /\ (desc'[n] = Closed <=> desc[n] = Closed)

OthersSame(t) == \A u \in Threads \ {t} : SameThread(u)

\* What numbers stand for is kept by a step of a thread that takes no number and gives
\* none up.
LEMMA QuietNumbers ==
  ASSUME Numbers, NEW t \in Threads, OthersSame(t), kern' = kern,
         \A i \in Slots : SameSlot(i), \A n \in Fds : SameNumber(n),
         OwnsFd(t)' => OwnsFd(t) /\ th'[t].fd = th[t].fd,
         OwnsSlot(t)' => OwnsSlot(t) /\ th'[t].slot = th[t].slot,
         NoSlot(t)' => NoSlot(t),
         Opening(t)' => th'[t].file \in Paths,
         Opening(t)' /\ OwnsSlot(t)' => Opening(t) /\ th'[t].file = th[t].file,
         Types, Types'
  PROVE  Numbers'
<1>1. OneSlot'
  BY DEF Numbers, OneSlot, SameSlot
<1>2. SlotsAreNull'
  BY DEF Numbers, SlotsAreNull, SameSlot
<1>3. \A u \in Threads : OwnsFd(u)' => OwnsFd(u) /\ th'[u].fd = th[u].fd
  BY DEF OthersSame, SameThread, OwnsFd
<1>4. \A u \in Threads : OwnsSlot(u)' => OwnsSlot(u) /\ th'[u].slot = th[u].slot /\ OwnsFd(u)'
  BY DEF OthersSame, SameThread, OwnsSlot, OwnsFd
<1>5. \A u \in Threads : NoSlot(u)' => NoSlot(u) /\ OwnsFd(u)'
  BY DEF OthersSame, SameThread, NoSlot, OwnsFd
<1>6. \A u \in Threads : th[u].fd \in Fds /\ (OwnsSlot(u) => th[u].slot \in Slots)
  BY DEF Types, IsThread, Numbers, OwnSlots
<1>7. Owners'
  BY <1>3, <1>6 DEF Numbers, Owners, SameNumber
<1>8. OwnSlots'
  BY <1>3, <1>4, <1>5, <1>6 DEF Numbers, OwnSlots, SameSlot
<1>9. OneOwner'
  BY <1>3 DEF Numbers, OneOwner
<1>10. Files'
  <2>1. \A u \in Threads \ {t} : (Opening(u)' <=> Opening(u)) /\ (OwnsSlot(u)' <=> OwnsSlot(u))
                                 /\ th'[u].file = th[u].file
    BY DEF OthersSame, SameThread, Opening, OwnsSlot
  <2> QED
    BY <1>4, <1>6, <2>1 DEF Numbers, Files, SameSlot
<1>11. FreeIsClosed'
  BY DEF Numbers, FreeIsClosed, SameNumber
<1>12. StandsFor'
  BY DEF Numbers, StandsFor, SameNumber, SameSlot
<1> QED
  BY <1>1, <1>2, <1>7, <1>8, <1>9, <1>10, <1>11, <1>12 DEF Numbers

\* The handles are kept by a step that issues none, releases none and drops none.
LEMMA QuietHandles ==
  ASSUME Types, Numbers, Handles, Types', Numbers', NEW t \in Threads, OthersSame(t),
         sess' = sess, dropped' = dropped,
         \A i \in Slots : tab'[i].fd # 0 => SameSlot(i),
         \A i \in Slots : tab[i].handle # 0 => (Live(i)' <=> Live(i)),
         Has(t)' => (Has(t) /\ th'[t].handle = th[t].handle /\ th'[t].file = th[t].file)
                    \/ th'[t].handle = 0,
         Has(t) /\ th[t].handle # 0 => Has(t)' /\ th'[t].handle = th[t].handle,
         NoneRead(t)',
         th'[t].pc = "flush" => tab[th'[t].slot].handle = 0
  PROVE  Handles'
<1>1. \A u \in Threads : Has(u)' /\ th'[u].handle # 0 =>
        Has(u) /\ th'[u].handle = th[u].handle /\ th'[u].file = th[u].file
  BY DEF OthersSame, SameThread, Has
<1>2. \A u \in Threads : Has(u) /\ th[u].handle # 0 => Has(u)' /\ th'[u].handle = th[u].handle
  BY DEF OthersSame, SameThread, Has
<1>3. \A i \in Slots : Live(i) => tab[i].fd # 0
  BY DEF Live
<1>4. \A i \in Slots : Live(i)' => tab'[i].fd # 0
  BY DEF Live
<1>5. 0 \notin DOMAIN sess.open /\ sess.next \in Nat \ {0} /\ dropped \subseteq DOMAIN sess.open
  BY DEF Types
<1>6. Issued'
  BY <1>1, <1>5 DEF Handles, Issued, SameSlot
<1>7. SlotHandles'
  BY <1>4 DEF Handles, SlotHandles, SameSlot
<1>8. ThreadHandles'
  BY <1>1 DEF Handles, ThreadHandles
<1>9. Apart'
  <2>1. \A i, j \in Slots : tab'[i].fd # 0 /\ tab'[j].fd # 0 /\ tab'[i].handle = tab'[j].handle
           /\ tab'[i].handle # 0 => i = j
    BY DEF Handles, Apart, SameSlot
  <2>2. \A i \in Slots, u \in Threads :
          tab'[i].fd # 0 /\ Has(u)' /\ tab'[i].handle = th'[u].handle => tab'[i].handle = 0
    BY <1>1 DEF Handles, Apart, SameSlot
  <2>3. \A u, v \in Threads :
          Has(u)' /\ Has(v)' /\ th'[u].handle = th'[v].handle /\ th'[u].handle # 0 => u = v
    BY <1>1 DEF Handles, Apart
  <2>4. \A i \in Slots : tab'[i].fd # 0 => tab'[i].handle \notin dropped
    BY DEF Handles, Apart, SameSlot
  <2>5. \A u \in Threads : Has(u)' => th'[u].handle \notin dropped
    BY <1>1, <1>5 DEF Handles, Apart
  <2> QED
    BY <2>1, <2>2, <2>3, <2>4, <2>5 DEF Apart
<1>10. Kept'
  <2>1. SUFFICES ASSUME NEW h \in DOMAIN sess.open, h \notin dropped
                 PROVE  \/ \E i \in Slots : Live(i)' /\ tab'[i].handle = h
                        \/ \E u \in Threads : Has(u)' /\ th'[u].handle = h
    BY DEF Kept
  <2>2. h # 0
    BY <1>5
  <2>3. CASE \E i \in Slots : Live(i) /\ tab[i].handle = h
    BY <2>2, <2>3, <1>4 DEF SameSlot
  <2>4. CASE \E u \in Threads : Has(u) /\ th[u].handle = h
    BY <2>2, <2>4, <1>2
  <2> QED
    BY <2>1, <2>3, <2>4 DEF Handles, Kept
<1>11. Unread'
  <2>1. \A i \in Slots : tab'[i].fd # 0 /\ tab'[i].writable => tab'[i].handle = 0
    BY DEF Handles, Unread, SameSlot
  <2>2. \A u \in Threads : NoneRead(u)'
    BY DEF Handles, Unread, NoneRead, OthersSame, SameThread
  <2>3. \A u \in Threads : th'[u].pc = "flush" => tab[th'[u].slot].handle = 0
    BY DEF Handles, Unread, OthersSame, SameThread
  <2>4. \A u \in Threads : th'[u].pc = "flush" =>
          th'[u].slot \in Slots /\ tab'[th'[u].slot].fd # 0
    BY DEF Numbers, OwnSlots, Owners, OwnsSlot, OwnsFd, Types, IsThread
  <2>5. \A u \in Threads : th'[u].pc = "flush" => tab'[th'[u].slot].handle = 0
    BY <2>3, <2>4 DEF SameSlot
  <2> QED
    BY <2>1, <2>2, <2>5 DEF Unread
<1> QED
  BY <1>6, <1>7, <1>8, <1>9, <1>10, <1>11 DEF Handles

\* A slot is as live as it was when nobody begins or ends to give one up.
LEMMA LiveSame ==
  ASSUME NEW t \in Threads, OthersSame(t), th[t].pc # "free", th'[t].pc # "free",
         NEW i \in Slots, tab'[i].fd = tab[i].fd
  PROVE  Live(i)' <=> Live(i)
BY DEF Live, OthersSame, SameThread

\* A thread that is between calls.
LEMMA IdleThread ==
  /\ IsThread(Idle) /\ Idle.pc = "idle" /\ Idle.fd = 0 /\ Idle.slot = 0 /\ Idle.handle = 0
  BY InterposeAssumption DEF IsThread, Idle, Fds, Slots

\* A thread's own step: the others stay as they are.
Moves(t) == DOMAIN th' = Threads /\ \A u \in Threads \ {t} : th'[u] = th[u]

\* A step of one thread leaves the others as they are.
LEMMA MovesAlone ==
  ASSUME NEW t \in Threads, Moves(t)
  PROVE  OthersSame(t)
BY DEF Moves, OthersSame, SameThread

\* A thread goes from one point of a handler to another.
LEMMA GotoEffect ==
  ASSUME Types, NEW t \in Threads, NEW pc, Goto(t, pc)
  PROVE  /\ Moves(t) /\ IsThread(th'[t]) /\ th'[t].pc = pc
         /\ th'[t].fd = th[t].fd /\ th'[t].slot = th[t].slot /\ th'[t].file = th[t].file
         /\ th'[t].mode = th[t].mode /\ th'[t].handle = th[t].handle
BY DEF Types, Goto, IsThread, Moves

\* A handler ends.
LEMMA FailEffect ==
  ASSUME Types, NEW t \in Threads, Fail(t)
  PROVE  Moves(t) /\ th'[t] = Idle
BY DEF Types, Fail, Moves

----------------------------------------------------------------------------
(* Steps that neither take nor give up a number or a handle.               *)

\* An open before it takes a number.
LEMMA StartInv ==
  ASSUME IInv, NEW t \in Threads, Moves(t), IsThread(th'[t]),
         UNCHANGED <<kern, tab, desc, sess, dropped>>,
         th[t].pc \in {"idle", "stat", "readdir"},
         th'[t].pc \in {"idle", "stat", "readdir", "open", "null"},
         th'[t].pc # "idle" => th'[t].file \in Paths /\ th'[t].handle = 0,
         th'[t].pc \in {"readdir", "open"} => ~Writes(th'[t].mode)
  PROVE  IInv'
<1>1. Types /\ Numbers /\ Handles
  BY DEF IInv
<1>2. Types'
  BY <1>1 DEF Types, Moves
<1>3. OthersSame(t) /\ \A i \in Slots : SameSlot(i)
  BY MovesAlone DEF SameSlot
<1>4. \A n \in Fds : SameNumber(n)
  BY DEF SameNumber
<1>5. ~OwnsFd(t)' /\ ~OwnsSlot(t)' /\ ~NoSlot(t)' /\ ~Has(t)
      /\ (Opening(t)' => th'[t].file \in Paths) /\ (Has(t)' => th'[t].handle = 0)
  BY DEF OwnsFd, OwnsSlot, NoSlot, Opening, Has
<1>6. Numbers'
  BY <1>1, <1>2, <1>3, <1>4, <1>5, QuietNumbers
<1>7. \A i \in Slots : Live(i)' <=> Live(i)
  BY <1>3, LiveSame
<1>8. NoneRead(t)' /\ th'[t].pc # "flush"
  BY DEF NoneRead
<1>9. Handles'
  BY <1>1, <1>2, <1>3, <1>5, <1>6, <1>7, <1>8, QuietHandles
<1> QED
  BY <1>2, <1>6, <1>9 DEF IInv

\* open, at its start.
LEMMA OpenInv ==
  ASSUME IInv, NEW t \in Threads, NEW p \in Paths, NEW m \in Modes, Open(t, p, m)
  PROVE  IInv'
<1>1. /\ Moves(t) /\ IsThread(th'[t]) /\ th'[t].pc = "stat" /\ th'[t].file = p
      /\ th'[t].handle = 0 /\ th[t].pc = "idle"
  BY IdleThread DEF Open, IInv, Types, Moves, IsThread, Idle
<1>2. UNCHANGED <<kern, tab, desc, sess, dropped>>
  BY DEF Open
<1> QED
  BY <1>1, <1>2, StartInv

\* The probe of an open.
LEMMA StatInv ==
  ASSUME IInv, NEW t \in Threads, Stat(t)
  PROVE  IInv'
<1>1. th[t].pc = "stat" /\ UNCHANGED <<kern, tab, desc, sess, dropped>>
  BY DEF Stat
<1>2. th[t].file \in Paths /\ th[t].handle = 0 /\ IsThread(th[t]) /\ DOMAIN th = Threads
  BY <1>1 DEF IInv, Types, Numbers, Files, Opening, Handles, Unread, NoneRead
<1>3. \/ th' = [th EXCEPT ![t].pc = "readdir", ![t].mode = "read"]
      \/ Goto(t, "open") /\ th[t].mode = "read"
      \/ Fail(t)
      \/ \E a, b : th' = [th EXCEPT ![t].pc = "null", ![t].whole = a, ![t].seed = b]
  BY DEF Stat
<1>4. CASE th' = [th EXCEPT ![t].pc = "readdir", ![t].mode = "read"]
  <2>1. /\ Moves(t) /\ IsThread(th'[t]) /\ th'[t].pc = "readdir" /\ th'[t].file = th[t].file
        /\ th'[t].handle = th[t].handle /\ th'[t].mode = "read"
    BY <1>2, <1>4 DEF Moves, IsThread
  <2> QED
    BY <1>1, <1>2, <2>1, StartInv DEF Writes
<1>5. CASE Goto(t, "open") /\ th[t].mode = "read"
  BY <1>1, <1>2, <1>5, GotoEffect, StartInv DEF Writes, IInv
<1>6. CASE Fail(t)
  BY <1>1, <1>6, FailEffect, IdleThread, StartInv DEF IInv
<1>7. ASSUME NEW a, NEW b, th' = [th EXCEPT ![t].pc = "null", ![t].whole = a, ![t].seed = b]
      PROVE  IInv'
  <2>1. /\ Moves(t) /\ IsThread(th'[t]) /\ th'[t].pc = "null" /\ th'[t].file = th[t].file
        /\ th'[t].handle = th[t].handle
    BY <1>2, <1>7 DEF Moves, IsThread
  <2> QED
    BY <1>1, <1>2, <2>1, StartInv
<1> QED
  BY <1>3, <1>4, <1>5, <1>6, <1>7

\* The listing of a directory.
LEMMA ReadDirInv ==
  ASSUME IInv, NEW t \in Threads, ReadDir(t)
  PROVE  IInv'
<1>1. th[t].pc = "readdir" /\ UNCHANGED <<kern, tab, desc, sess, dropped>>
  BY DEF ReadDir
<1>2. th[t].file \in Paths /\ th[t].handle = 0
  BY <1>1 DEF IInv, Numbers, Files, Opening, Handles, Unread, NoneRead
<1>3. CASE Goto(t, "null")
  BY <1>1, <1>2, <1>3, GotoEffect, StartInv DEF IInv
<1>4. CASE Fail(t)
  BY <1>1, <1>4, FailEffect, IdleThread, StartInv DEF IInv
<1> QED
  BY <1>3, <1>4 DEF ReadDir

\* The buffer of an open or of a descriptor is filled.
LEMMA SeedInv ==
  ASSUME IInv, NEW t \in Threads, Seed(t)
  PROVE  IInv'
<1>1. Types /\ Numbers /\ Handles
  BY DEF IInv
<1>2. th[t].pc = "seed" /\ UNCHANGED <<kern, desc, sess, dropped>>
  BY DEF Seed
<1>3. /\ Moves(t) /\ IsThread(th'[t]) /\ th'[t].pc \in {"seed", "seedclose"}
      /\ th'[t].fd = th[t].fd /\ th'[t].slot = th[t].slot /\ th'[t].file = th[t].file
      /\ th'[t].mode = th[t].mode /\ th'[t].handle = th[t].handle
  <2>1. CASE UNCHANGED th
    BY <1>1, <1>2, <2>1 DEF Types, Moves
  <2>2. CASE Goto(t, "seedclose")
    BY <1>1, <2>2, GotoEffect
  <2>3. CASE th' = [th EXCEPT ![t].pc = "seedclose", ![t].whole = FALSE]
    BY <1>1, <2>3 DEF Types, Moves, IsThread
  <2> QED
    BY <2>1, <2>2, <2>3 DEF Seed
<1>4. /\ DOMAIN tab' = Slots /\ \A i \in Slots : IsSlot(tab'[i]) /\ SameSlot(i)
  <2>1. CASE UNCHANGED tab
    BY <1>1, <2>1 DEF Types, SameSlot
  <2>2. ASSUME NEW b, tab' = [tab EXCEPT ![th[t].slot].wbuf = b]
        PROVE  DOMAIN tab' = Slots /\ \A i \in Slots : IsSlot(tab'[i]) /\ SameSlot(i)
    BY <1>1, <2>2 DEF Types, SameSlot, IsSlot
  <2> QED
    BY <2>1, <2>2 DEF Seed
<1>5. Types'
  BY <1>1, <1>2, <1>3, <1>4 DEF Types, Moves
<1>6. OthersSame(t) /\ \A n \in Fds : SameNumber(n)
  BY <1>2, <1>3, MovesAlone DEF SameNumber
<1>7. /\ OwnsFd(t) /\ OwnsSlot(t) /\ Opening(t) /\ Has(t) /\ ~NoSlot(t)' /\ Has(t)'
      /\ th[t].file \in Paths
  BY <1>1, <1>2, <1>3 DEF OwnsFd, OwnsSlot, NoSlot, Opening, Has, Numbers, Files
<1>8. Numbers'
  BY <1>1, <1>2, <1>3, <1>4, <1>5, <1>6, <1>7, QuietNumbers
<1>9. \A i \in Slots : Live(i)' <=> Live(i)
  BY <1>2, <1>3, <1>4, <1>6, LiveSame DEF SameSlot
<1>10. NoneRead(t)' /\ th'[t].pc # "flush"
  BY <1>3 DEF NoneRead
<1>11. Handles'
  BY <1>1, <1>2, <1>3, <1>4, <1>5, <1>6, <1>7, <1>8, <1>9, <1>10, QuietHandles
<1> QED
  BY <1>5, <1>8, <1>11 DEF IInv

\* write and pwrite: the buffer of a slot changes.
LEMMA WriteInv ==
  ASSUME IInv, NEW t \in Threads, NEW n \in Fds, NEW o, Write(t, n, o)
  PROVE  IInv'
<1>1. Types /\ Numbers /\ Handles
  BY DEF IInv
<1>2. UNCHANGED <<kern, th, sess, dropped>>
  BY DEF Write
<1>3. /\ DOMAIN tab' = Slots /\ \A i \in Slots : IsSlot(tab'[i]) /\ SameSlot(i)
  <2>1. PICK i, b : tab' = [tab EXCEPT ![i].wbuf = b]
    BY DEF Write
  <2> QED
    BY <1>1, <2>1 DEF Types, SameSlot, IsSlot
<1>4. /\ DOMAIN desc' = Fds /\ \A k \in Fds : IsDesc(desc'[k]) /\ SameNumber(k)
  <2>1. \/ \E w : desc' = [desc EXCEPT ![n].want = w]
        \/ desc' = [desc EXCEPT ![n] = [@ EXCEPT !.whole = FALSE, !.want = <<>>]]
    BY DEF Write, Spoiled
  <2>2. \A k \in Fds \ {n} : desc'[k] = desc[k]
    BY <1>1, <2>1 DEF Types
  <2>3. /\ DOMAIN desc' = Fds /\ IsDesc(desc'[n])
        /\ desc'[n].file = desc[n].file /\ desc'[n].mode = desc[n].mode
    <3>1. DOMAIN desc = Fds /\ IsDesc(desc[n])
      BY <1>1 DEF Types
    <3>2. CASE \E w : desc' = [desc EXCEPT ![n].want = w]
      BY <3>1, <3>2 DEF IsDesc
    <3>3. CASE desc' = [desc EXCEPT ![n] = [@ EXCEPT !.whole = FALSE, !.want = <<>>]]
      BY <3>1, <3>3 DEF IsDesc
    <3> QED
      BY <2>1, <3>2, <3>3
  <2>4. Writes(desc[n].mode) /\ ~Writes(Closed.mode)
    BY InterposeAssumption DEF Write, Closed, Writes
  <2> QED
    BY <1>1, <2>2, <2>3, <2>4 DEF Types, SameNumber
<1>5. Types'
  BY <1>1, <1>2, <1>3, <1>4 DEF Types
<1>6. OthersSame(t)
  BY <1>2 DEF OthersSame, SameThread
<1>7. /\ th[t].pc = "idle"
      /\ ~OwnsFd(t)' /\ ~OwnsSlot(t)' /\ ~NoSlot(t)' /\ ~Opening(t)' /\ ~Has(t)' /\ ~Has(t)
  BY <1>2, IdleThread DEF Write, OwnsFd, OwnsSlot, NoSlot, Opening, Has
<1>8. Numbers'
  BY <1>1, <1>2, <1>3, <1>4, <1>5, <1>6, <1>7, QuietNumbers
<1>9. \A i \in Slots : Live(i)' <=> Live(i)
  BY <1>2, <1>3, <1>6, <1>7, LiveSame DEF SameSlot
<1>10. NoneRead(t)' /\ th'[t].pc # "flush"
  BY <1>2, <1>7 DEF NoneRead
<1>11. Handles'
  BY <1>1, <1>2, <1>3, <1>5, <1>6, <1>7, <1>8, <1>9, <1>10, QuietHandles
<1> QED
  BY <1>5, <1>8, <1>11 DEF IInv

\* A write-back, done or failed: what others know of the file changes, no number does.
LEMMA FlushInv ==
  ASSUME IInv, NEW t \in Threads, Flush(t)
  PROVE  IInv'
<1> DEFINE f == tab[th[t].slot].file
           Spoil(r) == IF r.file = f /\ Writes(r.mode) THEN Spoiled(r) ELSE r
<1>1. Types /\ Numbers /\ Handles
  BY DEF IInv
<1>2. th[t].pc = "flush" /\ UNCHANGED <<kern, tab, sess, dropped>>
  BY DEF Flush
<1>3. th[t].slot \in Slots /\ tab[th[t].slot].fd # 0 /\ tab[th[t].slot].handle = 0 /\ f \in Paths
  BY <1>1, <1>2 DEF Types, Numbers, Owners, OwnSlots, OwnsFd, OwnsSlot, Handles, Unread,
                    IsThread, IsSlot
<1>4. \A r : IsThread(r) => /\ IsThread(Spoiled(r)) /\ Spoiled(r).pc = r.pc
                            /\ Spoiled(r).fd = r.fd /\ Spoiled(r).slot = r.slot
                            /\ Spoiled(r).file = r.file /\ Spoiled(r).mode = r.mode
                            /\ Spoiled(r).handle = r.handle
  BY DEF IsThread, Spoiled
<1>5. /\ DOMAIN th' = Threads /\ \A u \in Threads : IsThread(th'[u])
      /\ OthersSame(t) /\ th'[t].pc = "free"
      /\ th'[t].fd = th[t].fd /\ th'[t].slot = th[t].slot /\ th'[t].file = th[t].file
      /\ th'[t].mode = th[t].mode /\ th'[t].handle = th[t].handle
  <2> DEFINE r == [th[t] EXCEPT !.pc = "free"]
  <2>1. /\ IsThread(r) /\ r.pc = "free" /\ r.fd = th[t].fd /\ r.slot = th[t].slot
        /\ r.file = th[t].file /\ r.mode = th[t].mode /\ r.handle = th[t].handle
    BY <1>1 DEF Types, IsThread
  <2>2. CASE th' = [u \in Threads |-> IF u = t THEN r ELSE Spoil(th[u])]
    <3>1. DOMAIN th' = Threads /\ th'[t] = r /\ \A u \in Threads \ {t} : th'[u] = Spoil(th[u])
      BY <2>2
    <3>2. \A u \in Threads \ {t} : IsThread(th[u]) /\ th'[u] \in {th[u], Spoiled(th[u])}
      BY <1>1, <3>1 DEF Types
    <3>3. \A u \in Threads \ {t} : IsThread(th'[u]) /\ SameThread(u)
      BY <1>4, <3>2 DEF SameThread
    <3> QED
      BY <2>1, <3>1, <3>3 DEF OthersSame
  <2>3. CASE th' = [th EXCEPT ![t] = Spoiled(r)]
    <3>1. DOMAIN th' = Threads /\ th'[t] = Spoiled(r) /\ \A u \in Threads \ {t} : th'[u] = th[u]
      BY <1>1, <2>3 DEF Types
    <3>2. Moves(t)
      BY <3>1 DEF Moves
    <3>3. \A u \in Threads \ {t} : IsThread(th'[u])
      BY <1>1, <3>1 DEF Types
    <3> HIDE DEF r
    <3> QED
      BY <1>4, <2>1, <3>1, <3>2, <3>3, MovesAlone
  <2>4. \/ th' # [th EXCEPT ![t] = Spoiled([@ EXCEPT !.pc = "free"])]
        \/ th' = [th EXCEPT ![t] = Spoiled(r)]
    OBVIOUS
  <2> QED
    BY <2>2, <2>3, <2>4 DEF Flush
<1>6. DOMAIN desc' = Fds /\ \A n \in Fds : IsDesc(desc'[n]) /\ SameNumber(n)
  <2>1. CASE desc' = [n \in Fds |-> Spoil(desc[n])]
    <3>1. \A d : IsDesc(d) => IsDesc(Spoiled(d)) /\ Spoiled(d).file = d.file
      BY DEF IsDesc, Spoiled
    <3>2. \A d : d.file = f => d # Closed
      BY <1>3, InterposeAssumption DEF Closed
    <3>3. \A n \in Fds : IsDesc(desc[n]) /\ desc'[n] = Spoil(desc[n])
      BY <1>1, <2>1 DEF Types
    <3>4. \A n \in Fds : IsDesc(desc'[n]) /\ desc'[n].file = desc[n].file
                         /\ (desc'[n] # desc[n] => desc[n].file = f)
      BY <3>1, <3>3
    <3>5. \A n \in Fds : desc'[n] = Closed <=> desc[n] = Closed
      BY <3>2, <3>4
    <3> QED
      BY <2>1, <3>4, <3>5 DEF SameNumber
  <2>2. CASE UNCHANGED desc
    BY <1>1, <2>2 DEF Types, SameNumber
  <2> QED
    BY <2>1, <2>2 DEF Flush
<1>7. Types'
  BY <1>1, <1>2, <1>5, <1>6 DEF Types
<1>8. \A i \in Slots : SameSlot(i)
  BY <1>2 DEF SameSlot
<1>9. OwnsFd(t) /\ OwnsSlot(t) /\ ~NoSlot(t)' /\ ~Opening(t)' /\ ~Has(t) /\ ~Has(t)' /\ NoneRead(t)'
  BY <1>2, <1>5 DEF OwnsFd, OwnsSlot, NoSlot, Opening, Has, NoneRead
<1>10. Numbers'
  BY <1>1, <1>2, <1>5, <1>6, <1>7, <1>8, <1>9, QuietNumbers
<1>11. \A i \in Slots : i # th[t].slot => (Live(i)' <=> Live(i))
  BY <1>2, <1>5 DEF Live, OthersSame, SameThread
<1>12. Handles'
  BY <1>1, <1>2, <1>3, <1>5, <1>7, <1>8, <1>9, <1>10, <1>11, QuietHandles
<1> QED
  BY <1>7, <1>10, <1>12 DEF IInv

----------------------------------------------------------------------------
(* Steps that take a number from the kernel, or give one back.             *)

\* The numbers are the kernel's, and the least free one is free.
LEMMA FreeNumber ==
  ASSUME Types, Numbers, FreeFds # {}
  PROVE  Min(FreeFds) \in Fds /\ kern[Min(FreeFds)] = "free" /\ Min(FreeFds) # 0
<1>1. FreeFds \subseteq Nat
  BY InterposeAssumption DEF FreeFds, Fds
<1>2. Min(FreeFds) \in FreeFds
  BY <1>1, MinMember
<1> QED
  BY <1>2 DEF FreeFds, Numbers, FreeIsClosed

\* An open that is not routed.
LEMMA OpenLocalInv ==
  ASSUME IInv, NEW t \in Threads, NEW f \in Locals, OpenLocal(t, f)
  PROVE  IInv'
<1>1. Types /\ Numbers /\ Handles
  BY DEF IInv
<1>2. UNCHANGED <<tab, th, sess, dropped>>
  BY DEF OpenLocal
<1>3. PICK n \in Fds : /\ kern[n] = "free" /\ kern' = [kern EXCEPT ![n] = f]
                       /\ desc' = [desc EXCEPT ![n] = [Closed EXCEPT !.file = f, !.mode = "local"]]
  BY <1>1, FreeNumber DEF OpenLocal
<1>4. /\ DOMAIN kern' = Fds /\ kern'[n] = f /\ \A k \in Fds \ {n} : kern'[k] = kern[k]
      /\ f \notin {"free", "null"}
  BY <1>1, <1>3, InterposeAssumption DEF Types
<1>5. /\ DOMAIN desc' = Fds /\ IsDesc(desc'[n]) /\ desc'[n].file = f
      /\ \A k \in Fds \ {n} : desc'[k] = desc[k]
  BY <1>1, <1>3 DEF Types, Closed, IsDesc
<1>6. Types'
  BY <1>1, <1>2, <1>4, <1>5 DEF Types
<1>7. \A i \in Slots : tab[i].fd # n \/ tab[i].fd = 0
  BY <1>1, <1>3 DEF Numbers, SlotsAreNull
<1>8. n # 0
  BY <1>1, <1>3 DEF Numbers, FreeIsClosed
<1>9. \A u \in Threads : OwnsFd(u) => th[u].fd # n /\ th[u].fd \in Fds
  BY <1>1, <1>3 DEF Numbers, Owners, Types, IsThread
<1>10. \A u \in Threads : (OwnsFd(u)' <=> OwnsFd(u)) /\ (OwnsSlot(u)' <=> OwnsSlot(u))
         /\ (NoSlot(u)' <=> NoSlot(u)) /\ (Opening(u)' <=> Opening(u)) /\ (Has(u)' <=> Has(u))
         /\ (NoneRead(u)' <=> NoneRead(u))
  BY <1>2 DEF OwnsFd, OwnsSlot, NoSlot, Opening, Has, NoneRead
<1>11. OneSlot' /\ OwnSlots' /\ OneOwner' /\ Files'
  BY <1>1, <1>2, <1>10 DEF Numbers, OneSlot, OwnSlots, OneOwner, Files
<1>12. SlotsAreNull'
  BY <1>1, <1>2, <1>4, <1>7 DEF Numbers, SlotsAreNull, Types, IsSlot
<1>13. Owners'
  BY <1>1, <1>2, <1>4, <1>5, <1>9, <1>10 DEF Numbers, Owners
<1>14. FreeIsClosed'
  BY <1>1, <1>4, <1>5 DEF Numbers, FreeIsClosed
<1>15. StandsFor'
  BY <1>1, <1>2, <1>4, <1>5, <1>7, <1>8 DEF Numbers, StandsFor
<1>16. Numbers'
  BY <1>11, <1>12, <1>13, <1>14, <1>15 DEF Numbers
<1>17. OthersSame(t) /\ \A i \in Slots : SameSlot(i) /\ (Live(i)' <=> Live(i))
  BY <1>2 DEF OthersSame, SameThread, SameSlot, Live
<1>18. NoneRead(t)' /\ (th'[t].pc = "flush" => tab[th'[t].slot].handle = 0)
  BY <1>1, <1>2, <1>10 DEF Handles, Unread
<1>19. Handles'
  BY <1>1, <1>2, <1>6, <1>10, <1>16, <1>17, <1>18, QuietHandles
<1> QED
  BY <1>6, <1>16, <1>19 DEF IInv

\* What the step of one thread leaves of the others.
SamePhase(u) ==
  /\ (OwnsFd(u)' <=> OwnsFd(u)) /\ (OwnsSlot(u)' <=> OwnsSlot(u))
  /\ (NoSlot(u)' <=> NoSlot(u)) /\ (Opening(u)' <=> Opening(u)) /\ (Has(u)' <=> Has(u))
  /\ (OwnsSlot(u) \/ NoSlot(u) => OwnsFd(u))

\* Other threads stay where they are in their handlers.
LEMMA OthersPhases ==
  ASSUME NEW t \in Threads, OthersSame(t)
  PROVE  \A u \in Threads \ {t} : SamePhase(u)
BY DEF OthersSame, SameThread, SamePhase, OwnsFd, OwnsSlot, NoSlot, Opening, Has

\* A failed open leaves its handle to nobody.
LEMMA DropHandles ==
  ASSUME Types, Numbers, Handles, Types', Numbers', NEW t \in Threads, Moves(t),
         th'[t] = Idle, th[t].pc \in {"null", "claim"}, tab' = tab, sess' = sess,
         dropped' = dropped \cup ({th[t].handle} \ {0})
  PROVE  Handles'
<1>1. Has(t) /\ ~Has(t)'
  BY IdleThread DEF Has
<1>2. \A u \in Threads : Has(u)' => u # t /\ Has(u) /\ th'[u] = th[u]
  BY <1>1 DEF Moves, Has
<1>3. \A i \in Slots : Live(i)' <=> Live(i)
  BY IdleThread, MovesAlone, LiveSame
<1>4. 0 \notin DOMAIN sess.open /\ 0 \notin dropped
  BY DEF Types
<1>5. Issued' /\ SlotHandles' /\ ThreadHandles'
  BY <1>2, <1>3 DEF Handles, Issued, SlotHandles, ThreadHandles
<1>6. Apart'
  <2>1. \A i \in Slots : tab[i].fd # 0 => tab[i].handle \notin dropped'
    BY <1>1 DEF Handles, Apart
  <2>2. \A u \in Threads : Has(u)' => th'[u].handle \notin dropped'
    BY <1>1, <1>2 DEF Handles, Apart
  <2> QED
    BY <1>2, <2>1, <2>2 DEF Handles, Apart
<1>7. Kept'
  BY <1>2, <1>3, <1>4 DEF Handles, Kept, Moves, Has
<1>8. Unread'
  BY IdleThread DEF Handles, Unread, NoneRead, Moves
<1> QED
  BY <1>5, <1>6, <1>7, <1>8 DEF Handles

\* A thread takes a number to which it is bound from there on.
LEMMA PlaceholderInv ==
  ASSUME IInv, NEW t \in Threads, Placeholder(t)
  PROVE  IInv'
<1>1. Types /\ Numbers /\ Handles
  BY DEF IInv
<1>2. th[t].pc = "null" /\ UNCHANGED <<tab, desc, sess>>
  BY DEF Placeholder
<1>3. th[t].file \in Paths /\ IsThread(th[t]) /\ DOMAIN th = Threads
  BY <1>1, <1>2 DEF Numbers, Files, Opening, Types
<1>4. (\A i \in Slots : SameSlot(i)) /\ \A n \in Fds : SameNumber(n)
  BY <1>2 DEF SameSlot, SameNumber
<1>5. CASE Abandon(t) /\ UNCHANGED kern
  <2>1. Moves(t) /\ th'[t] = Idle /\ dropped' = dropped \cup ({th[t].handle} \ {0})
    BY <1>1, <1>5, FailEffect DEF Abandon
  <2>2. Types'
    BY <1>1, <1>2, <1>5, <2>1, IdleThread DEF Types, Moves, Handles, ThreadHandles, Has
  <2>3. ~OwnsFd(t)' /\ ~OwnsSlot(t)' /\ ~NoSlot(t)' /\ ~Opening(t)'
    BY <2>1, IdleThread DEF OwnsFd, OwnsSlot, NoSlot, Opening
  <2>4. Numbers'
    BY <1>1, <1>4, <1>5, <2>1, <2>2, <2>3, MovesAlone, QuietNumbers
  <2>5. Handles'
    BY <1>1, <1>2, <2>1, <2>2, <2>4, DropHandles
  <2> QED
    BY <2>2, <2>4, <2>5 DEF IInv
<1>6. ASSUME NEW n \in Fds, kern[n] = "free", n # 0, kern' = [kern EXCEPT ![n] = "null"],
             th' = [th EXCEPT ![t].pc = "claim", ![t].fd = n], UNCHANGED dropped
      PROVE  IInv'
  <2>1. DOMAIN kern' = Fds /\ kern'[n] = "null" /\ \A k \in Fds \ {n} : kern'[k] = kern[k]
    BY <1>1, <1>6 DEF Types
  <2>2. /\ Moves(t) /\ IsThread(th'[t]) /\ th'[t].pc = "claim" /\ th'[t].fd = n
        /\ th'[t].slot = th[t].slot /\ th'[t].file = th[t].file
        /\ th'[t].mode = th[t].mode /\ th'[t].handle = th[t].handle
    BY <1>3, <1>6 DEF Moves, IsThread
  <2>3. OthersSame(t)
    BY <2>2, MovesAlone
  <2>4. Types'
    BY <1>1, <1>2, <1>6, <2>1, <2>2 DEF Types, Moves
  <2>5. /\ desc[n] = Closed /\ \A i \in Slots : tab[i].fd # n
        /\ \A u \in Threads : OwnsFd(u) => th[u].fd # n /\ th[u].fd \in Fds
    BY <1>1, <1>6 DEF Numbers, FreeIsClosed, SlotsAreNull, Owners, Types, IsThread
  <2>6. /\ OwnsFd(t)' /\ ~OwnsSlot(t)' /\ Has(t) /\ Has(t)'
        /\ \A u \in Threads \ {t} : SamePhase(u)
    BY <1>2, <2>2, <2>3, OthersPhases DEF OwnsFd, OwnsSlot, Has
  <2>7. OneSlot' /\ FreeIsClosed' /\ StandsFor'
    BY <1>1, <1>2, <2>1, <2>5 DEF Numbers, OneSlot, FreeIsClosed, StandsFor
  <2>8. SlotsAreNull'
    BY <1>1, <1>2, <2>1, <2>5 DEF Numbers, SlotsAreNull, Types, IsSlot
  <2>9. Owners'
    BY <1>1, <1>2, <1>6, <2>1, <2>2, <2>5, <2>6 DEF SamePhase, Numbers, Owners, Moves
  <2>10. OwnSlots'
    BY <1>1, <1>2, <2>2, <2>5, <2>6 DEF SamePhase, Numbers, OwnSlots, Moves
  <2>11. OneOwner'
    BY <1>1, <2>2, <2>5, <2>6 DEF SamePhase, Numbers, OneOwner, Moves
  <2>12. Files'
    BY <1>1, <1>2, <1>3, <2>2, <2>6 DEF SamePhase, Numbers, Files, Moves
  <2>13. Numbers'
    BY <2>7, <2>8, <2>9, <2>10, <2>11, <2>12 DEF Numbers
  <2>14. \A i \in Slots : Live(i)' <=> Live(i)
    BY <1>2, <2>2, <2>3, LiveSame
  <2>15. NoneRead(t)' /\ th'[t].pc # "flush"
    BY <1>1, <1>2, <2>2 DEF Handles, Unread, NoneRead
  <2>16. Handles'
    BY <1>1, <1>2, <1>4, <1>6, <2>2, <2>3, <2>4, <2>6, <2>13, <2>14, <2>15, QuietHandles
  <2> QED
    BY <2>4, <2>13, <2>16 DEF IInv
<1> QED
  BY <1>1, <1>5, <1>6, FreeNumber DEF Placeholder

\* The number goes back to the kernel, after the slot or in place of one.
LEMMA FreesNumber ==
  ASSUME Types, Numbers, NEW t \in Threads, Moves(t), th'[t] = Idle,
         OwnsFd(t), NoSlot(t), kern' = [kern EXCEPT ![th[t].fd] = "free"],
         tab' = tab, desc' = desc
  PROVE  Numbers'
<1>1. th[t].fd \in Fds /\ th[t].fd # 0 /\ desc[th[t].fd] = Closed
      /\ \A i \in Slots : tab[i].fd # th[t].fd
  BY DEF Types, IsThread, Numbers, Owners, OwnSlots
<1>2. DOMAIN kern' = Fds /\ kern'[th[t].fd] = "free"
      /\ \A k \in Fds \ {th[t].fd} : kern'[k] = kern[k]
  BY <1>1 DEF Types
<1>3. ~OwnsFd(t)' /\ ~OwnsSlot(t)' /\ ~NoSlot(t)' /\ ~Opening(t)'
  BY IdleThread DEF OwnsFd, OwnsSlot, NoSlot, Opening
<1>4. \A u \in Threads : /\ OwnsFd(u)' => u # t /\ OwnsFd(u)
                         /\ OwnsSlot(u)' => u # t /\ OwnsSlot(u)
                         /\ NoSlot(u)' => u # t /\ NoSlot(u)
                         /\ Opening(u)' => u # t /\ Opening(u)
  BY <1>3 DEF Moves, OwnsFd, OwnsSlot, NoSlot, Opening
<1>5. \A u \in Threads \ {t} : OwnsFd(u) => th[u].fd # th[t].fd /\ th[u].fd \in Fds
  BY DEF Numbers, OneOwner, Types, IsThread
<1>6. OneSlot' /\ OneOwner'
  BY <1>4 DEF Numbers, OneSlot, OneOwner, Moves
<1>7. SlotsAreNull'
  BY <1>1, <1>2 DEF Numbers, SlotsAreNull, Types, IsSlot
<1>8. Owners'
  BY <1>2, <1>4, <1>5 DEF Numbers, Owners, Moves
<1>9. OwnSlots' /\ Files'
  BY <1>4 DEF Numbers, OwnSlots, Files, Moves
<1>10. FreeIsClosed' /\ StandsFor'
  BY <1>1, <1>2 DEF Numbers, FreeIsClosed, StandsFor
<1> QED
  BY <1>6, <1>7, <1>8, <1>9, <1>10 DEF Numbers

----------------------------------------------------------------------------
(* Steps that issue a handle, or release one.                              *)

\* A handle is issued to a thread that had none.
LEMMA IssueHandles ==
  ASSUME Types, Numbers, Handles, Types', Numbers', NEW t \in Threads, OthersSame(t),
         Issue(th[t].file), ~Has(t), th[t].pc # "free", tab' = tab, dropped' = dropped,
         th'[t].pc \in {"null", "seed"}, th'[t].handle = sess.next, th'[t].file = th[t].file,
         th'[t].pc = "null" => ~Writes(th'[t].mode)
  PROVE  Handles'
<1> DEFINE h == sess.next
<1>1. /\ sess'.next = h + 1 /\ DOMAIN sess'.open = DOMAIN sess.open \cup {h}
      /\ sess'.open[h] = th[t].file
      /\ \A x \in DOMAIN sess.open : x # h /\ sess'.open[x] = sess.open[x]
  BY DEF Issue, Types
<1>2. h \in Nat \ {0} /\ dropped \subseteq DOMAIN sess.open
  BY DEF Types
<1>3. Has(t)' /\ \A u \in Threads \ {t} : SamePhase(u) /\ SameThread(u)
  BY OthersPhases DEF Has, OthersSame
<1>4. \A i \in Slots : Live(i)' <=> Live(i)
  BY LiveSame
<1>5. /\ \A i \in Slots : tab[i].fd # 0 => tab[i].handle # h /\ tab[i].handle \in Nat
      /\ \A u \in Threads : Has(u) => th[u].handle # h /\ th[u].handle \in Nat
  BY <1>2 DEF Handles, Issued, Types, IsSlot, IsThread
<1>6. \A u \in Threads \ {t} : th[u].handle \in Nat
  BY DEF Types, IsThread
<1>7. Issued'
  BY <1>1, <1>2, <1>3, <1>5 DEF Handles, Issued, SamePhase, SameThread, Types, IsSlot, IsThread
<1>8. SlotHandles'
  BY <1>1, <1>4 DEF Handles, SlotHandles
<1>9. ThreadHandles'
  BY <1>1, <1>3 DEF Handles, ThreadHandles, SamePhase, SameThread
<1>10. Apart'
  <2>1. h \notin dropped
    BY <1>1, <1>2
  <2>2. \A i \in Slots, u \in Threads :
          tab[i].fd # 0 /\ Has(u)' /\ tab[i].handle = th'[u].handle => tab[i].handle = 0
    BY <1>3, <1>5 DEF Handles, Apart, SamePhase, SameThread
  <2>3. \A u, v \in Threads :
          Has(u)' /\ Has(v)' /\ th'[u].handle = th'[v].handle /\ th'[u].handle # 0 => u = v
    BY <1>3, <1>5 DEF Handles, Apart, SamePhase, SameThread
  <2>4. \A u \in Threads : Has(u)' => th'[u].handle \notin dropped
    BY <1>3, <2>1 DEF Handles, Apart, SamePhase, SameThread
  <2> QED
    BY <2>2, <2>3, <2>4 DEF Handles, Apart
<1>11. Kept'
  <2>1. \A x \in DOMAIN sess.open : x \notin dropped =>
          \/ \E i \in Slots : Live(i)' /\ tab'[i].handle = x
          \/ \E u \in Threads : Has(u)' /\ th'[u].handle = x
    BY <1>3, <1>4 DEF Handles, Kept, SamePhase, SameThread
  <2> QED
    BY <1>1, <1>3, <2>1 DEF Kept
<1>12. Unread'
  BY <1>3 DEF Handles, Unread, NoneRead, SameThread
<1> QED
  BY <1>7, <1>8, <1>9, <1>10, <1>11, <1>12 DEF Handles

\* A handle is released by whoever alone had it.
LEMMA ReleaseHandles ==
  ASSUME Types, Numbers, Handles, Types', Numbers', NEW t \in Threads, OthersSame(t),
         NEW h, Release(h), dropped' = dropped, \A i \in Slots : SameSlot(i),
         ~Has(t)', h \notin dropped,
         \A i \in Slots : Live(i)' => Live(i) /\ (tab[i].handle # 0 => tab[i].handle # h),
         \A i \in Slots : Live(i) /\ tab[i].handle \notin {0, h} => Live(i)',
         \A u \in Threads \ {t} : Has(u) /\ th[u].handle # 0 => th[u].handle # h,
         Has(t) => th[t].handle \in {0, h},
         NoneRead(t)', th'[t].pc # "flush"
  PROVE  Handles'
<1>1. /\ sess'.next = sess.next /\ DOMAIN sess'.open = DOMAIN sess.open \ {h}
      /\ \A x \in DOMAIN sess'.open : sess'.open[x] = sess.open[x]
  BY DEF Release, Types
<1>2. 0 \notin DOMAIN sess.open
  BY DEF Types
<1>3. \A u \in Threads : Has(u)' => u # t /\ Has(u) /\ SameThread(u)
  BY DEF OthersSame, SameThread, Has
<1>4. \A u \in Threads \ {t} : Has(u) => Has(u)' /\ SameThread(u)
  BY DEF OthersSame, SameThread, Has
<1>5. Issued'
  BY <1>1, <1>3 DEF Handles, Issued, SameThread, SameSlot
<1>6. SlotHandles'
  BY <1>1 DEF Handles, SlotHandles, SameSlot
<1>7. ThreadHandles'
  BY <1>1, <1>3 DEF Handles, ThreadHandles, SameThread
<1>8. Apart'
  BY <1>3 DEF Handles, Apart, SameThread, SameSlot
<1>9. Kept'
  BY <1>1, <1>2, <1>4 DEF Handles, Kept, SameThread, SameSlot
<1>10. Unread'
  <2>1. \A u \in Threads : th'[u].pc = "flush" =>
          u # t /\ th[u].pc = "flush" /\ th'[u].slot = th[u].slot /\ th[u].slot \in Slots
    BY DEF OthersSame, SameThread, Numbers, OwnSlots, OwnsSlot, Types, IsThread
  <2>2. \A u \in Threads : NoneRead(u)'
    BY DEF Handles, Unread, NoneRead, OthersSame, SameThread
  <2> QED
    BY <2>1, <2>2 DEF Handles, Unread, SameSlot
<1> QED
  BY <1>5, <1>6, <1>7, <1>8, <1>9, <1>10 DEF Handles

\* The open of a file to read.
LEMMA OpenHandleInv ==
  ASSUME IInv, NEW t \in Threads, OpenHandle(t)
  PROVE  IInv'
<1>1. Types /\ Numbers /\ Handles
  BY DEF IInv
<1>2. th[t].pc = "open" /\ UNCHANGED <<kern, tab, desc, dropped>>
  BY DEF OpenHandle
<1>3. th[t].file \in Paths /\ ~Writes(th[t].mode) /\ IsThread(th[t])
  BY <1>1, <1>2 DEF Numbers, Files, Opening, Handles, Unread, NoneRead, Types
<1>4. (\A i \in Slots : SameSlot(i)) /\ \A n \in Fds : SameNumber(n)
  BY <1>2 DEF SameSlot, SameNumber
<1>5. CASE Fail(t) /\ UNCHANGED sess
  <2>1. Moves(t) /\ th'[t] = Idle /\ OthersSame(t)
    BY <1>1, <1>5, FailEffect, MovesAlone
  <2>2. Types'
    BY <1>1, <1>2, <1>5, <2>1, IdleThread DEF Types, Moves
  <2>3. ~OwnsFd(t)' /\ ~OwnsSlot(t)' /\ ~NoSlot(t)' /\ ~Opening(t)' /\ ~Has(t) /\ ~Has(t)'
    BY <1>2, <2>1, IdleThread DEF OwnsFd, OwnsSlot, NoSlot, Opening, Has
  <2>4. Numbers'
    BY <1>1, <1>2, <1>4, <2>1, <2>2, <2>3, QuietNumbers
  <2>5. (\A i \in Slots : Live(i)' <=> Live(i)) /\ NoneRead(t)' /\ th'[t].pc # "flush"
    BY <1>2, <2>1, IdleThread, LiveSame DEF NoneRead
  <2>6. Handles'
    BY <1>1, <1>2, <1>4, <1>5, <2>1, <2>2, <2>3, <2>4, <2>5, QuietHandles
  <2> QED
    BY <2>2, <2>4, <2>6 DEF IInv
<1>6. CASE Issue(th[t].file) /\ th' = [th EXCEPT ![t].pc = "null", ![t].handle = sess.next]
  <2>1. /\ Moves(t) /\ IsThread(th'[t]) /\ OthersSame(t) /\ th'[t].pc = "null"
        /\ th'[t].handle = sess.next /\ th'[t].file = th[t].file /\ th'[t].mode = th[t].mode
    BY <1>1, <1>3, <1>6, MovesAlone DEF Moves, IsThread, Types
  <2>2. Types'
    BY <1>1, <1>2, <1>6, <2>1 DEF Types, Moves, Issue
  <2>3. ~OwnsFd(t)' /\ ~OwnsSlot(t)' /\ ~NoSlot(t)' /\ ~Has(t)
    BY <1>2, <2>1 DEF OwnsFd, OwnsSlot, NoSlot, Has
  <2>4. Numbers'
    BY <1>1, <1>2, <1>3, <1>4, <2>1, <2>2, <2>3, QuietNumbers
  <2>5. Handles'
    BY <1>1, <1>2, <1>3, <1>6, <2>1, <2>2, <2>3, <2>4, IssueHandles
  <2> QED
    BY <2>2, <2>4, <2>5 DEF IInv
<1> QED
  BY <1>5, <1>6 DEF OpenHandle

\* The number of an open that succeeds stands for the file.
LEMMA ReturnEffect ==
  ASSUME Types, NEW t \in Threads, NEW w, Return(t, w), th[t].fd \in Fds
  PROVE  /\ Moves(t) /\ th'[t] = Idle /\ DOMAIN desc' = Fds /\ IsDesc(desc'[th[t].fd])
         /\ desc'[th[t].fd].file = th[t].file
         /\ \A n \in Fds \ {th[t].fd} : desc'[n] = desc[n]
<1>1. PICK m, v, x : desc' = [desc EXCEPT ![th[t].fd] =
                               [file |-> th[t].file, mode |-> m, whole |-> v, want |-> x]]
  BY DEF Return
<1>2. Moves(t) /\ th'[t] = Idle
  BY FailEffect DEF Return
<1> QED
  BY <1>1, <1>2 DEF Types, IsDesc

\* With that, numbers still stand for what they should.
LEMMA ReturnNumbers ==
  ASSUME Types, Numbers, NEW t \in Threads, NEW w, Return(t, w),
         th[t].pc \in {"seedopen", "seed", "seedclose"}, kern' = kern, tab' = tab
  PROVE  Numbers'
<1>1. /\ OwnsFd(t) /\ OwnsSlot(t) /\ th[t].fd \in Fds /\ th[t].fd # 0
      /\ kern[th[t].fd] = "null" /\ th[t].slot \in Slots
      /\ tab[th[t].slot].fd = th[t].fd /\ tab[th[t].slot].file = th[t].file
  BY DEF OwnsFd, OwnsSlot, Opening, Numbers, Owners, OwnSlots, Files, Types, IsThread
<1>2. /\ Moves(t) /\ th'[t] = Idle /\ desc'[th[t].fd].file = th[t].file
      /\ \A n \in Fds \ {th[t].fd} : desc'[n] = desc[n]
  BY <1>1, ReturnEffect
<1>3. ~OwnsFd(t)' /\ ~OwnsSlot(t)' /\ ~NoSlot(t)' /\ ~Opening(t)'
  BY <1>2, IdleThread DEF OwnsFd, OwnsSlot, NoSlot, Opening
<1>4. \A u \in Threads : /\ OwnsFd(u)' => u # t /\ OwnsFd(u)
                         /\ OwnsSlot(u)' => u # t /\ OwnsSlot(u)
                         /\ NoSlot(u)' => u # t /\ NoSlot(u)
                         /\ Opening(u)' => u # t /\ Opening(u)
  BY <1>2, <1>3 DEF Moves, OwnsFd, OwnsSlot, NoSlot, Opening
<1>5. \A u \in Threads \ {t} : OwnsFd(u) => th[u].fd # th[t].fd /\ th[u].fd \in Fds
  BY <1>1 DEF Numbers, OneOwner, Types, IsThread
<1>6. OneSlot' /\ SlotsAreNull' /\ OwnSlots' /\ OneOwner' /\ Files'
  BY <1>2, <1>4 DEF Numbers, OneSlot, SlotsAreNull, OwnSlots, OneOwner, Files, Moves
<1>7. Owners'
  BY <1>2, <1>4, <1>5 DEF Numbers, Owners, Moves
<1>8. FreeIsClosed'
  BY <1>1, <1>2 DEF Numbers, FreeIsClosed
<1>9. StandsFor'
  BY <1>1, <1>2 DEF Numbers, StandsFor, OneSlot
<1> QED
  BY <1>6, <1>7, <1>8, <1>9 DEF Numbers

\* The open of a file to fill a buffer from.
LEMMA SeedOpenInv ==
  ASSUME IInv, NEW t \in Threads, SeedOpen(t)
  PROVE  IInv'
<1>1. Types /\ Numbers /\ Handles
  BY DEF IInv
<1>2. th[t].pc = "seedopen" /\ UNCHANGED <<kern, tab, dropped>>
  BY DEF SeedOpen
<1>3. th[t].file \in Paths /\ IsThread(th[t]) /\ th[t].fd \in Fds
  BY <1>1, <1>2 DEF Numbers, Files, Opening, Types, IsThread
<1>4. CASE Return(t, FALSE) /\ UNCHANGED sess
  <2>1. /\ Moves(t) /\ OthersSame(t) /\ th'[t] = Idle
        /\ DOMAIN desc' = Fds /\ IsDesc(desc'[th[t].fd])
        /\ \A n \in Fds \ {th[t].fd} : desc'[n] = desc[n]
    BY <1>1, <1>3, <1>4, ReturnEffect, MovesAlone
  <2>2. Types'
    BY <1>1, <1>2, <1>4, <2>1, IdleThread DEF Types, Moves
  <2>3. Numbers'
    BY <1>1, <1>2, <1>4, ReturnNumbers
  <2>4. ~Has(t) /\ ~Has(t)' /\ NoneRead(t)' /\ th'[t].pc # "flush"
    BY <1>2, <2>1, IdleThread DEF Has, NoneRead
  <2>5. \A i \in Slots : SameSlot(i) /\ (Live(i)' <=> Live(i))
    BY <1>2, <2>1, IdleThread, LiveSame DEF SameSlot
  <2>6. Handles'
    BY <1>1, <1>2, <1>4, <2>1, <2>2, <2>3, <2>4, <2>5, QuietHandles
  <2> QED
    BY <2>2, <2>3, <2>6 DEF IInv
<1>5. CASE /\ Issue(th[t].file) /\ UNCHANGED desc
           /\ th' = [th EXCEPT ![t].pc = "seed", ![t].handle = sess.next]
  <2>1. /\ Moves(t) /\ IsThread(th'[t]) /\ OthersSame(t) /\ th'[t].pc = "seed"
        /\ th'[t].fd = th[t].fd /\ th'[t].slot = th[t].slot
        /\ th'[t].handle = sess.next /\ th'[t].file = th[t].file
    BY <1>1, <1>3, <1>5, MovesAlone DEF Moves, IsThread, Types
  <2>2. Types'
    BY <1>1, <1>2, <1>5, <2>1 DEF Types, Moves, Issue
  <2>3. OwnsFd(t) /\ OwnsSlot(t) /\ Opening(t) /\ ~NoSlot(t)' /\ ~Has(t)
    BY <1>2, <2>1 DEF OwnsFd, OwnsSlot, NoSlot, Opening, Has
  <2>4. (\A i \in Slots : SameSlot(i)) /\ \A n \in Fds : SameNumber(n)
    BY <1>2, <1>5 DEF SameSlot, SameNumber
  <2>5. Numbers'
    BY <1>1, <1>2, <1>3, <2>1, <2>2, <2>3, <2>4, QuietNumbers
  <2>6. Handles'
    BY <1>1, <1>2, <1>5, <2>1, <2>2, <2>3, <2>5, IssueHandles
  <2> QED
    BY <2>2, <2>5, <2>6 DEF IInv
<1> QED
  BY <1>4, <1>5 DEF SeedOpen

\* The close of the handle the buffer was filled from.
LEMMA SeedCloseInv ==
  ASSUME IInv, NEW t \in Threads, SeedClose(t)
  PROVE  IInv'
<1> DEFINE h == th[t].handle
<1>1. Types /\ Numbers /\ Handles
  BY DEF IInv
<1>2. /\ th[t].pc = "seedclose" /\ UNCHANGED <<kern, tab, dropped>>
      /\ Release(h) /\ Return(t, th[t].whole)
  BY DEF SeedClose
<1>3. th[t].fd \in Fds
  BY <1>1 DEF Types, IsThread
<1>4. /\ Moves(t) /\ OthersSame(t) /\ th'[t] = Idle
      /\ DOMAIN desc' = Fds /\ IsDesc(desc'[th[t].fd])
      /\ \A n \in Fds \ {th[t].fd} : desc'[n] = desc[n]
  BY <1>1, <1>2, <1>3, ReturnEffect, MovesAlone
<1>5. Has(t) /\ ~Has(t)' /\ NoneRead(t)' /\ th'[t].pc # "flush"
  BY <1>2, <1>4, IdleThread DEF Has, NoneRead
<1>6. h \notin dropped
  BY <1>1, <1>5 DEF Handles, Apart
<1>7. Types'
  BY <1>1, <1>2, <1>4, <1>6, IdleThread DEF Types, Moves, Release
<1>8. Numbers'
  BY <1>1, <1>2, ReturnNumbers
<1>9. \A i \in Slots : SameSlot(i) /\ (Live(i)' <=> Live(i)) /\ (Live(i) => tab[i].fd # 0)
  BY <1>2, <1>4, IdleThread, LiveSame DEF SameSlot, Live
<1>10. /\ \A i \in Slots : Live(i)' => Live(i) /\ (tab[i].handle # 0 => tab[i].handle # h)
       /\ \A u \in Threads \ {t} : Has(u) /\ th[u].handle # 0 => th[u].handle # h
  BY <1>1, <1>5, <1>9 DEF Handles, Apart
<1>11. Handles'
  BY <1>1, <1>2, <1>4, <1>5, <1>6, <1>7, <1>8, <1>9, <1>10, ReleaseHandles
<1> QED
  BY <1>7, <1>8, <1>11 DEF IInv

\* The close of a handle of a slot.
LEMMA ReleaseHandleInv ==
  ASSUME IInv, NEW t \in Threads, ReleaseHandle(t)
  PROVE  IInv'
<1> DEFINE k == th[t].slot
           h == tab[k].handle
<1>1. Types /\ Numbers /\ Handles
  BY DEF IInv
<1>2. /\ th[t].pc = "release" /\ UNCHANGED <<kern, tab, desc, dropped>>
      /\ Release(h) /\ Goto(t, "free")
  BY DEF ReleaseHandle
<1>3. /\ Moves(t) /\ IsThread(th'[t]) /\ th'[t].pc = "free" /\ OthersSame(t)
      /\ th'[t].fd = th[t].fd /\ th'[t].slot = th[t].slot /\ th'[t].file = th[t].file
      /\ th'[t].mode = th[t].mode /\ th'[t].handle = th[t].handle
  BY <1>1, <1>2, GotoEffect, MovesAlone
<1>4. /\ OwnsFd(t) /\ OwnsSlot(t) /\ ~NoSlot(t)' /\ ~Opening(t)' /\ ~Has(t) /\ ~Has(t)'
      /\ NoneRead(t)' /\ th'[t].pc # "flush"
  BY <1>2, <1>3 DEF OwnsFd, OwnsSlot, NoSlot, Opening, Has, NoneRead
<1>5. k \in Slots /\ tab[k].fd # 0
  BY <1>1, <1>4 DEF Numbers, Owners, OwnSlots, Types, IsThread
<1>6. h \notin dropped
  BY <1>1, <1>5 DEF Handles, Apart
<1>7. Types'
  BY <1>1, <1>2, <1>3, <1>6 DEF Types, Moves, Release
<1>8. (\A i \in Slots : SameSlot(i)) /\ \A n \in Fds : SameNumber(n)
  BY <1>2 DEF SameSlot, SameNumber
<1>9. Numbers'
  BY <1>1, <1>2, <1>3, <1>4, <1>7, <1>8, QuietNumbers
<1>10. \A i \in Slots : /\ Live(i)' <=> Live(i) /\ i # k
                        /\ Live(i) => tab[i].fd # 0
  BY <1>2, <1>3 DEF Live, OthersSame, SameThread
<1>11. \A i \in Slots : Live(i)' => Live(i) /\ (tab[i].handle # 0 => tab[i].handle # h)
  <2>1. SUFFICES ASSUME NEW i \in Slots, Live(i), i # k
                 PROVE  Live(i) /\ (tab[i].handle # 0 => tab[i].handle # h)
    BY <1>10
  <2>2. Live(i) /\ tab[i].fd # 0
    BY <1>10, <2>1
  <2> QED
    BY <1>1, <1>5, <2>1, <2>2 DEF Handles, Apart
<1>12. \A u \in Threads \ {t} : Has(u) /\ th[u].handle # 0 => th[u].handle # h
  BY <1>1, <1>5 DEF Handles, Apart
<1>13. Handles'
  BY <1>1, <1>2, <1>3, <1>4, <1>6, <1>7, <1>8, <1>9, <1>10, <1>11, <1>12, ReleaseHandles
<1> QED
  BY <1>7, <1>9, <1>13 DEF IInv

----------------------------------------------------------------------------
(* Steps that take a slot, or give one up.                                 *)

\* The handle of an open goes from the thread to the slot.
LEMMA HandOver ==
  ASSUME Types, Numbers, Handles, Types', Numbers', NEW t \in Threads, Moves(t),
         th[t].pc = "claim", th'[t].pc \in {"idle", "seedopen"},
         NEW k \in Slots, tab[k].fd = 0, tab'[k].fd = th[t].fd, tab'[k].file = th[t].file,
         tab'[k].handle = th[t].handle, tab'[k].writable = Writes(th[t].mode),
         \A i \in Slots \ {k} : tab'[i] = tab[i], sess' = sess, dropped' = dropped
  PROVE  Handles'
<1>1. Has(t) /\ ~Has(t)' /\ th[t].fd # 0 /\ th'[t].pc # "free" /\ NoneRead(t)'
  BY DEF Has, Numbers, Owners, OwnsFd, NoneRead
<1>2. \A u \in Threads : Has(u)' => u # t /\ Has(u) /\ th'[u] = th[u]
  BY <1>1 DEF Moves, Has
<1>3. \A u \in Threads \ {t} : Has(u) => Has(u)' /\ th'[u] = th[u]
  BY DEF Moves, Has
<1>4. \A u \in Threads : th[u].pc \in {"free", "flush"} =>
        th[u].slot \in Slots /\ th[u].slot # k
  BY DEF Numbers, Owners, OwnSlots, OwnsFd, OwnsSlot, Types, IsThread
<1>5. Live(k)' /\ ~Live(k)
  BY <1>1, <1>4 DEF Live, Moves
<1>6. \A i \in Slots \ {k} : Live(i)' <=> Live(i)
  BY <1>1, MovesAlone, LiveSame
<1>7. Issued'
  BY <1>1, <1>2 DEF Handles, Issued
<1>8. SlotHandles'
  BY <1>1, <1>6 DEF Handles, SlotHandles, ThreadHandles
<1>9. ThreadHandles'
  BY <1>2 DEF Handles, ThreadHandles
<1>10. Apart'
  BY <1>1, <1>2 DEF Handles, Apart
<1>11. Kept'
  BY <1>1, <1>3, <1>5, <1>6 DEF Handles, Kept
<1>12. Unread'
  <2>1. \A u \in Threads \ {t} : NoneRead(u)'
    BY DEF Handles, Unread, NoneRead, Moves
  <2>2. Writes(th[t].mode) => th[t].handle = 0
    BY DEF Handles, Unread, NoneRead
  <2>3. \A u \in Threads : th'[u].pc = "flush" => tab'[th'[u].slot].handle = 0
    BY <1>4 DEF Handles, Unread, Moves
  <2> QED
    BY <1>1, <2>1, <2>2, <2>3 DEF Handles, Unread
<1> QED
  BY <1>7, <1>8, <1>9, <1>10, <1>11, <1>12 DEF Handles

\* A slot is bound to the number of an open, which goes on or succeeds.
LEMMA ClaimNumbers ==
  ASSUME Types, Numbers, Types', NEW t \in Threads, Moves(t), th[t].pc = "claim", kern' = kern,
         NEW k \in Slots, tab[k].fd = 0, tab'[k].fd = th[t].fd, tab'[k].file = th[t].file,
         \A i \in Slots \ {k} : tab'[i] = tab[i],
         \/ /\ th'[t].pc = "seedopen" /\ th'[t].slot = k /\ th'[t].fd = th[t].fd
            /\ th'[t].file = th[t].file /\ desc' = desc
         \/ /\ th'[t] = Idle /\ desc'[th[t].fd].file = th[t].file
            /\ \A n \in Fds \ {th[t].fd} : desc'[n] = desc[n]
  PROVE  Numbers'
<1> DEFINE f == th[t].fd
<1>1. OwnsFd(t) /\ NoSlot(t) /\ Opening(t)
  BY DEF OwnsFd, NoSlot, Opening
<1>2. /\ f \in Fds /\ f # 0 /\ kern[f] = "null" /\ desc[f] = Closed
      /\ (\A i \in Slots : tab[i].fd # f) /\ th[t].file \in Paths
  BY <1>1 DEF Numbers, Owners, OwnSlots, Files, Types, IsThread
<1>3. ~NoSlot(t)'
  BY IdleThread DEF NoSlot
<1>4. \A u \in Threads \ {t} : th'[u] = th[u] /\ SamePhase(u)
  BY MovesAlone, OthersPhases DEF Moves
<1>5. \A u \in Threads \ {t} : OwnsFd(u) => th[u].fd # f /\ th[u].fd \in Fds
  BY <1>1 DEF Numbers, OneOwner, Types, IsThread
<1>6. \A u \in Threads \ {t} : OwnsSlot(u) => th[u].slot # k /\ th[u].slot \in Slots
  BY <1>4 DEF SamePhase, Numbers, Owners, OwnSlots, Types, IsThread
<1>7. OneSlot'
  BY <1>2 DEF Numbers, OneSlot
<1>8. SlotsAreNull'
  BY <1>2 DEF Numbers, SlotsAreNull
<1>9. FreeIsClosed'
  BY <1>2 DEF Numbers, FreeIsClosed
<1>10. CASE /\ th'[t].pc = "seedopen" /\ th'[t].slot = k /\ th'[t].fd = f
            /\ th'[t].file = th[t].file /\ desc' = desc
  <2>1. OwnsFd(t)' /\ OwnsSlot(t)' /\ k # 0
    BY <1>10, InterposeAssumption DEF OwnsFd, OwnsSlot, Slots
  <2>2. Owners'
    BY <1>2, <1>4, <1>10 DEF Numbers, Owners, SamePhase
  <2>3. OwnSlots'
    BY <1>2, <1>3, <1>4, <1>5, <1>6, <1>10, <2>1 DEF Numbers, OwnSlots, SamePhase
  <2>4. OneOwner'
    BY <1>4, <1>5, <1>10 DEF Numbers, OneOwner, SamePhase
  <2>5. Files'
    BY <1>2, <1>4, <1>6, <1>10 DEF Numbers, Files, SamePhase
  <2>6. StandsFor'
    BY <1>2, <1>10 DEF Numbers, StandsFor
  <2> QED
    BY <1>7, <1>8, <1>9, <2>2, <2>3, <2>4, <2>5, <2>6 DEF Numbers
<1>11. CASE /\ th'[t] = Idle /\ desc'[f].file = th[t].file
            /\ \A n \in Fds \ {f} : desc'[n] = desc[n]
  <2>1. ~OwnsFd(t)' /\ ~OwnsSlot(t)' /\ ~Opening(t)'
    BY <1>11, IdleThread DEF OwnsFd, OwnsSlot, Opening
  <2>2. Owners'
    BY <1>4, <1>5, <1>11, <2>1 DEF Numbers, Owners, SamePhase
  <2>3. OwnSlots'
    BY <1>3, <1>4, <1>5, <1>6, <2>1 DEF Numbers, OwnSlots, SamePhase
  <2>4. OneOwner'
    BY <1>4, <2>1 DEF Numbers, OneOwner, SamePhase
  <2>5. Files'
    BY <1>4, <1>6, <2>1 DEF Numbers, Files, SamePhase
  <2>6. StandsFor'
    BY <1>2, <1>11 DEF Numbers, StandsFor
  <2>7. FreeIsClosed'
    BY <1>2, <1>11 DEF Numbers, FreeIsClosed
  <2> QED
    BY <1>7, <1>8, <2>2, <2>3, <2>4, <2>5, <2>6, <2>7 DEF Numbers
<1> QED
  BY <1>10, <1>11

\* newslot, with a slot or without one.
LEMMA ClaimInv ==
  ASSUME IInv, NEW t \in Threads, Claim(t)
  PROVE  IInv'
<1>1. Types /\ Numbers /\ Handles
  BY DEF IInv
<1>2. th[t].pc = "claim" /\ UNCHANGED <<sess, store>>
  BY DEF Claim
<1>3. OwnsFd(t) /\ NoSlot(t) /\ Opening(t) /\ Has(t)
  BY <1>2 DEF OwnsFd, NoSlot, Opening, Has
<1>4. th[t].file \in Paths /\ IsThread(th[t]) /\ th[t].fd \in Fds
  BY <1>1, <1>3 DEF Numbers, Files, Types, IsThread
<1>5. CASE Abandon(t) /\ kern' = [kern EXCEPT ![th[t].fd] = "free"] /\ UNCHANGED <<tab, desc>>
  <2>1. Moves(t) /\ th'[t] = Idle /\ dropped' = dropped \cup ({th[t].handle} \ {0})
    BY <1>1, <1>5, FailEffect DEF Abandon
  <2>2. Types'
    BY <1>1, <1>2, <1>3, <1>5, <2>1, IdleThread DEF Types, Moves, Handles, ThreadHandles
  <2>3. Numbers'
    BY <1>1, <1>3, <1>5, <2>1, FreesNumber
  <2>4. Handles'
    BY <1>1, <1>2, <1>5, <2>1, <2>2, <2>3, DropHandles
  <2> QED
    BY <2>2, <2>3, <2>4 DEF IInv
<1>6. ASSUME NEW k \in Slots, tab[k].fd = 0, UNCHANGED <<kern, dropped>>,
             tab' = [tab EXCEPT ![k] =
               [Zeroed EXCEPT !.fd = th[t].fd, !.file = th[t].file, !.handle = th[t].handle,
                              !.writable = Writes(th[t].mode)]],
             \/ /\ th' = [th EXCEPT ![t].pc = "seedopen", ![t].slot = k] /\ UNCHANGED desc
             \/ Return(t, th[t].whole)
      PROVE  IInv'
  <2>1. /\ DOMAIN tab' = Slots /\ IsSlot(tab'[k]) /\ tab'[k].fd = th[t].fd
        /\ tab'[k].file = th[t].file /\ tab'[k].handle = th[t].handle
        /\ tab'[k].writable = Writes(th[t].mode) /\ \A i \in Slots \ {k} : tab'[i] = tab[i]
    BY <1>1, <1>4, <1>6 DEF Types, Zeroed, IsSlot, IsThread
  <2>2. CASE th' = [th EXCEPT ![t].pc = "seedopen", ![t].slot = k] /\ UNCHANGED desc
    <3>1. /\ Moves(t) /\ IsThread(th'[t]) /\ th'[t].pc = "seedopen" /\ th'[t].slot = k
          /\ th'[t].fd = th[t].fd /\ th'[t].file = th[t].file
      BY <1>1, <1>4, <2>2 DEF Types, Moves, IsThread
    <3>2. Types'
      BY <1>1, <1>2, <1>6, <2>1, <2>2, <3>1 DEF Types, Moves
    <3>3. Numbers'
      BY <1>1, <1>2, <1>6, <2>1, <2>2, <3>1, <3>2, ClaimNumbers
    <3>4. Handles'
      BY <1>1, <1>2, <1>6, <2>1, <3>1, <3>2, <3>3, HandOver
    <3> QED
      BY <3>2, <3>3, <3>4 DEF IInv
  <2>3. CASE Return(t, th[t].whole)
    <3>1. /\ Moves(t) /\ th'[t] = Idle /\ DOMAIN desc' = Fds /\ IsDesc(desc'[th[t].fd])
          /\ desc'[th[t].fd].file = th[t].file
          /\ \A n \in Fds \ {th[t].fd} : desc'[n] = desc[n]
      BY <1>1, <1>4, <2>3, ReturnEffect
    <3>2. Types'
      BY <1>1, <1>2, <1>6, <2>1, <3>1, IdleThread DEF Types, Moves
    <3>3. Numbers'
      BY <1>1, <1>2, <1>6, <2>1, <3>1, <3>2, ClaimNumbers
    <3>4. Handles'
      BY <1>1, <1>2, <1>6, <2>1, <3>1, <3>2, <3>3, IdleThread, HandOver
    <3> QED
      BY <3>2, <3>3, <3>4 DEF IInv
  <2> QED
    BY <1>6, <2>2, <2>3
<1>7. FreeSlots # {} => Min(FreeSlots) \in Slots /\ tab[Min(FreeSlots)].fd = 0
  <2>1. FreeSlots \subseteq Nat
    BY InterposeAssumption DEF FreeSlots, Slots
  <2> QED
    BY <2>1, MinMember DEF FreeSlots
<1> QED
  BY <1>5, <1>6, <1>7 DEF Claim

\* The slot of a number, if it has one.
LEMMA SlotOfFact ==
  ASSUME NEW n \in Fds
  PROVE  \/ SlotOf(n) \in Slots /\ n # 0 /\ tab[SlotOf(n)].fd = n
         \/ SlotOf(n) = 0 /\ (n = 0 \/ \A i \in Slots : tab[i].fd # n)
<1>1. {i \in Slots : tab[i].fd = n} \subseteq Nat /\ n \in Nat
  BY InterposeAssumption DEF Slots, Fds
<1>2. CASE n > 0 /\ \E i \in Slots : tab[i].fd = n
  <2>1. Min({i \in Slots : tab[i].fd = n}) \in {i \in Slots : tab[i].fd = n}
    BY <1>1, <1>2, MinMember
  <2> QED
    BY <1>1, <1>2, <2>1 DEF SlotOf
<1>3. CASE ~(n > 0 /\ \E i \in Slots : tab[i].fd = n)
  BY <1>1, <1>3 DEF SlotOf
<1> QED
  BY <1>2, <1>3

\* The close of a number that has no slot.
LEMMA CloseLocalInv ==
  ASSUME IInv, NEW t \in Threads, NEW n \in Fds, n # 0, desc[n] # Closed,
         n = 0 \/ \A i \in Slots : tab[i].fd # n,
         desc' = [desc EXCEPT ![n] = Closed], kern' = [kern EXCEPT ![n] = "free"],
         UNCHANGED <<tab, th, sess, dropped>>
  PROVE  IInv'
<1>1. Types /\ Numbers /\ Handles
  BY DEF IInv
<1>2. DOMAIN kern' = Fds /\ kern'[n] = "free" /\ \A k \in Fds \ {n} : kern'[k] = kern[k]
  BY <1>1 DEF Types
<1>3. /\ DOMAIN desc' = Fds /\ desc'[n] = Closed /\ IsDesc(desc'[n])
      /\ \A k \in Fds \ {n} : desc'[k] = desc[k]
  BY <1>1 DEF Types, Closed, IsDesc
<1>4. Types'
  BY <1>1, <1>2, <1>3 DEF Types
<1>5. \A u \in Threads : OwnsFd(u) => th[u].fd # n /\ th[u].fd \in Fds
  BY <1>1 DEF Numbers, Owners, Types, IsThread
<1>6. \A u \in Threads : (OwnsFd(u)' <=> OwnsFd(u)) /\ (OwnsSlot(u)' <=> OwnsSlot(u))
        /\ (NoSlot(u)' <=> NoSlot(u)) /\ (Opening(u)' <=> Opening(u)) /\ (Has(u)' <=> Has(u))
        /\ (NoneRead(u)' <=> NoneRead(u))
  BY DEF OwnsFd, OwnsSlot, NoSlot, Opening, Has, NoneRead
<1>7. OneSlot' /\ OwnSlots' /\ OneOwner' /\ Files'
  BY <1>1, <1>6 DEF Numbers, OneSlot, OwnSlots, OneOwner, Files
<1>8. SlotsAreNull'
  BY <1>1, <1>2 DEF Numbers, SlotsAreNull, Types, IsSlot
<1>9. Owners'
  BY <1>1, <1>2, <1>3, <1>5, <1>6 DEF Numbers, Owners
<1>10. FreeIsClosed' /\ StandsFor'
  BY <1>1, <1>2, <1>3 DEF Numbers, FreeIsClosed, StandsFor
<1>11. Numbers'
  BY <1>7, <1>8, <1>9, <1>10 DEF Numbers
<1>12. OthersSame(t) /\ \A i \in Slots : SameSlot(i) /\ (Live(i)' <=> Live(i))
  BY DEF OthersSame, SameThread, SameSlot, Live
<1>13. NoneRead(t)' /\ (th'[t].pc = "flush" => tab[th'[t].slot].handle = 0)
  BY <1>1, <1>6 DEF Handles, Unread
<1>14. Handles'
  BY <1>1, <1>4, <1>6, <1>11, <1>12, <1>13, QuietHandles
<1> QED
  BY <1>4, <1>11, <1>14 DEF IInv

\* The close of a number that has one: the program gives the number up, and the thread
\* has it until the slot is free.
LEMMA CloseSlotInv ==
  ASSUME IInv, NEW t \in Threads, NEW n \in Fds, n # 0, desc[n] # Closed, th[t] = Idle,
         NEW i \in Slots, tab[i].fd = n, Moves(t), IsThread(th'[t]),
         th'[t].fd = n, th'[t].slot = i,
         th'[t].pc = IF tab[i].writable THEN "flush"
                     ELSE IF tab[i].handle # 0 THEN "release" ELSE "free",
         desc' = [desc EXCEPT ![n] = Closed], UNCHANGED <<kern, tab, sess, dropped>>
  PROVE  IInv'
<1>1. Types /\ Numbers /\ Handles
  BY DEF IInv
<1>2. /\ DOMAIN desc' = Fds /\ desc'[n] = Closed /\ IsDesc(desc'[n])
      /\ \A k \in Fds \ {n} : desc'[k] = desc[k]
  BY <1>1 DEF Types, Closed, IsDesc
<1>3. Types'
  BY <1>1, <1>2 DEF Types, Moves
<1>4. /\ th'[t].pc \in {"flush", "release", "free"} /\ i # 0
      /\ tab[i].handle # 0 => th'[t].pc # "free"
      /\ th'[t].pc = "flush" => tab[i].handle = 0
  BY <1>1, InterposeAssumption DEF Slots, Handles, Unread
<1>5. /\ OwnsFd(t)' /\ OwnsSlot(t)' /\ ~NoSlot(t)' /\ ~Opening(t)' /\ ~Has(t) /\ ~Has(t)'
      /\ NoneRead(t)'
  BY <1>4, IdleThread DEF OwnsFd, OwnsSlot, NoSlot, Opening, Has, NoneRead
<1>6. \A u \in Threads \ {t} : th'[u] = th[u] /\ SamePhase(u)
  BY MovesAlone, OthersPhases DEF Moves
<1>7. \A u \in Threads : OwnsFd(u) => th[u].fd # n /\ th[u].fd \in Fds
  BY <1>1 DEF Numbers, Owners, Types, IsThread
<1>8. OneSlot' /\ SlotsAreNull'
  BY <1>1 DEF Numbers, OneSlot, SlotsAreNull
<1>9. Owners'
  BY <1>1, <1>2, <1>6, <1>7 DEF Numbers, Owners, SlotsAreNull, SamePhase
<1>10. OwnSlots'
  BY <1>1, <1>4, <1>5, <1>6 DEF Numbers, OwnSlots, SamePhase
<1>11. OneOwner'
  BY <1>1, <1>6, <1>7 DEF Numbers, OneOwner, SamePhase
<1>12. Files'
  BY <1>1, <1>5, <1>6 DEF Numbers, Files, SamePhase
<1>13. FreeIsClosed' /\ StandsFor'
  BY <1>1, <1>2 DEF Numbers, FreeIsClosed, StandsFor
<1>14. Numbers'
  BY <1>8, <1>9, <1>10, <1>11, <1>12, <1>13 DEF Numbers
<1>15. \A j \in Slots : tab[j].handle # 0 => (Live(j)' <=> Live(j))
  BY <1>4, IdleThread DEF Live, Moves
<1>16. \A j \in Slots : SameSlot(j)
  BY DEF SameSlot
<1>17. Handles'
  BY <1>1, <1>3, <1>4, <1>5, <1>14, <1>15, <1>16, MovesAlone, QuietHandles
<1> QED
  BY <1>3, <1>14, <1>17 DEF IInv

\* close, up to its first call of the adapter.
LEMMA CloseInv ==
  ASSUME IInv, NEW t \in Threads, NEW n \in Fds, Close(t, n)
  PROVE  IInv'
<1> DEFINE i == SlotOf(n)
<1>1. Types /\ n # 0 /\ desc[n] # Closed /\ th[t] = Idle
  BY DEF Close, IInv
<1>2. desc' = [desc EXCEPT ![n] = Closed] /\ UNCHANGED <<tab, sess, dropped>>
  BY DEF Close
<1>3. CASE i = 0
  <2>1. kern' = [kern EXCEPT ![n] = "free"] /\ UNCHANGED th
    BY <1>3 DEF Close
  <2>2. n = 0 \/ \A k \in Slots : tab[k].fd # n
    BY <1>3, SlotOfFact, InterposeAssumption DEF Slots
  <2> QED
    BY <1>1, <1>2, <2>1, <2>2, CloseLocalInv
<1>4. CASE i # 0
  <2>1. i \in Slots /\ tab[i].fd = n
    BY <1>4, SlotOfFact
  <2>2. /\ UNCHANGED kern
        /\ th' = [th EXCEPT ![t] =
             [Idle EXCEPT !.fd = n, !.slot = i, !.file = desc[n].file,
                !.mode = desc[n].mode, !.want = desc[n].want, !.whole = desc[n].whole,
                !.pc = IF tab[i].writable THEN "flush"
                       ELSE IF tab[i].handle # 0 THEN "release" ELSE "free"]]
    BY <1>4 DEF Close
  <2>3. /\ Moves(t) /\ IsThread(th'[t]) /\ th'[t].fd = n /\ th'[t].slot = i
        /\ th'[t].pc = IF tab[i].writable THEN "flush"
                       ELSE IF tab[i].handle # 0 THEN "release" ELSE "free"
    BY <1>1, <2>1, <2>2 DEF Types, Moves, Idle, IsThread
  <2> QED
    BY <1>1, <1>2, <2>1, <2>2, <2>3, CloseSlotInv
<1> QED
  BY <1>3, <1>4

\* The end of close: the slot, then the number.
LEMMA EndCloseInv ==
  ASSUME IInv, NEW t \in Threads, EndClose(t)
  PROVE  IInv'
<1> DEFINE k == th[t].slot
           f == th[t].fd
<1>1. Types /\ Numbers /\ Handles
  BY DEF IInv
<1>2. UNCHANGED <<desc, sess, dropped>>
  BY DEF EndClose
<1>3. CASE /\ th[t].pc = "free" /\ tab' = [tab EXCEPT ![k] = Zeroed]
           /\ Goto(t, "real") /\ UNCHANGED kern
  <2>1. /\ Moves(t) /\ IsThread(th'[t]) /\ th'[t].pc = "real"
        /\ th'[t].fd = f /\ th'[t].slot = k
    BY <1>1, <1>3, GotoEffect
  <2>2. /\ OwnsFd(t) /\ OwnsSlot(t) /\ OwnsFd(t)' /\ ~OwnsSlot(t)' /\ ~Opening(t)'
        /\ ~Has(t) /\ ~Has(t)' /\ NoneRead(t)'
    BY <1>3, <2>1 DEF OwnsFd, OwnsSlot, Opening, Has, NoneRead
  <2>3. /\ k \in Slots /\ tab[k].fd = f /\ f # 0 /\ f \in Fds /\ desc[f] = Closed
    BY <1>1, <2>2 DEF Numbers, Owners, OwnSlots, Types, IsThread
  <2>4. /\ DOMAIN tab' = Slots /\ IsSlot(tab'[k]) /\ tab'[k].fd = 0
        /\ \A i \in Slots \ {k} : tab'[i] = tab[i]
    BY <1>1, <1>3, <2>3, InterposeAssumption DEF Types, Zeroed, IsSlot, Fds
  <2>5. Types'
    BY <1>1, <1>2, <1>3, <2>1, <2>4 DEF Types, Moves
  <2>6. \A u \in Threads \ {t} : th'[u] = th[u] /\ SamePhase(u)
    BY <2>1, MovesAlone, OthersPhases DEF Moves
  <2>7. \A u \in Threads \ {t} : OwnsSlot(u) => th[u].slot \in Slots /\ th[u].slot # k
    BY <1>1, <2>2, <2>3, <2>6 DEF SamePhase, Numbers, OneOwner, OwnSlots, Types, IsThread
  <2>8. OneSlot' /\ SlotsAreNull'
    BY <1>1, <1>3, <2>4 DEF Numbers, OneSlot, SlotsAreNull
  <2>9. Owners' /\ OneOwner'
    BY <1>1, <1>2, <1>3, <2>1, <2>2, <2>6 DEF Numbers, Owners, OneOwner, SamePhase
  <2>10. \A i \in Slots : tab'[i].fd # f
    BY <1>1, <2>3, <2>4 DEF Numbers, OneSlot
  <2>11. \A u \in Threads \ {t} :
           OwnsSlot(u)' => th'[u].slot # 0 /\ tab'[th'[u].slot].fd = th'[u].fd
    BY <1>1, <2>4, <2>6, <2>7 DEF Numbers, OwnSlots, SamePhase
  <2>12. \A u \in Threads \ {t} : NoSlot(u)' => \A i \in Slots : tab'[i].fd # th'[u].fd
    BY <1>1, <2>4, <2>6 DEF Numbers, OwnSlots, Owners, SamePhase
  <2>13. OwnSlots'
    BY <2>1, <2>2, <2>10, <2>11, <2>12 DEF OwnSlots
  <2>14. Files'
    BY <1>1, <2>2, <2>4, <2>6, <2>7 DEF Numbers, Files, SamePhase
  <2>15. FreeIsClosed' /\ StandsFor'
    BY <1>1, <1>2, <1>3, <2>3, <2>4 DEF Numbers, FreeIsClosed, StandsFor
  <2>16. Numbers'
    BY <2>8, <2>9, <2>13, <2>14, <2>15 DEF Numbers
  <2>17. \A i \in Slots : Live(i)' <=> Live(i)
    BY <1>3, <2>1, <2>3, <2>4 DEF Live, Moves
  <2>18. \A i \in Slots : tab'[i].fd # 0 => SameSlot(i)
    BY <2>4 DEF SameSlot
  <2>19. Handles'
    BY <1>1, <1>2, <2>1, <2>2, <2>5, <2>16, <2>17, <2>18, MovesAlone, QuietHandles
  <2> QED
    BY <2>5, <2>16, <2>19 DEF IInv
<1>4. CASE th[t].pc = "real" /\ kern' = [kern EXCEPT ![f] = "free"] /\ Fail(t) /\ UNCHANGED tab
  <2>1. Moves(t) /\ th'[t] = Idle /\ OthersSame(t)
    BY <1>1, <1>4, FailEffect, MovesAlone
  <2>2. Types'
    BY <1>1, <1>2, <1>4, <2>1, IdleThread DEF Types, Moves
  <2>3. Numbers'
    BY <1>1, <1>2, <1>4, <2>1, FreesNumber DEF OwnsFd, NoSlot
  <2>4. ~Has(t) /\ ~Has(t)' /\ NoneRead(t)' /\ th'[t].pc # "flush"
    BY <1>4, <2>1, IdleThread DEF Has, NoneRead
  <2>5. \A i \in Slots : SameSlot(i) /\ (Live(i)' <=> Live(i))
    BY <1>4, <2>1, IdleThread, LiveSame DEF SameSlot
  <2>6. Handles'
    BY <1>1, <1>2, <2>1, <2>2, <2>3, <2>4, <2>5, QuietHandles
  <2> QED
    BY <2>2, <2>3, <2>6 DEF IInv
<1> QED
  BY <1>3, <1>4 DEF EndClose, Vacate

----------------------------------------------------------------------------
(* The theorems.                                                           *)

\* The invariant holds at the start ...
LEMMA InitInv == Init => IInv
<1> SUFFICES ASSUME Init PROVE IInv
  OBVIOUS
<1>1. /\ \A t \in Threads : th[t] = Idle
      /\ \A i \in Slots : tab[i] = Zeroed
      /\ 0 \in Fds /\ kern[0] = "stdin"
      /\ \A n \in Fds \ {0} : kern[n] = "free" /\ desc[n] = Closed
      /\ desc[0].file = "stdin" /\ IsDesc(desc[0])
      /\ sess.next = 1 /\ DOMAIN sess.open = {} /\ DOMAIN sess = {"open", "next"}
      /\ dropped = {}
  <2>1. 0 \in Fds
    BY InterposeAssumption DEF Fds
  <2>2. sess.next = 1 /\ DOMAIN sess.open = {} /\ DOMAIN sess = {"open", "next"}
    BY DEF Init
  <2>3. desc[0].file = "stdin" /\ IsDesc(desc[0])
    BY <2>1 DEF Init, Closed, IsDesc
  <2> QED
    BY <2>1, <2>2, <2>3 DEF Init
<1>2. /\ Zeroed.fd = 0 /\ IsSlot(Zeroed) /\ IsDesc(Closed)
  BY InterposeAssumption DEF Zeroed, IsSlot, Fds, Closed, IsDesc
<1>3. Types
  BY <1>1, <1>2, IdleThread DEF Init, Types
<1>4. \A t \in Threads : ~OwnsFd(t) /\ ~OwnsSlot(t) /\ ~NoSlot(t) /\ ~Opening(t) /\ ~Has(t)
                         /\ th[t].pc = "idle" /\ NoneRead(t)
  BY <1>1, IdleThread DEF OwnsFd, OwnsSlot, NoSlot, Opening, Has, NoneRead
<1>5. OneSlot /\ SlotsAreNull /\ Owners /\ OwnSlots /\ OneOwner /\ Files
  BY <1>1, <1>2, <1>4 DEF OneSlot, SlotsAreNull, Owners, OwnSlots, OneOwner, Files
<1>6. FreeIsClosed /\ StandsFor
  BY <1>1, <1>2 DEF FreeIsClosed, StandsFor
<1>7. Handles
  BY <1>1, <1>2, <1>4 DEF Handles, Issued, SlotHandles, ThreadHandles, Apart, Kept, Unread, Live
<1> QED
  BY <1>3, <1>5, <1>6, <1>7 DEF IInv, Numbers

\* ... and every step of every thread keeps it.
LEMMA StepInv == IInv /\ [Next]_vars => IInv'
<1> SUFFICES ASSUME IInv, [Next]_vars PROVE IInv'
  OBVIOUS
<1>1. CASE UNCHANGED vars
  BY <1>1 DEF vars, IInv, Types, Numbers, OneSlot, SlotsAreNull, Owners, OwnSlots, OneOwner,
              Files, FreeIsClosed, StandsFor, OwnsFd, OwnsSlot, NoSlot, Opening, Handles,
              Issued, SlotHandles, ThreadHandles, Apart, Kept, Unread, NoneRead, Has, Live
<1>2. ASSUME NEW t \in Threads, NEW f \in Locals, OpenLocal(t, f) PROVE IInv'
  BY <1>2, OpenLocalInv
<1>3. ASSUME NEW t \in Threads, NEW p \in Paths, NEW m \in Modes, Open(t, p, m) PROVE IInv'
  BY <1>3, OpenInv
<1>4. ASSUME NEW t \in Threads, NEW n \in Fds, Close(t, n) PROVE IInv'
  BY <1>4, CloseInv
<1>5. ASSUME NEW t \in Threads, NEW n \in Fds, NEW o \in 0..MaxLen, Write(t, n, o) PROVE IInv'
  BY <1>5, WriteInv
<1>6. ASSUME NEW t \in Threads, OpenStep(t) PROVE IInv'
  BY <1>6, StatInv, ReadDirInv, OpenHandleInv, PlaceholderInv, ClaimInv, SeedOpenInv, SeedInv,
     SeedCloseInv DEF OpenStep
<1>7. ASSUME NEW t \in Threads, CloseStep(t) PROVE IInv'
  BY <1>7, FlushInv, ReleaseHandleInv, EndCloseInv DEF CloseStep
<1> QED
  BY <1>1, <1>2, <1>3, <1>4, <1>5, <1>6, <1>7 DEF Next

\* So it always holds.
LEMMA InvHolds == Spec => []IInv
  BY InitInv, StepInv, PTL DEF Spec

\* A number of the program reaches the file it opened, on the right host, for any number
\* of threads, slots and descriptors (slot, newslot, do_close).
THEOREM NumbersHold == Spec => []NumbersGoHome
<1>1. IInv => NumbersGoHome
  <2> SUFFICES ASSUME IInv, NEW n \in Fds, desc[n] # Closed
               PROVE  /\ Reaches(n) = desc[n].file
                      /\ LET h == tab[SlotOf(n)].handle IN
                           SlotOf(n) # 0 /\ h # 0 =>
                             h \in DOMAIN sess.open /\ sess.open[h] = desc[n].file
    BY DEF NumbersGoHome
  <2>1. Types /\ Numbers /\ Handles
    BY DEF IInv
  <2>2. CASE SlotOf(n) \in Slots /\ n # 0 /\ tab[SlotOf(n)].fd = n
    <3> DEFINE i == SlotOf(n)
    <3>1. i # 0 /\ tab[i].file = desc[n].file
      BY <2>1, <2>2, InterposeAssumption DEF Numbers, StandsFor, Slots
    <3>2. Live(i)
      BY <2>1, <2>2 DEF Live, Numbers, Owners, OwnSlots, OwnsFd, OwnsSlot
    <3> QED
      BY <2>1, <2>2, <3>1, <3>2 DEF Reaches, Handles, SlotHandles
  <2>3. CASE SlotOf(n) = 0 /\ (n = 0 \/ \A i \in Slots : tab[i].fd # n)
    BY <2>1, <2>3 DEF Reaches, Numbers, StandsFor
  <2> QED
    BY <2>2, <2>3, SlotOfFact
<1> QED
  BY InvHolds, <1>1, PTL

\* The adapter holds exactly the handles that slots and calls in progress still know of,
\* and those that failed opens dropped (rpc_open, newslot, do_close).
THEOREM HandlesHold == Spec => []HandlesOwned
<1>1. IInv => HandlesOwned
  <2> SUFFICES ASSUME IInv PROVE HandlesOwned
    OBVIOUS
  <2>1. Types /\ Numbers /\ Handles
    BY DEF IInv
  <2>2. Held = {tab[i].handle : i \in {j \in Slots : Live(j)}}
               \cup {th[t].handle : t \in {u \in Threads : Has(u)}}
    BY DEF Held, Live, Has
  <2>3. 0 \notin DOMAIN sess.open /\ dropped \subseteq DOMAIN sess.open
    BY <2>1 DEF Types
  <2>4. DOMAIN sess.open \subseteq Held \cup dropped
    BY <2>1, <2>2 DEF Handles, Kept
  <2>5. \A h \in Held : h # 0 => h \in DOMAIN sess.open
    BY <2>1, <2>2 DEF Handles, SlotHandles, ThreadHandles
  <2> QED
    BY <2>3, <2>4, <2>5 DEF HandlesOwned
<1> QED
  BY InvHolds, <1>1, PTL

----------------------------------------------------------------------------
(* The buffers: what a program writes reaches the file when it is closed.   *)

Pcs == {"idle", "stat", "readdir", "open", "null", "claim", "seedopen", "seed", "seedclose",
        "flush", "release", "free", "real"}

\* What the fields of the records are, the numbers aside (which IInv has).
GoodSlot(s) ==
  /\ s.file \in Paths \cup {None} /\ s.handle <= MaxHandles /\ s.writable \in BOOLEAN
  /\ s.wbuf \in Blocks /\ Len(s.wbuf) <= MaxLen
GoodThread(r) ==
  /\ r.pc \in Pcs /\ r.handle <= MaxHandles /\ r.want \in Blocks
  /\ r.file \in Kinds \cup {None} /\ r.whole \in BOOLEAN /\ r.seed \in BOOLEAN
GoodDesc(d) ==
  d.file \in Kinds \cup {None} /\ d.want \in Blocks /\ d.whole \in BOOLEAN
GoodFile(s) == s # Absent => s \in Blocks /\ Len(s) <= MaxLen

Shapes ==
  /\ kern \in [Fds -> Locals \cup {"stdin", "free", "null"}]
  /\ \A i \in Slots : GoodSlot(tab[i])
  /\ \A t \in Threads : GoodThread(th[t])
  /\ \A n \in Fds : GoodDesc(desc[n])
  /\ sess.open \in [DOMAIN sess.open -> Paths] /\ sess.next <= MaxHandles + 1
  /\ DOMAIN store = Paths /\ \A p \in Paths : GoodFile(store[p])

\* What a file holds, as an open or a seed reads it.
Reads(s) == IF s = Absent THEN <<>> ELSE s

\* A buffer that has been filled so far as it is long.
Begins(b, s) == Len(b) <= Len(s) /\ \A j \in 1..Len(b) : b[j] = s[j]

\* A slot that a number of the program has holds what the program wrote.
Mirrors(s, d) ==
  /\ s.writable <=> Writes(d.mode)
  /\ d.whole /\ Writes(d.mode) => s.wbuf = d.want

\* What a thread knows of its slot's buffer s and of its file: an open, up to where the
\* buffer is the file; a close, that the buffer and then the file is what was written.
Probed(r, f) ==
  /\ r.pc = "stat" => ~r.seed
  /\ r.seed /\ r.pc \in {"readdir", "open", "null", "claim"} => r.mode = "append"
  /\ r.pc \in {"null", "claim"} /\ ~r.seed /\ r.whole /\ r.mode = "append" => Reads(f) = <<>>
Seeding(r, s, f) ==
  /\ r.pc \in {"seedopen", "seed", "seedclose"} => r.mode = "append" /\ s.writable
  /\ r.pc \in {"seed", "seedclose"} => r.handle # 0
  /\ r.pc = "seedopen" => s.wbuf = <<>>
  /\ r.pc = "seed" /\ r.whole => Begins(s.wbuf, Reads(f))
  /\ r.pc = "seedclose" /\ r.whole => s.wbuf = Reads(f)
Closing(r, s, f) ==
  /\ r.pc = "flush" => s.file = r.file /\ (r.whole => s.wbuf = r.want)
  /\ r.pc = "release" => ~Writes(r.mode)
  /\ r.pc \in {"free", "real"} /\ Writes(r.mode) /\ r.whole => f = r.want
Knows(r, s, f) == Probed(r, f) /\ Seeding(r, s, f) /\ Closing(r, s, f)

Buffers ==
  /\ \A n \in Fds, i \in Slots :
       n # 0 /\ tab[i].fd = n /\ desc[n] # Closed => Mirrors(tab[i], desc[n])
  /\ \A t \in Threads : Knows(th[t], tab[th[t].slot], store[th[t].file])

FInv == IInv /\ Shapes /\ Buffers

----------------------------------------------------------------------------
(* What the steps have in common.                                          *)

\* Buffers are sequences of blocks, the empty one among them.
LEMMA EmptyBlocks ==
  <<>> \in Blocks /\ Len(<<>>) = 0
BY DEF Blocks

\* A thread between calls knows nothing of files.
LEMMA IdleKnows ==
  GoodThread(Idle) /\ \A s, f : Knows(Idle, s, f)
BY EmptyBlocks, InterposeAssumption
   DEF GoodThread, Idle, Pcs, Knows, Probed, Seeding, Closing

\* What a thread knows of a slot, when it has none.
LEMMA KnowsNoSlot ==
  ASSUME NEW r, NEW s, NEW s2, NEW f, Knows(r, s, f),
         r.pc \notin {"seedopen", "seed", "seedclose", "flush"}
  PROVE  Knows(r, s2, f)
BY DEF Knows, Probed, Seeding, Closing

\* A descriptor the program does not have is to no mode.
LEMMA ClosedMode ==
  ~Writes(Closed.mode)
BY InterposeAssumption DEF Closed, Writes

\* The threads other than the one that moves know what they knew, when the step leaves
\* their slots and the files as they are.
LEMMA OthersKnow ==
  ASSUME Shapes, Buffers, NEW t \in Threads, Moves(t), store' = store,
         \A u \in Threads \ {t} : OwnsSlot(u) => tab'[th[u].slot] = tab[th[u].slot]
  PROVE  \A u \in Threads \ {t} :
           GoodThread(th'[u]) /\ Knows(th'[u], tab'[th'[u].slot], store'[th'[u].file])
<1> SUFFICES ASSUME NEW u \in Threads \ {t}
             PROVE  GoodThread(th'[u]) /\ Knows(th'[u], tab'[th'[u].slot], store'[th'[u].file])
  OBVIOUS
<1>1. th'[u] = th[u] /\ GoodThread(th[u]) /\ Knows(th[u], tab[th[u].slot], store[th[u].file])
  BY DEF Moves, Shapes, Buffers
<1>2. CASE OwnsSlot(u)
  BY <1>1, <1>2
<1>3. CASE ~OwnsSlot(u)
  <2>1. th[u].pc \notin {"seedopen", "seed", "seedclose", "flush"}
    BY <1>3 DEF OwnsSlot
  <2> QED
    BY <1>1, <2>1, KnowsNoSlot
<1> QED
  BY <1>2, <1>3

\* Two threads have two slots, and neither is that of a number of the program.
LEMMA SlotsApart ==
  ASSUME IInv, NEW t \in Threads, OwnsSlot(t)
  PROVE  /\ th[t].slot \in Slots /\ tab[th[t].slot].fd = th[t].fd
         /\ th[t].fd \in Fds /\ th[t].fd # 0 /\ desc[th[t].fd] = Closed
         /\ \A u \in Threads \ {t} : OwnsSlot(u) => th[u].slot # th[t].slot
<1>1. Types /\ Numbers
  BY DEF IInv
<1>2. \A u \in Threads : OwnsSlot(u) => OwnsFd(u)
  BY DEF OwnsSlot, OwnsFd
<1> QED
  BY <1>1, <1>2 DEF Types, IsThread, Numbers, Owners, OwnSlots, OneOwner

\* The numbers of the program have what was written to them, when slots and descriptors
\* are as they were.
LEMMA MirrorsSame ==
  ASSUME Buffers,
         \A n \in Fds : desc'[n] = desc[n] \/ desc'[n] = Closed,
         \A n \in Fds, i \in Slots :
           n # 0 /\ tab'[i].fd = n /\ desc[n] # Closed => tab'[i] = tab[i]
  PROVE  \A n \in Fds, i \in Slots :
           n # 0 /\ tab'[i].fd = n /\ desc'[n] # Closed => Mirrors(tab'[i], desc'[n])
BY DEF Buffers

\* A step of one thread that changes no file, put together.
LEMMA StepFiles ==
  ASSUME Shapes, Buffers, NEW t \in Threads, Moves(t), store' = store,
         kern' \in [Fds -> Locals \cup {"stdin", "free", "null"}],
         \A i \in Slots : GoodSlot(tab'[i]),
         \A u \in Threads \ {t} : OwnsSlot(u) => tab'[th[u].slot] = tab[th[u].slot],
         GoodThread(th'[t]), Knows(th'[t], tab'[th'[t].slot], store[th'[t].file]),
         \A n \in Fds : GoodDesc(desc'[n]),
         sess'.open \in [DOMAIN sess'.open -> Paths], sess'.next <= MaxHandles + 1,
         \A n \in Fds, i \in Slots :
           n # 0 /\ tab'[i].fd = n /\ desc'[n] # Closed => Mirrors(tab'[i], desc'[n])
  PROVE  Shapes' /\ Buffers'
<1>1. \A u \in Threads :
        GoodThread(th'[u]) /\ Knows(th'[u], tab'[th'[u].slot], store'[th'[u].file])
  BY OthersKnow
<1>2. Shapes'
  BY <1>1 DEF Shapes
<1> QED
  BY <1>1, <1>2 DEF Buffers

\* The same for a step that changes only where its thread is.
LEMMA StepAlone ==
  ASSUME Shapes, Buffers, NEW t \in Threads, Moves(t),
         UNCHANGED <<kern, tab, desc, store>>,
         GoodThread(th'[t]), Knows(th'[t], tab[th'[t].slot], store[th'[t].file]),
         sess'.open \in [DOMAIN sess'.open -> Paths], sess'.next <= MaxHandles + 1
  PROVE  Shapes' /\ Buffers'
<1>1. (\A i \in Slots : GoodSlot(tab'[i])) /\ (\A n \in Fds : GoodDesc(desc'[n]))
      /\ kern' \in [Fds -> Locals \cup {"stdin", "free", "null"}]
  BY DEF Shapes
<1>2. \A n \in Fds, i \in Slots :
        n # 0 /\ tab'[i].fd = n /\ desc'[n] # Closed => Mirrors(tab'[i], desc'[n])
  BY MirrorsSame
<1> QED
  BY <1>1, <1>2, StepFiles

----------------------------------------------------------------------------
(* The steps of an open.                                                   *)

\* An open starts.
LEMMA OpenFiles ==
  ASSUME FInv, NEW t \in Threads, NEW p \in Paths, NEW m \in Modes, Open(t, p, m)
  PROVE  Shapes' /\ Buffers'
<1>1. Types /\ Shapes /\ Buffers /\ UNCHANGED <<kern, tab, desc, sess, store>>
  BY DEF FInv, IInv, Open
<1>2. /\ Moves(t)
      /\ th'[t] = [Idle EXCEPT !.pc = "stat", !.file = p, !.mode = m]
  BY <1>1 DEF Types, Moves, Open
<1>3. GoodThread(th'[t])
  BY <1>2, IdleKnows DEF GoodThread, Idle, Pcs, Kinds
<1>4. Knows(th'[t], tab[th'[t].slot], store[th'[t].file])
  BY <1>2 DEF Idle, Knows, Probed, Seeding, Closing
<1> QED
  BY <1>1, <1>2, <1>3, <1>4, StepAlone DEF Shapes

\* The probe: what it does not find is not there to be read.
LEMMA StatFiles ==
  ASSUME FInv, NEW t \in Threads, Stat(t)
  PROVE  Shapes' /\ Buffers'
<1>1. Types /\ Shapes /\ Buffers /\ th[t].pc = "stat"
      /\ UNCHANGED <<kern, tab, desc, sess, store>>
  BY DEF FInv, IInv, Stat
<1>2. IsThread(th[t]) /\ GoodThread(th[t]) /\ DOMAIN th = Threads /\ ~th[t].seed
  BY <1>1 DEF Types, Shapes, Buffers, Knows, Probed
<1>3. /\ Moves(t) /\ GoodThread(th'[t])
      /\ Knows(th'[t], tab[th'[t].slot], store[th'[t].file])
  <2> DEFINE Good == /\ Moves(t) /\ GoodThread(th'[t])
                     /\ Knows(th'[t], tab[th'[t].slot], store[th'[t].file])
  <2>1. CASE th' = [th EXCEPT ![t].pc = "readdir", ![t].mode = "read"]
    BY <1>2, <2>1 DEF Moves, IsThread, GoodThread, Pcs, Knows, Probed, Seeding, Closing
  <2>2. CASE Goto(t, "open")
    BY <1>2, <2>2 DEF Goto, Moves, IsThread, GoodThread, Pcs, Knows, Probed, Seeding, Closing
  <2>3. CASE Fail(t)
    BY <1>1, <2>3, FailEffect, IdleKnows
  <2>4. ASSUME NEW ok \in BOOLEAN, NEW have \in BOOLEAN,
               have = (ok /\ store[th[t].file] # Absent), Writes(th[t].mode),
               th' = [th EXCEPT ![t].pc = "null", ![t].whole = ok /\ @,
                                ![t].seed = have /\ th[t].mode # "trunc"]
        PROVE  Good
    <3>1. /\ Moves(t) /\ th'[t].pc = "null" /\ th'[t].whole = (ok /\ th[t].whole)
          /\ th'[t].seed = (have /\ th[t].mode # "trunc") /\ th'[t].mode = th[t].mode
          /\ th'[t].file = th[t].file /\ th'[t].handle = th[t].handle
          /\ th'[t].want = th[t].want
      BY <1>2, <2>4 DEF Moves, IsThread
    <3>2. GoodThread(th'[t])
      BY <1>2, <3>1 DEF GoodThread, Pcs
    <3>3. Probed(th'[t], store[th'[t].file])
      BY <2>4, <3>1 DEF Probed, Reads, Writes
    <3> QED
      BY <3>1, <3>2, <3>3 DEF Knows, Seeding, Closing
  <2>5. PICK ok \in BOOLEAN :
          LET have == ok /\ store[th[t].file] # Absent IN
          \/ th' = [th EXCEPT ![t].pc = "readdir", ![t].mode = "read"]
          \/ Goto(t, "open")
          \/ Fail(t)
          \/ /\ Writes(th[t].mode)
             /\ th' = [th EXCEPT ![t].pc = "null", ![t].whole = ok /\ @,
                                 ![t].seed = have /\ th[t].mode # "trunc"]
    BY Zenon DEF Stat
  <2> HIDE DEF Good
  <2>6. Good
    BY <2>1, <2>2, <2>3, <2>4, <2>5 DEF Good
  <2> QED
    BY <2>6 DEF Good
<1> QED
  BY <1>1, <1>3, StepAlone DEF Shapes

\* The listing of a directory.
LEMMA ReadDirFiles ==
  ASSUME FInv, NEW t \in Threads, ReadDir(t)
  PROVE  Shapes' /\ Buffers'
<1>1. Types /\ Handles /\ Shapes /\ Buffers /\ th[t].pc = "readdir"
      /\ UNCHANGED <<kern, tab, desc, sess, store>>
  BY DEF FInv, IInv, ReadDir
<1>2. /\ IsThread(th[t]) /\ GoodThread(th[t]) /\ DOMAIN th = Threads
      /\ Probed(th[t], store[th[t].file]) /\ ~Writes(th[t].mode)
  BY <1>1 DEF Types, Shapes, Buffers, Knows, Handles, Unread, NoneRead
<1>3. /\ Moves(t) /\ GoodThread(th'[t])
      /\ Knows(th'[t], tab[th'[t].slot], store[th'[t].file])
  <2>1. CASE Goto(t, "null")
    BY <1>1, <1>2, <2>1 DEF Goto, Moves, IsThread, GoodThread, Pcs, Knows, Probed, Seeding,
                            Closing, Writes
  <2>2. CASE Fail(t)
    BY <1>1, <2>2, FailEffect, IdleKnows
  <2> QED
    BY <2>1, <2>2 DEF ReadDir
<1> QED
  BY <1>1, <1>3, StepAlone DEF Shapes

\* The adapter's handles, after one is issued.
LEMMA IssueFiles ==
  ASSUME Shapes, Types, NEW p \in Paths, Issue(p), sess.next <= MaxHandles
  PROVE  sess'.open \in [DOMAIN sess'.open -> Paths] /\ sess'.next <= MaxHandles + 1
<1>1. sess'.open = [h \in DOMAIN sess.open \cup {sess.next} |->
                      IF h = sess.next THEN p ELSE sess.open[h]]
      /\ sess'.next = sess.next + 1
  BY DEF Issue
<1>2. sess'.open \in [DOMAIN sess.open \cup {sess.next} -> Paths]
  BY <1>1 DEF Shapes
<1>3. sess'.next <= MaxHandles + 1
  BY <1>1, InterposeAssumption DEF Types
<1> QED
  BY <1>2, <1>3

\* The adapter's handles, after one is released.
LEMMA ReleaseFiles ==
  ASSUME Shapes, Types, NEW h, Release(h)
  PROVE  sess'.open \in [DOMAIN sess'.open -> Paths] /\ sess'.next <= MaxHandles + 1
<1>1. /\ sess'.open = [x \in DOMAIN sess.open \ {h} |-> sess.open[x]]
      /\ sess'.next = sess.next
  BY DEF Release, Types
<1>2. sess'.open \in [DOMAIN sess.open \ {h} -> Paths]
  BY <1>1 DEF Shapes
<1> QED
  BY <1>1, <1>2 DEF Shapes

\* The open of a file to read.
LEMMA OpenHandleFiles ==
  ASSUME FInv, NEW t \in Threads, OpenHandle(t)
  PROVE  Shapes' /\ Buffers'
<1>1. Types /\ Numbers /\ Handles /\ Shapes /\ Buffers /\ th[t].pc = "open"
      /\ UNCHANGED <<kern, tab, desc, store>>
  BY DEF FInv, IInv, OpenHandle
<1>2. /\ IsThread(th[t]) /\ GoodThread(th[t]) /\ DOMAIN th = Threads
      /\ Probed(th[t], store[th[t].file]) /\ ~Writes(th[t].mode) /\ th[t].file \in Paths
  BY <1>1 DEF Types, Shapes, Buffers, Knows, Handles, Unread, NoneRead, Numbers, Files, Opening
<1>3. CASE Fail(t) /\ UNCHANGED sess
  BY <1>1, <1>3, FailEffect, IdleKnows, StepAlone DEF Shapes
<1>4. CASE /\ sess.next <= MaxHandles /\ Issue(th[t].file)
           /\ th' = [th EXCEPT ![t].pc = "null", ![t].handle = sess.next]
  <2>1. /\ Moves(t) /\ th'[t].pc = "null" /\ th'[t].handle = sess.next
        /\ th'[t].file = th[t].file /\ th'[t].mode = th[t].mode /\ th'[t].seed = th[t].seed
        /\ th'[t].whole = th[t].whole /\ th'[t].want = th[t].want
    BY <1>2, <1>4 DEF Moves, IsThread
  <2>2. GoodThread(th'[t])
    BY <1>2, <1>4, <2>1 DEF GoodThread, Pcs
  <2>3. Knows(th'[t], tab[th'[t].slot], store[th'[t].file])
    BY <1>1, <1>2, <2>1 DEF Knows, Probed, Seeding, Closing, Writes
  <2> QED
    BY <1>1, <1>2, <1>4, <2>1, <2>2, <2>3, IssueFiles, StepAlone
<1> QED
  BY <1>3, <1>4 DEF OpenHandle

\* newslot takes a number.
LEMMA PlaceholderFiles ==
  ASSUME FInv, NEW t \in Threads, Placeholder(t)
  PROVE  Shapes' /\ Buffers'
<1>1. Types /\ Numbers /\ Shapes /\ Buffers /\ th[t].pc = "null"
      /\ UNCHANGED <<tab, desc, sess, store>>
  BY DEF FInv, IInv, Placeholder
<1>2. IsThread(th[t]) /\ GoodThread(th[t]) /\ DOMAIN th = Threads /\ DOMAIN kern = Fds
      /\ Probed(th[t], store[th[t].file])
  BY <1>1 DEF Types, Shapes, Buffers, Knows
<1>3. CASE Abandon(t) /\ UNCHANGED kern
  BY <1>1, <1>3, FailEffect, IdleKnows, StepAlone DEF Shapes, Abandon
<1>4. ASSUME NEW n \in Fds, kern' = [kern EXCEPT ![n] = "null"],
             th' = [th EXCEPT ![t].pc = "claim", ![t].fd = n]
      PROVE  Shapes' /\ Buffers'
  <2>1. /\ Moves(t) /\ th'[t].pc = "claim" /\ th'[t].handle = th[t].handle
        /\ th'[t].file = th[t].file /\ th'[t].mode = th[t].mode /\ th'[t].seed = th[t].seed
        /\ th'[t].whole = th[t].whole /\ th'[t].want = th[t].want
    BY <1>2, <1>4 DEF Moves, IsThread
  <2>2. GoodThread(th'[t])
    BY <1>2, <2>1 DEF GoodThread, Pcs
  <2>3. Knows(th'[t], tab'[th'[t].slot], store[th'[t].file])
    BY <1>1, <1>2, <2>1 DEF Knows, Probed, Seeding, Closing
  <2>4. kern' \in [Fds -> Locals \cup {"stdin", "free", "null"}]
    BY <1>1, <1>2, <1>4 DEF Shapes
  <2>5. \A k \in Fds, i \in Slots :
          k # 0 /\ tab'[i].fd = k /\ desc'[k] # Closed => Mirrors(tab'[i], desc'[k])
    BY <1>1, MirrorsSame
  <2> QED
    BY <1>1, <2>1, <2>2, <2>3, <2>4, <2>5, StepFiles DEF Shapes
<1> QED
  BY <1>1, <1>3, <1>4, FreeNumber DEF Placeholder

\* What an open that succeeds makes of its number: the buffer is what the program may
\* add to, if it was filled whole.
LEMMA ReturnFiles ==
  ASSUME Types, Shapes, NEW t \in Threads, NEW w \in BOOLEAN, Return(t, w),
         th[t].fd \in Fds, th[t].file \in Paths
  PROVE  /\ desc'[th[t].fd] = [file |-> th[t].file, mode |-> th[t].mode, whole |-> w,
              want |-> IF w /\ th[t].mode = "append" THEN Reads(store[th[t].file]) ELSE <<>>]
         /\ \A n \in Fds : GoodDesc(desc'[n])
<1> DEFINE d == [file |-> th[t].file, mode |-> th[t].mode, whole |-> w,
                 want |-> IF w /\ th[t].mode = "append" THEN Reads(store[th[t].file]) ELSE <<>>]
<1>1. desc' = [desc EXCEPT ![th[t].fd] = d]
  BY DEF Return, Content, Reads
<1>2. GoodDesc(d)
  BY EmptyBlocks DEF GoodDesc, Reads, Shapes, GoodFile, Kinds
<1> HIDE DEF d
<1>3. desc'[th[t].fd] = d /\ \A n \in Fds : GoodDesc(desc'[n])
  BY <1>1, <1>2 DEF Types, Shapes
<1> QED
  BY <1>3 DEF d

\* newslot takes a slot; a buffer that is not filled from the file starts empty, as the
\* file is then.
LEMMA ClaimFiles ==
  ASSUME FInv, NEW t \in Threads, Claim(t)
  PROVE  Shapes' /\ Buffers'
<1>1. IInv /\ Types /\ Numbers /\ Shapes /\ Buffers /\ th[t].pc = "claim"
      /\ UNCHANGED <<sess, store>>
  BY DEF FInv, IInv, Claim
<1>2. /\ IsThread(th[t]) /\ GoodThread(th[t]) /\ DOMAIN th = Threads /\ DOMAIN kern = Fds
      /\ DOMAIN tab = Slots /\ DOMAIN desc = Fds
      /\ Probed(th[t], store[th[t].file]) /\ th[t].file \in Paths /\ th[t].fd \in Fds
      /\ kern[th[t].fd] = "null" /\ desc[th[t].fd] = Closed
  BY <1>1 DEF Types, IsThread, Shapes, Buffers, Knows, Numbers, Files, Opening, Owners, OwnsFd
<1>3. CASE Abandon(t) /\ kern' = [kern EXCEPT ![th[t].fd] = "free"] /\ UNCHANGED <<tab, desc>>
  <2>1. Moves(t) /\ th'[t] = Idle
    BY <1>1, <1>3, FailEffect DEF Abandon
  <2>2. kern' \in [Fds -> Locals \cup {"stdin", "free", "null"}]
    BY <1>1, <1>2, <1>3 DEF Shapes
  <2>3. \A k \in Fds, i \in Slots :
          k # 0 /\ tab'[i].fd = k /\ desc'[k] # Closed => Mirrors(tab'[i], desc'[k])
    BY <1>1, <1>3, MirrorsSame
  <2> QED
    BY <1>1, <1>3, <2>1, <2>2, <2>3, IdleKnows, StepFiles DEF Shapes
<1>4. ASSUME NEW k \in Slots, tab[k].fd = 0, UNCHANGED kern,
             tab' = [tab EXCEPT ![k] =
               [Zeroed EXCEPT !.fd = th[t].fd, !.file = th[t].file, !.handle = th[t].handle,
                              !.writable = Writes(th[t].mode)]],
             \/ /\ NeedsSeed(t) /\ UNCHANGED desc
                /\ th' = [th EXCEPT ![t].pc = "seedopen", ![t].slot = k]
             \/ ~NeedsSeed(t) /\ Return(t, th[t].whole)
      PROVE  Shapes' /\ Buffers'
  <2>1. /\ tab'[k].fd = th[t].fd /\ tab'[k].file = th[t].file
        /\ tab'[k].handle = th[t].handle /\ tab'[k].wbuf = <<>>
        /\ tab'[k].writable = Writes(th[t].mode) /\ \A i \in Slots \ {k} : tab'[i] = tab[i]
    BY <1>2, <1>4 DEF Zeroed
  <2>2. \A i \in Slots : GoodSlot(tab'[i])
    <3>1. Writes(th[t].mode) \in BOOLEAN
      BY DEF Writes
    <3>2. tab'[k].file \in Paths /\ tab'[k].handle <= MaxHandles
      BY <1>2, <2>1 DEF GoodThread
    <3>3. tab'[k].wbuf \in Blocks /\ Len(tab'[k].wbuf) <= MaxLen
      BY <2>1, EmptyBlocks, InterposeAssumption
    <3>4. GoodSlot(tab'[k])
      BY <2>1, <3>1, <3>2, <3>3 DEF GoodSlot
    <3> QED
      BY <1>1, <2>1, <3>4 DEF Shapes
  <2>3. \A u \in Threads \ {t} : OwnsSlot(u) => tab'[th[u].slot] = tab[th[u].slot]
    BY <1>1, <1>4, <2>1, SlotsApart
  <2>4. \A n \in Fds \ {th[t].fd}, i \in Slots :
          n # 0 /\ tab'[i].fd = n => tab'[i] = tab[i]
    BY <2>1
  <2>5. kern' \in [Fds -> Locals \cup {"stdin", "free", "null"}]
    BY <1>1, <1>4 DEF Shapes
  <2>6. CASE /\ NeedsSeed(t) /\ UNCHANGED desc
             /\ th' = [th EXCEPT ![t].pc = "seedopen", ![t].slot = k]
    <3>1. /\ Moves(t) /\ th'[t].pc = "seedopen" /\ th'[t].slot = k
          /\ th'[t].handle = th[t].handle /\ th'[t].file = th[t].file
          /\ th'[t].mode = th[t].mode /\ th'[t].seed = th[t].seed
          /\ th'[t].whole = th[t].whole /\ th'[t].want = th[t].want
      BY <1>2, <2>6 DEF Moves, IsThread
    <3>2. GoodThread(th'[t])
      BY <1>2, <3>1 DEF GoodThread, Pcs
    <3>3. Knows(th'[t], tab'[th'[t].slot], store[th'[t].file])
      BY <1>1, <1>2, <2>1, <2>6, <3>1 DEF NeedsSeed, Knows, Probed, Seeding, Closing, Writes
    <3>4. \A n \in Fds, i \in Slots :
            n # 0 /\ tab'[i].fd = n /\ desc'[n] # Closed => Mirrors(tab'[i], desc'[n])
      BY <1>1, <1>2, <2>4, <2>6, MirrorsSame
    <3> QED
      BY <1>1, <2>2, <2>3, <2>5, <2>6, <3>1, <3>2, <3>3, <3>4, StepFiles DEF Shapes
  <2>7. CASE ~NeedsSeed(t) /\ Return(t, th[t].whole)
    <3> DEFINE f == th[t].fd
    <3>1. /\ Moves(t) /\ th'[t] = Idle /\ \A n \in Fds \ {f} : desc'[n] = desc[n]
      BY <1>1, <1>2, <2>7, ReturnEffect
    <3>2. /\ \A n \in Fds : GoodDesc(desc'[n])
          /\ desc'[f].mode = th[t].mode /\ desc'[f].whole = th[t].whole
          /\ desc'[f].want = IF th[t].whole /\ th[t].mode = "append"
                               THEN Reads(store[th[t].file]) ELSE <<>>
      <4>1. th[t].whole \in BOOLEAN
        BY <1>2 DEF GoodThread
      <4>2. PICK w \in BOOLEAN : w = th[t].whole
        BY <4>1
      <4>3. Return(t, w)
        BY <2>7, <4>2
      <4>4. /\ \A n \in Fds : GoodDesc(desc'[n])
            /\ desc'[f] = [file |-> th[t].file, mode |-> th[t].mode, whole |-> w,
                 want |-> IF w /\ th[t].mode = "append" THEN Reads(store[th[t].file]) ELSE <<>>]
        BY <1>1, <1>2, <4>3, ReturnFiles
      <4> QED
        BY <4>2, <4>4
    <3>3. Mirrors(tab'[k], desc'[f])
      BY <1>1, <1>2, <2>1, <2>7, <3>2 DEF Mirrors, NeedsSeed, Probed
    <3>4. \A i \in Slots : tab'[i].fd = f => i = k
      BY <1>1, <2>1 DEF Numbers, OwnSlots, NoSlot
    <3>5. \A n \in Fds, i \in Slots :
            n # 0 /\ tab'[i].fd = n /\ desc'[n] # Closed => Mirrors(tab'[i], desc'[n])
      BY <1>1, <2>4, <3>1, <3>3, <3>4 DEF Buffers
    <3> QED
      BY <1>1, <2>2, <2>3, <2>5, <3>1, <3>2, <3>5, IdleKnows, StepFiles DEF Shapes
  <2> QED
    BY <1>4, <2>6, <2>7
<1>5. FreeSlots # {} => Min(FreeSlots) \in Slots /\ tab[Min(FreeSlots)].fd = 0
  <2>1. FreeSlots \subseteq Nat
    BY InterposeAssumption DEF FreeSlots, Slots
  <2> QED
    BY <2>1, MinMember DEF FreeSlots
<1> QED
  BY <1>3, <1>4, <1>5 DEF Claim

\* An open with a slot succeeds: what the program may add to is what the buffer holds.
LEMMA SeededFiles ==
  ASSUME IInv, Shapes, Buffers, NEW t \in Threads, NEW w \in BOOLEAN, Return(t, w),
         th[t].pc \in {"seedopen", "seedclose"}, UNCHANGED <<kern, tab, store>>,
         sess'.open \in [DOMAIN sess'.open -> Paths], sess'.next <= MaxHandles + 1,
         w => tab[th[t].slot].wbuf = Reads(store[th[t].file])
  PROVE  Shapes' /\ Buffers'
<1> DEFINE f == th[t].fd
           k == th[t].slot
<1>1. Types /\ Numbers /\ OwnsSlot(t) /\ th[t].file \in Paths
  BY DEF IInv, OwnsSlot, Numbers, Files, Opening
<1>2. k \in Slots /\ tab[k].fd = f /\ f \in Fds /\ f # 0 /\ desc[f] = Closed
  BY <1>1, SlotsApart
<1>3. th[t].mode = "append" /\ tab[k].writable
  BY DEF Buffers, Knows, Seeding
<1>4. Moves(t) /\ th'[t] = Idle /\ \A n \in Fds \ {f} : desc'[n] = desc[n]
  BY <1>1, <1>2, ReturnEffect
<1>5. /\ \A n \in Fds : GoodDesc(desc'[n])
      /\ desc'[f].mode = "append" /\ desc'[f].whole = w
      /\ w => desc'[f].want = Reads(store[th[t].file])
  <2>1. /\ \A n \in Fds : GoodDesc(desc'[n])
        /\ desc'[f] = [file |-> th[t].file, mode |-> th[t].mode, whole |-> w,
             want |-> IF w /\ th[t].mode = "append" THEN Reads(store[th[t].file]) ELSE <<>>]
    BY <1>1, <1>2, ReturnFiles
  <2> QED
    BY <1>3, <2>1
<1>6. Mirrors(tab[k], desc'[f])
  BY <1>3, <1>5 DEF Mirrors, Writes
<1>7. \A i \in Slots : tab[i].fd = f => i = k
  BY <1>1, <1>2 DEF Numbers, OneSlot
<1>8. \A n \in Fds, i \in Slots :
        n # 0 /\ tab'[i].fd = n /\ desc'[n] # Closed => Mirrors(tab'[i], desc'[n])
  BY <1>4, <1>6, <1>7 DEF Buffers
<1> QED
  BY <1>4, <1>5, <1>8, IdleKnows, StepFiles DEF Shapes

\* The open of a file to fill a buffer from.
LEMMA SeedOpenFiles ==
  ASSUME FInv, NEW t \in Threads, SeedOpen(t)
  PROVE  Shapes' /\ Buffers'
<1>1. IInv /\ Types /\ Numbers /\ Shapes /\ Buffers /\ th[t].pc = "seedopen"
      /\ UNCHANGED <<kern, tab, store>>
  BY DEF FInv, IInv, SeedOpen
<1>2. /\ IsThread(th[t]) /\ GoodThread(th[t]) /\ DOMAIN th = Threads
      /\ Seeding(th[t], tab[th[t].slot], store[th[t].file]) /\ th[t].file \in Paths
  BY <1>1 DEF Types, Shapes, Buffers, Knows, Numbers, Files, Opening
<1>3. CASE Return(t, FALSE) /\ UNCHANGED sess
  BY <1>1, <1>3, SeededFiles DEF Shapes
<1>4. CASE /\ sess.next <= MaxHandles /\ Issue(th[t].file) /\ UNCHANGED desc
           /\ th' = [th EXCEPT ![t].pc = "seed", ![t].handle = sess.next]
  <2>1. /\ Moves(t) /\ th'[t].pc = "seed" /\ th'[t].handle = sess.next
        /\ th'[t].slot = th[t].slot /\ th'[t].file = th[t].file
        /\ th'[t].mode = th[t].mode /\ th'[t].seed = th[t].seed
        /\ th'[t].whole = th[t].whole /\ th'[t].want = th[t].want
    BY <1>2, <1>4 DEF Moves, IsThread
  <2>2. GoodThread(th'[t])
    BY <1>2, <1>4, <2>1 DEF GoodThread, Pcs
  <2>3. Begins(<<>>, Reads(store[th[t].file]))
    BY <1>1, <1>2, EmptyBlocks DEF Begins, Reads, Shapes, GoodFile, Blocks
  <2>4. Knows(th'[t], tab[th'[t].slot], store[th'[t].file])
    BY <1>1, <1>2, <2>1, <2>3 DEF Types, Knows, Probed, Seeding, Closing
  <2> QED
    BY <1>1, <1>2, <1>4, <2>1, <2>2, <2>4, IssueFiles, StepAlone
<1> QED
  BY <1>3, <1>4 DEF SeedOpen

\* A buffer filled so far, and one block further.
LEMMA BeginsMore ==
  ASSUME NEW b \in Blocks, NEW s \in Blocks, Len(b) + 1 <= Len(s)
  PROVE  /\ Append(b, s[Len(b) + 1]) \in Blocks
         /\ Len(Append(b, s[Len(b) + 1])) = Len(b) + 1
         /\ Begins(b, s) => Begins(Append(b, s[Len(b) + 1]), s)
BY DEF Blocks, Begins

\* A buffer filled to the end is the file.
LEMMA BeginsAll ==
  ASSUME NEW b \in Blocks, NEW s \in Blocks, Begins(b, s), Len(b) + 1 > Len(s)
  PROVE  b = s
<1>1. Len(b) = Len(s) /\ \A j \in 1..Len(b) : b[j] = s[j]
  BY DEF Blocks, Begins
<1> QED
  BY <1>1 DEF Blocks

\* The buffer is filled, block by block.
LEMMA SeedFiles ==
  ASSUME FInv, NEW t \in Threads, Seed(t)
  PROVE  Shapes' /\ Buffers'
<1> DEFINE k == th[t].slot
           s == Reads(store[th[t].file])
           b == tab[k].wbuf
<1>1. IInv /\ Types /\ Numbers /\ Handles /\ Shapes /\ Buffers /\ th[t].pc = "seed"
      /\ UNCHANGED <<kern, desc, sess, store>>
  BY DEF FInv, IInv, Seed
<1>2. /\ IsThread(th[t]) /\ GoodThread(th[t]) /\ DOMAIN th = Threads /\ DOMAIN tab = Slots
      /\ Seeding(th[t], tab[k], store[th[t].file]) /\ th[t].file \in Paths
  BY <1>1 DEF Types, Shapes, Buffers, Knows, Numbers, Files, Opening
<1>3. /\ k \in Slots /\ tab[k].fd \in Fds /\ desc[tab[k].fd] = Closed
      /\ \A u \in Threads \ {t} : OwnsSlot(u) => th[u].slot # k
  BY <1>1, SlotsApart DEF OwnsSlot
<1>4. Content(sess.open[th[t].handle]) = s
  BY <1>1, <1>2 DEF Handles, ThreadHandles, Has, Seeding, Content, Reads
<1>5. s \in Blocks /\ Len(s) <= MaxLen /\ b \in Blocks /\ GoodSlot(tab[k]) /\ IsSlot(tab[k])
  BY <1>1, <1>2, <1>3, EmptyBlocks, InterposeAssumption
     DEF Types, Shapes, GoodFile, GoodSlot, Reads
<1>6. CASE th' = [th EXCEPT ![t].pc = "seedclose"] /\ Len(b) + 1 > Len(s) /\ UNCHANGED tab
  <2>1. /\ Moves(t) /\ GoodThread(th'[t]) /\ th'[t].slot = k /\ th'[t].file = th[t].file
        /\ th'[t].pc = "seedclose" /\ th'[t].mode = th[t].mode
        /\ th'[t].handle = th[t].handle /\ th'[t].whole = th[t].whole
    BY <1>2, <1>6 DEF Moves, IsThread, GoodThread, Pcs
  <2>2. th[t].whole => b = s
    BY <1>1, <1>2, <1>5, <1>6, BeginsAll DEF Seeding
  <2>3. Knows(th'[t], tab[th'[t].slot], store[th'[t].file])
    BY <1>1, <1>2, <2>1, <2>2 DEF Knows, Probed, Seeding, Closing
  <2> QED
    BY <1>1, <1>6, <2>1, <2>3, StepAlone DEF Shapes
<1>7. CASE th' = [th EXCEPT ![t].pc = "seedclose", ![t].whole = FALSE] /\ UNCHANGED tab
  <2>1. /\ Moves(t) /\ GoodThread(th'[t]) /\ th'[t].slot = k /\ th'[t].file = th[t].file
        /\ th'[t].pc = "seedclose" /\ th'[t].mode = th[t].mode
        /\ th'[t].handle = th[t].handle /\ th'[t].whole = FALSE
    BY <1>2, <1>7 DEF Moves, IsThread, GoodThread, Pcs
  <2>2. Knows(th'[t], tab[th'[t].slot], store[th'[t].file])
    BY <1>1, <1>2, <2>1 DEF Knows, Probed, Seeding, Closing
  <2> QED
    BY <1>1, <1>7, <2>1, <2>2, StepAlone DEF Shapes
<1>8. CASE /\ Len(b) + 1 <= Len(s) /\ UNCHANGED th
           /\ tab' = [tab EXCEPT ![k].wbuf = Append(b, s[Len(b) + 1])]
  <2> DEFINE c == Append(b, s[Len(b) + 1])
  <2>1. c \in Blocks /\ Len(c) <= MaxLen /\ (Begins(b, s) => Begins(c, s))
    <3>1. c \in Blocks /\ Len(c) = Len(b) + 1 /\ (Begins(b, s) => Begins(c, s))
      BY <1>5, <1>8, BeginsMore
    <3>2. Len(b) \in Nat /\ Len(s) \in Nat /\ MaxLen \in Nat
      BY <1>5, InterposeAssumption DEF Blocks
    <3> HIDE DEF c
    <3> QED
      BY <1>5, <1>8, <3>1, <3>2
  <2> HIDE DEF c
  <2>2. tab' = [tab EXCEPT ![k].wbuf = c]
    BY <1>8 DEF c
  <2>3. /\ tab'[k].file = tab[k].file /\ tab'[k].handle = tab[k].handle /\ tab'[k].wbuf = c
        /\ tab'[k].writable = tab[k].writable /\ tab'[k].fd = tab[k].fd
        /\ \A i \in Slots \ {k} : tab'[i] = tab[i]
    BY <1>2, <1>3, <1>5, <2>2 DEF IsSlot
  <2>4. \A i \in Slots : GoodSlot(tab'[i])
    BY <1>1, <1>5, <2>1, <2>3 DEF Shapes, GoodSlot
  <2>5. \A u \in Threads \ {t} : OwnsSlot(u) => tab'[th[u].slot] = tab[th[u].slot]
    BY <1>1, <1>3, <2>3, SlotsApart
  <2>6. Moves(t)
    BY <1>2, <1>8 DEF Moves
  <2>7. Knows(th'[t], tab'[th'[t].slot], store[th'[t].file])
    BY <1>1, <1>2, <1>8, <2>1, <2>3 DEF Knows, Probed, Seeding, Closing
  <2>8. \A n \in Fds, i \in Slots :
          n # 0 /\ tab'[i].fd = n /\ desc'[n] # Closed => Mirrors(tab'[i], desc'[n])
    BY <1>1, <1>3, <2>3 DEF Buffers
  <2> QED
    BY <1>1, <1>2, <1>8, <2>4, <2>5, <2>6, <2>7, <2>8, StepFiles DEF Shapes
<1> QED
  BY <1>4, <1>6, <1>7, <1>8 DEF Seed, Goto

\* The close of the handle the buffer was filled from.
LEMMA SeedCloseFiles ==
  ASSUME FInv, NEW t \in Threads, SeedClose(t)
  PROVE  Shapes' /\ Buffers'
<1>1. IInv /\ Types /\ Shapes /\ Buffers /\ th[t].pc = "seedclose"
      /\ UNCHANGED <<kern, tab, store>> /\ Release(th[t].handle)
  BY DEF FInv, IInv, SeedClose
<1>2. PICK w \in BOOLEAN : w = th[t].whole
  BY <1>1 DEF Shapes, GoodThread
<1>3. Return(t, w)
  BY <1>2 DEF SeedClose
<1>4. w => tab[th[t].slot].wbuf = Reads(store[th[t].file])
  BY <1>1, <1>2 DEF Buffers, Knows, Seeding
<1>5. sess'.open \in [DOMAIN sess'.open -> Paths] /\ sess'.next <= MaxHandles + 1
  BY <1>1, ReleaseFiles
<1> QED
  BY <1>1, <1>3, <1>4, <1>5, SeededFiles

\* The open of a file that is not routed.
LEMMA OpenLocalFiles ==
  ASSUME FInv, NEW t \in Threads, NEW l \in Locals, OpenLocal(t, l)
  PROVE  Shapes' /\ Buffers'
<1>1. Types /\ Numbers /\ Shapes /\ Buffers /\ FreeFds # {}
      /\ UNCHANGED <<tab, th, sess, store>>
  BY DEF FInv, IInv, OpenLocal
<1>2. PICK n \in Fds : n = Min(FreeFds) /\ kern[n] = "free"
  BY <1>1, FreeNumber
<1>3. /\ kern' = [kern EXCEPT ![n] = l]
      /\ desc' = [desc EXCEPT ![n] = [Closed EXCEPT !.file = l, !.mode = "local"]]
  BY <1>2 DEF OpenLocal
<1>4. /\ kern' \in [Fds -> Locals \cup {"stdin", "free", "null"}]
      /\ \A k \in Fds \ {n} : desc'[k] = desc[k]
  BY <1>1, <1>3 DEF Types, Shapes
<1>5. \A k \in Fds : GoodDesc(desc'[k])
  BY <1>1, <1>3, EmptyBlocks DEF Types, Shapes, GoodDesc, Closed, Kinds
<1>6. \A i \in Slots : tab[i].fd # n \/ n = 0
  BY <1>1, <1>2 DEF Numbers, SlotsAreNull
<1>7. \A k \in Fds, i \in Slots :
        k # 0 /\ tab'[i].fd = k /\ desc'[k] # Closed => Mirrors(tab'[i], desc'[k])
  BY <1>1, <1>4, <1>6 DEF Buffers
<1>8. Moves(t) /\ GoodThread(th'[t]) /\ Knows(th'[t], tab'[th'[t].slot], store[th'[t].file])
  BY <1>1 DEF Types, Moves, Shapes, Buffers
<1> QED
  BY <1>1, <1>4, <1>5, <1>7, <1>8, StepFiles DEF Shapes

----------------------------------------------------------------------------
(* Write and close.                                                        *)

\* The greater of two numbers.
LEMMA MaxPair ==
  ASSUME NEW a \in Nat, NEW b \in Nat
  PROVE  Max({a, b}) \in {a, b} /\ Max({a, b}) >= a /\ Max({a, b}) >= b
<1>1. \E x \in {a, b} : \A y \in {a, b} : x >= y
  BY a >= b \/ b >= a
<1>2. Max({a, b}) \in {a, b} /\ \A y \in {a, b} : Max({a, b}) >= y
  BY <1>1 DEF Max
<1> QED
  BY <1>2

\* A block written into a buffer.
LEMMA OverwriteBlocks ==
  ASSUME NEW b \in Blocks, NEW k \in Nat \ {0}, k <= MaxLen, Len(b) <= MaxLen
  PROVE  Overwrite(b, k, "new") \in Blocks /\ Len(Overwrite(b, k, "new")) <= MaxLen
<1> DEFINE m == Max({Len(b), k})
           B == {"old", "new", "junk"}
<1>1. Len(b) \in Nat /\ b \in Seq(B)
  BY DEF Blocks
<1>2. m \in Nat /\ m <= MaxLen
  BY <1>1, MaxPair
<1> HIDE DEF m
<1>3. \A j \in 1..m : (IF j = k THEN "new" ELSE IF j <= Len(b) THEN b[j] ELSE "junk") \in B
  BY <1>1, <1>2
<1>4. Overwrite(b, k, "new") =
        [j \in 1..m |-> IF j = k THEN "new" ELSE IF j <= Len(b) THEN b[j] ELSE "junk"]
  BY DEF m, Overwrite
<1>5. Overwrite(b, k, "new") \in [1..m -> B]
  BY <1>3, <1>4
<1>6. Overwrite(b, k, "new") \in Seq(B) /\ Len(Overwrite(b, k, "new")) = m
  BY <1>2, <1>5
<1> QED
  BY <1>2, <1>6 DEF Blocks

\* write and pwrite: the buffer and what the file should hold change alike.
LEMMA WriteFiles ==
  ASSUME FInv, NEW t \in Threads, NEW n \in Fds, NEW o \in 0..MaxLen, Write(t, n, o)
  PROVE  Shapes' /\ Buffers'
<1> DEFINE i == SlotOf(n)
           b == tab[i].wbuf
           k == IF o = 0 THEN Len(b) + 1 ELSE o
           c == Overwrite(b, k, "new")
<1>1. IInv /\ Types /\ Numbers /\ Shapes /\ Buffers /\ Writes(desc[n].mode)
      /\ UNCHANGED <<kern, th, sess, store>>
  BY DEF FInv, IInv, Write
<1>2. /\ i # 0 /\ tab[i].writable /\ k <= MaxLen
      /\ tab' = [tab EXCEPT ![i].wbuf = c]
      /\ desc' = IF desc[n].whole /\ k <= Len(b) + 1
                   THEN [desc EXCEPT ![n].want = Overwrite(@, k, "new")]
                   ELSE [desc EXCEPT ![n] = Spoiled(@)]
  BY Zenon DEF Write
<1>3. i \in Slots /\ n # 0 /\ tab[i].fd = n
  BY <1>2, SlotOfFact
<1>4. /\ IsSlot(tab[i]) /\ GoodSlot(tab[i]) /\ DOMAIN tab = Slots
      /\ IsDesc(desc[n]) /\ GoodDesc(desc[n]) /\ DOMAIN desc = Fds /\ DOMAIN th = Threads
  BY <1>1, <1>3 DEF Types, Shapes
<1>5. desc[n] # Closed /\ Mirrors(tab[i], desc[n])
  BY <1>1, <1>3, ClosedMode DEF Buffers
<1>6. b \in Blocks /\ Len(b) \in Nat /\ Len(b) <= MaxLen /\ k \in Nat \ {0}
  BY <1>4, InterposeAssumption DEF GoodSlot, Blocks
<1> HIDE DEF i, k
<1>7. c \in Blocks /\ Len(c) <= MaxLen
  BY <1>2, <1>6, OverwriteBlocks
<1>8. /\ tab'[i].wbuf = c /\ tab'[i].fd = n /\ tab'[i].file = tab[i].file
      /\ tab'[i].handle = tab[i].handle /\ tab'[i].writable = tab[i].writable
      /\ \A j \in Slots \ {i} : tab'[j] = tab[j]
  BY <1>2, <1>3, <1>4 DEF IsSlot
<1>9. \A j \in Slots : GoodSlot(tab'[j])
  BY <1>1, <1>4, <1>7, <1>8 DEF Shapes, GoodSlot
<1>10. /\ desc'[n].mode = desc[n].mode /\ GoodDesc(desc'[n])
       /\ desc'[n].whole => desc'[n].want = c
       /\ \A m \in Fds \ {n} : desc'[m] = desc[m]
  <2>1. CASE desc[n].whole /\ k <= Len(b) + 1
    <3>1. desc[n].want = b
      BY <1>1, <1>5, <2>1 DEF Mirrors
    <3>2. desc' = [desc EXCEPT ![n].want = c]
      BY <1>2, <2>1, <3>1
    <3> HIDE DEF c
    <3> QED
      BY <1>4, <1>7, <3>2 DEF IsDesc, GoodDesc
  <2>2. CASE ~(desc[n].whole /\ k <= Len(b) + 1)
    <3>1. desc' = [desc EXCEPT ![n] = [desc[n] EXCEPT !.whole = FALSE, !.want = <<>>]]
      BY <1>2, <1>4, <2>2 DEF Spoiled
    <3> HIDE DEF c
    <3>2. /\ desc'[n].mode = desc[n].mode /\ desc'[n].file = desc[n].file
          /\ desc'[n].whole = FALSE /\ desc'[n].want = <<>>
          /\ \A m \in Fds \ {n} : desc'[m] = desc[m]
      BY <1>4, <3>1 DEF IsDesc
    <3> QED
      BY <1>4, <3>2, EmptyBlocks DEF GoodDesc
  <2> QED
    BY <2>1, <2>2
<1>11. \A m \in Fds : GoodDesc(desc'[m])
  BY <1>1, <1>10 DEF Shapes
<1>12. Mirrors(tab'[i], desc'[n])
  BY <1>1, <1>2, <1>8, <1>10 DEF Mirrors
<1>13. \A m \in Fds, j \in Slots :
         m # 0 /\ tab'[j].fd = m /\ desc'[m] # Closed => Mirrors(tab'[j], desc'[m])
  <2>1. \A j \in Slots : tab'[j].fd = tab[j].fd /\ (tab[j].fd = n => j = i)
    BY <1>1, <1>3, <1>8 DEF Numbers, OneSlot
  <2> QED
    BY <1>1, <1>3, <1>8, <1>10, <1>12, <2>1 DEF Buffers
<1>14. \A u \in Threads : OwnsSlot(u) => tab'[th[u].slot] = tab[th[u].slot]
  BY <1>1, <1>3, <1>5, <1>8, SlotsApart
<1>15. Moves(t) /\ GoodThread(th'[t])
       /\ Knows(th'[t], tab'[th'[t].slot], store[th'[t].file])
  <2>1. th[t] = Idle
    BY DEF Write
  <2> QED
    BY <1>1, <1>4, <2>1, IdleKnows DEF Moves
<1> QED
  BY <1>1, <1>9, <1>11, <1>13, <1>14, <1>15, StepFiles DEF Shapes

\* close hands what was written over to the thread.
LEMMA CloseFiles ==
  ASSUME FInv, NEW t \in Threads, NEW n \in Fds, Close(t, n)
  PROVE  Shapes' /\ Buffers'
<1> DEFINE i == SlotOf(n)
<1>1. IInv /\ Types /\ Numbers /\ Shapes /\ Buffers /\ n # 0 /\ desc[n] # Closed
      /\ th[t] = Idle /\ UNCHANGED <<tab, sess, store>> /\ desc' = [desc EXCEPT ![n] = Closed]
  BY DEF FInv, IInv, Close
<1>2. DOMAIN th = Threads /\ DOMAIN kern = Fds /\ DOMAIN desc = Fds
      /\ \A m \in Fds : desc'[m] = desc[m] \/ desc'[m] = Closed
  BY <1>1 DEF Types
<1>3. \A m \in Fds : GoodDesc(desc'[m])
  BY <1>1, <1>2, EmptyBlocks DEF Shapes, GoodDesc, Closed
<1>4. \A m \in Fds, j \in Slots :
        m # 0 /\ tab'[j].fd = m /\ desc'[m] # Closed => Mirrors(tab'[j], desc'[m])
  BY <1>1, <1>2, MirrorsSame
<1>5. CASE kern' = [kern EXCEPT ![n] = "free"] /\ UNCHANGED th
  <2>1. kern' \in [Fds -> Locals \cup {"stdin", "free", "null"}]
    BY <1>1, <1>2, <1>5 DEF Shapes
  <2>2. Moves(t)
    BY <1>2, <1>5 DEF Moves
  <2> QED
    BY <1>1, <1>3, <1>4, <1>5, <2>1, <2>2, IdleKnows, StepFiles DEF Shapes
<1>6. CASE /\ i # 0 /\ UNCHANGED kern
           /\ th' = [th EXCEPT ![t] =
              [Idle EXCEPT !.fd = n, !.slot = i, !.file = desc[n].file,
                 !.mode = desc[n].mode, !.want = desc[n].want, !.whole = desc[n].whole,
                 !.pc = IF tab[i].writable THEN "flush"
                        ELSE IF tab[i].handle # 0 THEN "release" ELSE "free"]]
  <2>1. i \in Slots /\ tab[i].fd = n
    BY <1>6, SlotOfFact
  <2>2. Mirrors(tab[i], desc[n]) /\ tab[i].file = desc[n].file /\ GoodDesc(desc[n])
    BY <1>1, <2>1 DEF Buffers, Numbers, StandsFor, Shapes
  <2> HIDE DEF i
  <2>3. /\ Moves(t) /\ th'[t].slot = i /\ th'[t].file = desc[n].file
        /\ th'[t].mode = desc[n].mode /\ th'[t].want = desc[n].want
        /\ th'[t].whole = desc[n].whole /\ th'[t].handle = 0 /\ th'[t].seed = FALSE
        /\ th'[t].pc = IF tab[i].writable THEN "flush"
                       ELSE IF tab[i].handle # 0 THEN "release" ELSE "free"
    BY <1>2, <1>6 DEF Moves, Idle
  <2>4. GoodThread(th'[t])
    <3>1. th'[t].pc \in Pcs /\ th'[t].handle <= MaxHandles
      BY <2>3, InterposeAssumption DEF Pcs
    <3> QED
      BY <2>2, <2>3, <3>1 DEF GoodThread, GoodDesc
  <2>5. CASE tab[i].writable
    <3>1. Knows(th'[t], tab[th'[t].slot], store[th'[t].file])
      BY <2>2, <2>3, <2>5 DEF Mirrors, Knows, Probed, Seeding, Closing
    <3> QED
      BY <1>1, <1>3, <1>4, <1>6, <2>3, <2>4, <3>1, StepFiles DEF Shapes
  <2>6. CASE ~tab[i].writable
    <3>1. Knows(th'[t], tab[th'[t].slot], store[th'[t].file])
      BY <2>2, <2>3, <2>6 DEF Mirrors, Knows, Probed, Seeding, Closing
    <3> QED
      BY <1>1, <1>3, <1>4, <1>6, <2>3, <2>4, <3>1, StepFiles DEF Shapes
  <2> QED
    BY <2>5, <2>6
<1> QED
  BY <1>5, <1>6 DEF Close

\* A thread, or a descriptor, that has the flushed file open to write no longer knows
\* what it holds.
LEMMA SpoiledKnows ==
  ASSUME NEW r, IsThread(r), GoodThread(r), NEW s, NEW f, NEW g, Knows(r, s, f),
         Writes(r.mode)
  PROVE  GoodThread(Spoiled(r)) /\ Knows(Spoiled(r), s, g)
<1>1. /\ Spoiled(r).pc = r.pc /\ Spoiled(r).file = r.file /\ Spoiled(r).mode = r.mode
      /\ Spoiled(r).handle = r.handle /\ Spoiled(r).seed = r.seed
      /\ Spoiled(r).whole = FALSE /\ Spoiled(r).want = <<>>
  BY DEF Spoiled, IsThread
<1>2. GoodThread(Spoiled(r))
  BY <1>1, EmptyBlocks DEF GoodThread
<1>3. Knows(Spoiled(r), s, g)
  BY <1>1 DEF Knows, Probed, Seeding, Closing
<1> QED
  BY <1>2, <1>3

\* What a thread that does not write knows holds whatever becomes of the file.
LEMMA ReaderKnows ==
  ASSUME NEW r, NEW s, NEW f, NEW g, Knows(r, s, f), ~Writes(r.mode)
  PROVE  Knows(r, s, g)
BY DEF Knows, Probed, Seeding, Closing, Writes

\* flush_write replaces the file by the buffer, and with it what others knew of the file.
LEMMA FlushFiles ==
  ASSUME FInv, NEW t \in Threads, Flush(t)
  PROVE  Shapes' /\ Buffers'
<1> DEFINE k == th[t].slot
           f == tab[k].file
           Spoil(r) == IF r.file = f /\ Writes(r.mode) THEN Spoiled(r) ELSE r
<1>1. IInv /\ Types /\ Numbers /\ Shapes /\ Buffers /\ th[t].pc = "flush"
      /\ UNCHANGED <<kern, tab, sess>>
  BY DEF FInv, IInv, Flush
<1>2. /\ IsThread(th[t]) /\ GoodThread(th[t]) /\ DOMAIN th = Threads /\ DOMAIN desc = Fds
      /\ Closing(th[t], tab[k], store[th[t].file])
  BY <1>1 DEF Types, Shapes, Buffers, Knows
<1>3. k \in Slots /\ tab[k].fd # 0
  BY <1>1, SlotsApart DEF OwnsSlot
<1>4. /\ f \in Paths /\ th[t].file = f /\ (th[t].whole => tab[k].wbuf = th[t].want)
      /\ GoodSlot(tab[k])
  BY <1>1, <1>2, <1>3 DEF Types, IsSlot, Shapes, Closing
<1>5. CASE th' = [th EXCEPT ![t] = Spoiled([@ EXCEPT !.pc = "free"])] /\ UNCHANGED <<store, desc>>
  <2>1. /\ Moves(t) /\ th'[t].pc = "free" /\ th'[t].whole = FALSE /\ th'[t].want = <<>>
        /\ th'[t].handle = th[t].handle /\ th'[t].file = f /\ th'[t].seed = th[t].seed
    BY <1>2, <1>4, <1>5 DEF Moves, IsThread, Spoiled
  <2>2. GoodThread(th'[t])
    BY <1>2, <1>4, <2>1, EmptyBlocks DEF GoodThread, Pcs
  <2>3. Knows(th'[t], tab[th'[t].slot], store[th'[t].file])
    BY <2>1 DEF Knows, Probed, Seeding, Closing
  <2> QED
    BY <1>1, <1>5, <2>1, <2>2, <2>3, StepAlone DEF Shapes
<1>6. CASE /\ store' = [store EXCEPT ![f] = tab[k].wbuf]
           /\ th' = [u \in Threads |-> IF u = t THEN [th[t] EXCEPT !.pc = "free"]
                                       ELSE Spoil(th[u])]
           /\ desc' = [n \in Fds |-> Spoil(desc[n])]
  <2>1. /\ DOMAIN store' = Paths /\ store'[f] = tab[k].wbuf
        /\ \A p \in Paths \ {f} : store'[p] = store[p]
        /\ \A p : p # f => store'[p] = store[p]
    BY <1>1, <1>4, <1>6 DEF Shapes
  <2>2. \A p \in Paths : GoodFile(store'[p])
    BY <1>1, <1>4, <2>1 DEF Shapes, GoodFile, GoodSlot
  <2>3. GoodThread(th'[t]) /\ Knows(th'[t], tab'[th'[t].slot], store'[th'[t].file])
    <3>1. /\ th'[t].pc = "free" /\ th'[t].whole = th[t].whole /\ th'[t].want = th[t].want
          /\ th'[t].handle = th[t].handle /\ th'[t].file = f /\ th'[t].seed = th[t].seed
      BY <1>2, <1>4, <1>6 DEF IsThread
    <3>2. GoodThread(th'[t])
      BY <1>2, <1>4, <3>1 DEF GoodThread, Pcs
    <3> QED
      BY <1>4, <2>1, <3>1, <3>2 DEF Knows, Probed, Seeding, Closing
  <2>4. ASSUME NEW u \in Threads \ {t}
        PROVE  GoodThread(th'[u]) /\ Knows(th'[u], tab'[th'[u].slot], store'[th'[u].file])
    <3>1. /\ IsThread(th[u]) /\ GoodThread(th[u]) /\ th'[u] = Spoil(th[u])
          /\ Knows(th[u], tab[th[u].slot], store[th[u].file])
      BY <1>1, <1>6 DEF Types, Shapes, Buffers
    <3>2. CASE th[u].file = f /\ Writes(th[u].mode)
      <4>1. th'[u] = Spoiled(th[u])
        BY <3>1, <3>2
      <4>2. th'[u].slot = th[u].slot
        BY <3>1, <4>1 DEF Spoiled, IsThread
      <4> QED
        BY <1>1, <3>1, <3>2, <4>1, <4>2, SpoiledKnows
    <3>3. CASE th[u].file = f /\ ~Writes(th[u].mode)
      BY <1>1, <3>1, <3>3, ReaderKnows
    <3>4. CASE th[u].file # f
      BY <1>1, <2>1, <3>1, <3>4
    <3> QED
      BY <3>2, <3>3, <3>4
  <2>5. \A n \in Fds : /\ GoodDesc(desc'[n]) /\ desc'[n].mode = desc[n].mode
                       /\ desc'[n] = desc[n] \/ desc'[n].whole = FALSE
                       /\ desc'[n] # Closed => desc[n] # Closed
    <3>1. SUFFICES ASSUME NEW n \in Fds
                   PROVE  /\ GoodDesc(desc'[n]) /\ desc'[n].mode = desc[n].mode
                          /\ desc'[n] = desc[n] \/ desc'[n].whole = FALSE
                          /\ desc'[n] # Closed => desc[n] # Closed
      OBVIOUS
    <3>2. IsDesc(desc[n]) /\ GoodDesc(desc[n]) /\ desc'[n] = Spoil(desc[n])
      BY <1>1, <1>6 DEF Types, Shapes
    <3>3. CASE desc[n].file = f /\ Writes(desc[n].mode)
      <4>1. /\ desc'[n].whole = FALSE /\ desc'[n].want = <<>>
            /\ desc'[n].mode = desc[n].mode /\ desc'[n].file = desc[n].file
        BY <3>2, <3>3 DEF Spoiled, IsDesc
      <4> QED
        BY <3>2, <3>3, <4>1, EmptyBlocks, ClosedMode DEF GoodDesc
    <3>4. CASE ~(desc[n].file = f /\ Writes(desc[n].mode))
      BY <3>2, <3>4
    <3> QED
      BY <3>3, <3>4
  <2>6. \A n \in Fds, i \in Slots :
          n # 0 /\ tab'[i].fd = n /\ desc'[n] # Closed => Mirrors(tab'[i], desc'[n])
    BY <1>1, <2>5 DEF Buffers, Mirrors
  <2>7. \A u \in Threads :
          GoodThread(th'[u]) /\ Knows(th'[u], tab'[th'[u].slot], store'[th'[u].file])
    BY <2>3, <2>4
  <2>8. Shapes'
    BY <1>1, <2>1, <2>2, <2>5, <2>7 DEF Shapes
  <2> QED
    BY <2>6, <2>7, <2>8 DEF Buffers
<1> QED
  BY <1>5, <1>6 DEF Flush

\* The release of the handle of a descriptor to read.
LEMMA ReleaseHandleFiles ==
  ASSUME FInv, NEW t \in Threads, ReleaseHandle(t)
  PROVE  Shapes' /\ Buffers'
<1>1. Types /\ Shapes /\ Buffers /\ th[t].pc = "release"
      /\ UNCHANGED <<kern, tab, desc, store>> /\ Release(tab[th[t].slot].handle)
  BY DEF FInv, IInv, ReleaseHandle
<1>2. IsThread(th[t]) /\ GoodThread(th[t]) /\ DOMAIN th = Threads /\ ~Writes(th[t].mode)
  BY <1>1 DEF Types, Shapes, Buffers, Knows, Closing
<1>3. Moves(t) /\ GoodThread(th'[t]) /\ th'[t].pc = "free" /\ th'[t].mode = th[t].mode
  BY <1>2 DEF ReleaseHandle, Goto, Moves, IsThread, GoodThread, Pcs
<1>4. Knows(th'[t], tab[th'[t].slot], store[th'[t].file])
  BY <1>2, <1>3 DEF Knows, Probed, Seeding, Closing
<1> QED
  BY <1>1, <1>3, <1>4, ReleaseFiles, StepAlone

\* The end of close gives back the slot, then the number.
LEMMA EndCloseFiles ==
  ASSUME FInv, NEW t \in Threads, EndClose(t)
  PROVE  Shapes' /\ Buffers'
<1> DEFINE k == th[t].slot
           n == th[t].fd
<1>1. IInv /\ Types /\ Numbers /\ Shapes /\ Buffers /\ UNCHANGED <<desc, sess, store>>
  BY DEF FInv, IInv, EndClose
<1>2. /\ IsThread(th[t]) /\ GoodThread(th[t]) /\ DOMAIN th = Threads /\ DOMAIN tab = Slots
      /\ DOMAIN kern = Fds /\ Knows(th[t], tab[k], store[th[t].file])
  BY <1>1 DEF Types, Shapes, Buffers
<1>3. CASE /\ th[t].pc = "free" /\ tab' = [tab EXCEPT ![k] = Zeroed]
           /\ Goto(t, "real") /\ UNCHANGED kern
  <2>1. OwnsSlot(t)
    BY <1>3 DEF OwnsSlot
  <2>2. k \in Slots /\ \A u \in Threads \ {t} : OwnsSlot(u) => th[u].slot # k
    BY <1>1, <2>1, SlotsApart
  <2>3. tab'[k] = Zeroed /\ \A i \in Slots \ {k} : tab'[i] = tab[i]
    BY <1>2, <1>3, <2>2
  <2>4. GoodSlot(Zeroed) /\ Zeroed.fd = 0
    BY EmptyBlocks, InterposeAssumption DEF GoodSlot, Zeroed
  <2>5. \A i \in Slots : GoodSlot(tab'[i])
    BY <1>1, <2>3, <2>4 DEF Shapes
  <2>6. \A u \in Threads \ {t} : OwnsSlot(u) => tab'[th[u].slot] = tab[th[u].slot]
    BY <1>1, <2>2, <2>3, SlotsApart
  <2>7. /\ Moves(t) /\ GoodThread(th'[t]) /\ th'[t].pc = "real" /\ th'[t].mode = th[t].mode
        /\ th'[t].file = th[t].file /\ th'[t].whole = th[t].whole /\ th'[t].want = th[t].want
    BY <1>2, <1>3 DEF Goto, Moves, IsThread, GoodThread, Pcs
  <2>8. Knows(th'[t], tab'[th'[t].slot], store[th'[t].file])
    BY <1>2, <1>3, <2>7 DEF Knows, Probed, Seeding, Closing
  <2>9. \A m \in Fds, i \in Slots :
          m # 0 /\ tab'[i].fd = m /\ desc'[m] # Closed => Mirrors(tab'[i], desc'[m])
    BY <1>1, <2>3, <2>4, MirrorsSame
  <2> QED
    BY <1>1, <1>3, <2>5, <2>6, <2>7, <2>8, <2>9, StepFiles DEF Shapes
<1>4. CASE th[t].pc = "real" /\ kern' = [kern EXCEPT ![n] = "free"] /\ Fail(t) /\ UNCHANGED tab
  <2>1. Moves(t) /\ th'[t] = Idle
    BY <1>1, <1>4, FailEffect
  <2>2. kern' \in [Fds -> Locals \cup {"stdin", "free", "null"}]
    BY <1>1, <1>2, <1>4 DEF Shapes
  <2>3. \A m \in Fds, i \in Slots :
          m # 0 /\ tab'[i].fd = m /\ desc'[m] # Closed => Mirrors(tab'[i], desc'[m])
    BY <1>1, <1>4, MirrorsSame
  <2> QED
    BY <1>1, <1>4, <2>1, <2>2, <2>3, IdleKnows, StepFiles DEF Shapes
<1> QED
  BY <1>3, <1>4 DEF EndClose, Vacate

----------------------------------------------------------------------------
(* The theorems.                                                           *)

\* Nothing is written at the start ...
LEMMA InitFiles == Init => Shapes /\ Buffers
<1> SUFFICES ASSUME Init PROVE Shapes /\ Buffers
  OBVIOUS
<1>1. /\ kern \in [Fds -> Locals \cup {"stdin", "free", "null"}]
      /\ \A i \in Slots : tab[i] = Zeroed
      /\ \A t \in Threads : th[t] = Idle
      /\ sess.next = 1 /\ sess.open = [h \in {} |-> None]
  BY DEF Init
<1>2. GoodSlot(Zeroed) /\ Zeroed.fd = 0
  BY EmptyBlocks, InterposeAssumption DEF GoodSlot, Zeroed
<1>3. \A n \in Fds : GoodDesc(desc[n])
  <2>1. GoodDesc(Closed) /\ GoodDesc([Closed EXCEPT !.file = "stdin", !.mode = "local"])
    BY EmptyBlocks DEF GoodDesc, Closed, Kinds
  <2> QED
    BY <2>1 DEF Init
<1>4. DOMAIN store = Paths /\ \A p \in Paths : GoodFile(store[p])
  <2>1. store \in [Paths -> {Absent, <<"old">>}]
    BY DEF Init
  <2>2. <<"old">> \in Blocks /\ Len(<<"old">>) <= MaxLen
    BY InterposeAssumption DEF Blocks
  <2> QED
    BY <2>1, <2>2 DEF GoodFile
<1>5. sess.open \in [DOMAIN sess.open -> Paths] /\ sess.next <= MaxHandles + 1
  BY <1>1, InterposeAssumption
<1>6. Shapes
  BY <1>1, <1>2, <1>3, <1>4, <1>5, IdleKnows DEF Shapes
<1>7. Buffers
  BY <1>1, <1>2, IdleKnows DEF Buffers
<1> QED
  BY <1>6, <1>7

\* ... and every step keeps what is known of the buffers.
LEMMA StepFInv == FInv /\ [Next]_vars => FInv'
<1> SUFFICES ASSUME FInv, [Next]_vars PROVE FInv'
  OBVIOUS
<1>1. IInv'
  BY StepInv DEF FInv
<1>2. CASE UNCHANGED vars
  BY <1>1, <1>2 DEF vars, FInv, Shapes, Buffers
<1>3. ASSUME NEW t \in Threads, NEW l \in Locals, OpenLocal(t, l) PROVE FInv'
  BY <1>1, <1>3, OpenLocalFiles DEF FInv
<1>4. ASSUME NEW t \in Threads, NEW p \in Paths, NEW m \in Modes, Open(t, p, m) PROVE FInv'
  BY <1>1, <1>4, OpenFiles DEF FInv
<1>5. ASSUME NEW t \in Threads, NEW n \in Fds, Close(t, n) PROVE FInv'
  BY <1>1, <1>5, CloseFiles DEF FInv
<1>6. ASSUME NEW t \in Threads, NEW n \in Fds, NEW o \in 0..MaxLen, Write(t, n, o) PROVE FInv'
  BY <1>1, <1>6, WriteFiles DEF FInv
<1>7. ASSUME NEW t \in Threads, OpenStep(t) PROVE FInv'
  BY <1>1, <1>7, StatFiles, ReadDirFiles, OpenHandleFiles, PlaceholderFiles, ClaimFiles,
     SeedOpenFiles, SeedFiles, SeedCloseFiles DEF OpenStep, FInv
<1>8. ASSUME NEW t \in Threads, CloseStep(t) PROVE FInv'
  BY <1>1, <1>8, FlushFiles, ReleaseHandleFiles, EndCloseFiles DEF CloseStep, FInv
<1> QED
  BY <1>2, <1>3, <1>4, <1>5, <1>6, <1>7, <1>8 DEF Next

\* So it always is.
LEMMA FInvHolds == Spec => []FInv
<1>1. Init => FInv
  BY InitInv, InitFiles DEF FInv
<1> QED
  BY <1>1, StepFInv, PTL DEF Spec

\* A file that nobody else wrote, whose every call was answered, holds when it is closed
\* what was not truncated of it and then what the program wrote, whatever other threads
\* open, write and close meanwhile (rpc_open's seed, my_write, my_pwrite, flush_write).
THEOREM WrittenBackHolds == Spec => []WrittenBack
<1>1. FInv => WrittenBack
  BY DEF FInv, Buffers, Knows, Closing, WrittenBack, Written
<1> QED
  BY FInvHolds, <1>1, PTL

\* Every variable has its type, and no buffer outgrows the files that programs write.
THEOREM TypesHold == Spec => []TypeOK
<1>1. FInv => TypeOK
  <2> SUFFICES ASSUME FInv PROVE TypeOK
    OBVIOUS
  <2>1. Types /\ Shapes /\ MaxHandles \in Nat
    BY InterposeAssumption DEF FInv, IInv
  <2>2. kern \in [Fds -> Locals \cup {"stdin", "free", "null"}]
    BY <2>1 DEF Types, Shapes
  <2>3. \A i \in Slots :
          /\ tab[i].fd \in Fds /\ tab[i].file \in Paths \cup {None}
          /\ tab[i].handle \in 0..MaxHandles /\ tab[i].writable \in BOOLEAN
          /\ tab[i].wbuf \in Blocks /\ Len(tab[i].wbuf) <= MaxLen
    BY <2>1 DEF Types, IsSlot, Shapes, GoodSlot
  <2>4. /\ DOMAIN sess.open \subseteq 1..MaxHandles /\ sess.next \in 1..MaxHandles + 1
        /\ dropped \subseteq 1..MaxHandles
    BY <2>1 DEF Types, Shapes
  <2>5. \A t \in Threads : th[t].pc \in Pcs /\ th[t].fd \in Fds /\ th[t].slot \in Slots \cup {0}
    BY <2>1 DEF Types, IsThread, Shapes, GoodThread
  <2>6. /\ \A n \in Fds : desc[n].file \in Kinds \cup {None} /\ desc[n].want \in Blocks
        /\ sess.open \in [DOMAIN sess.open -> Paths]
        /\ \A p \in Paths : store[p] = Absent \/ store[p] \in Blocks
    BY <2>1 DEF Shapes, GoodDesc, GoodFile
  <2> QED
    BY <2>2, <2>3, <2>4, <2>5, <2>6, Zenon DEF TypeOK, Pcs
<1> QED
  BY FInvHolds, <1>1, PTL
=============================================================================

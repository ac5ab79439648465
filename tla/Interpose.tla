----------------------------- MODULE Interpose -----------------------------
(***************************************************************************)
(* The descriptor table of the macOS dylib.  A routed open takes a number  *)
(* from the kernel (a placeholder on /dev/null) and a slot of the table;   *)
(* a file opened for writing is read whole into a buffer and written back  *)
(* whole when it is closed; any other call on the number is answered from  *)
(* the slot.  Several threads of the process open and close at once.       *)
(*                                                                         *)
(* The adapter is seen through rpc_call only: each call is performed or    *)
(* fails.  What happens to it on the way, and when the connection breaks,  *)
(* is FsRelay's.  Programs use a descriptor between the return of its open *)
(* and the call of its close, and keep standard input open.                *)
(***************************************************************************)
EXTENDS Integers, Sequences, FiniteSets, FiniteSetsExt

CONSTANTS
  Threads,
  Paths,      \* routed paths
  Dirs,       \* those that are directories
  Locals,     \* files that are not routed
  Modes,      \* how programs open: "read", or "append" and "trunc" to write
  MaxSlots,   \* entries of the table: MAXF
  MaxFd,      \* the largest descriptor the kernel gives out
  MaxLen,     \* blocks a program writes a file up to
  MaxHandles, \* handles the adapter issues (bounds the opens)
  None        \* no file, no mode

ASSUME InterposeAssumption ==
  /\ Dirs \subseteq Paths /\ Paths \cap Locals = {}
  /\ Modes \subseteq {"read", "append", "trunc"}
  /\ None \notin Paths \cup Locals \cup {"append", "trunc"}
  /\ Locals \cap {"stdin", "free", "null"} = {}
  /\ MaxSlots \in Nat \ {0} /\ MaxFd \in Nat \ {0}
  /\ MaxLen \in Nat \ {0} /\ MaxHandles \in Nat

VARIABLES
  kern,   \* the kernel's descriptors: what each number really is
  tab,    \* the table
  th,     \* where each thread is in the dylib
  desc,   \* what each number stands for to the program, and what it wrote
  sess,   \* the adapter's handles of this process, as FsRelay resolves them
  store,  \* the routed files: a sequence of blocks, or Absent
  dropped \* handles whose open failed after the adapter had issued them

vars == <<kern, tab, th, desc, sess, store, dropped>>

Fds   == 0..MaxFd
Slots == 1..MaxSlots
Writes(mode) == mode \in {"append", "trunc"}

Absent  == <<"absent">>
Content(p) == IF store[p] = Absent THEN <<>> ELSE store[p]

Zeroed == [fd |-> 0, file |-> None, handle |-> 0, writable |-> FALSE, wbuf |-> <<>>]
Idle   == [pc |-> "idle", file |-> None, mode |-> None, fd |-> 0, slot |-> 0,
           handle |-> 0, seed |-> FALSE, whole |-> TRUE, want |-> <<>>]
Closed == [file |-> None, mode |-> None, want |-> <<>>, whole |-> TRUE]

Init ==
  /\ kern = [n \in Fds |-> IF n = 0 THEN "stdin" ELSE "free"]
  /\ tab = [i \in Slots |-> Zeroed]
  /\ th = [t \in Threads |-> Idle]
  /\ desc = [n \in Fds |-> IF n = 0 THEN [Closed EXCEPT !.file = "stdin", !.mode = "local"]
                                     ELSE Closed]
  /\ sess = [open |-> [h \in {} |-> None], next |-> 1]
  /\ store \in {s \in [Paths -> {Absent, <<"old">>}] : \A p \in Dirs : s[p] # Absent}
  /\ dropped = {}

----------------------------------------------------------------------------
(* The parts of a handler.                                                 *)

FreeFds == {n \in Fds : kern[n] = "free"}

SlotOf(n) == IF n > 0 /\ \E i \in Slots : tab[i].fd = n
               THEN Min({i \in Slots : tab[i].fd = n}) ELSE 0

\* What a call on number n reaches: the file of its slot, or the kernel's.
Reaches(n) == IF SlotOf(n) # 0 THEN tab[SlotOf(n)].file ELSE kern[n]

Goto(t, pc) == th' = [th EXCEPT ![t].pc = pc]
Fail(t)     == th' = [th EXCEPT ![t] = Idle]

\* An open succeeds: its number stands for the file, and the program may add to
\* what an untruncated file holds.
Return(t, whole) ==
  /\ desc' = [desc EXCEPT ![th[t].fd] =
       [file |-> th[t].file, mode |-> th[t].mode, whole |-> whole,
        want |-> IF whole /\ th[t].mode = "append" THEN Content(th[t].file) ELSE <<>>]]
  /\ Fail(t)

\* OP_OPEN and OP_CLOSE.
Issue(p)     == sess' = [open |-> [h \in DOMAIN sess.open \cup {sess.next} |->
                                     IF h = sess.next THEN p ELSE sess.open[h]],
                         next |-> sess.next + 1]
Release(h)   == sess' = [sess EXCEPT !.open = [x \in DOMAIN @ \ {h} |-> @[x]]]

----------------------------------------------------------------------------
(* open: rpc_open.                                                         *)

OpenLocal(t, f) ==
  /\ th[t] = Idle /\ FreeFds # {}
  /\ kern' = [kern EXCEPT ![Min(FreeFds)] = f]
  /\ desc' = [desc EXCEPT ![Min(FreeFds)] = [Closed EXCEPT !.file = f, !.mode = "local"]]
  /\ UNCHANGED <<tab, th, sess, store, dropped>>

Open(t, p, mode) ==
  /\ th[t] = Idle
  /\ th' = [th EXCEPT ![t] = [Idle EXCEPT !.pc = "stat", !.file = p, !.mode = mode]]
  /\ UNCHANGED <<kern, tab, desc, sess, store, dropped>>

\* The probe: when it fails the file counts as nonexistent.
Stat(t) ==
  /\ th[t].pc = "stat"
  /\ \E ok \in BOOLEAN :
       LET have == ok /\ store[th[t].file] # Absent IN
       \/ /\ have /\ th[t].file \in Dirs
          /\ th' = [th EXCEPT ![t].pc = "readdir", ![t].mode = "read"]
       \/ have /\ th[t].file \notin Dirs /\ th[t].mode = "read" /\ Goto(t, "open")
       \/ ~have /\ th[t].mode = "read" /\ Fail(t)
       \/ /\ ~(have /\ th[t].file \in Dirs) /\ Writes(th[t].mode)
          /\ th' = [th EXCEPT ![t].pc = "null", ![t].whole = ok /\ @,
                              ![t].seed = have /\ th[t].mode # "trunc"]
  /\ UNCHANGED <<kern, tab, desc, sess, store, dropped>>

ReadDir(t) ==
  /\ th[t].pc = "readdir"
  /\ Goto(t, "null") \/ Fail(t)
  /\ UNCHANGED <<kern, tab, desc, sess, store, dropped>>

OpenHandle(t) ==
  /\ th[t].pc = "open"
  /\ \/ /\ sess.next <= MaxHandles
        /\ Issue(th[t].file)
        /\ th' = [th EXCEPT ![t].pc = "null", ![t].handle = sess.next]
     \/ Fail(t) /\ UNCHANGED sess
  /\ UNCHANGED <<kern, tab, desc, store, dropped>>

\* The open fails with its handle issued; nobody closes it.
Abandon(t) ==
  /\ dropped' = dropped \cup ({th[t].handle} \ {0})
  /\ Fail(t)

\* newslot: the placeholder, then the slot.
Placeholder(t) ==
  /\ th[t].pc = "null"
  /\ \/ /\ FreeFds # {}
        /\ kern' = [kern EXCEPT ![Min(FreeFds)] = "null"]
        /\ th' = [th EXCEPT ![t].pc = "claim", ![t].fd = Min(FreeFds)]
        /\ UNCHANGED dropped
     \/ FreeFds = {} /\ Abandon(t) /\ UNCHANGED kern
  /\ UNCHANGED <<tab, desc, sess, store>>

FreeSlots == {i \in Slots : tab[i].fd = 0}

\* Mutant of NeedsSeed: an existing file is not read into the buffer.
NeverSeed(t) == FALSE
NeedsSeed(t) == th[t].seed

Claim(t) ==
  /\ th[t].pc = "claim"
  /\ \/ /\ FreeSlots # {}
        /\ tab' = [tab EXCEPT ![Min(FreeSlots)] =
             [Zeroed EXCEPT !.fd = th[t].fd, !.file = th[t].file, !.handle = th[t].handle,
                            !.writable = Writes(th[t].mode)]]
        /\ IF NeedsSeed(t)
             THEN th' = [th EXCEPT ![t].pc = "seedopen", ![t].slot = Min(FreeSlots)]
                  /\ UNCHANGED desc
             ELSE Return(t, th[t].whole)
        /\ UNCHANGED <<kern, dropped>>
     \/ /\ FreeSlots = {}
        /\ kern' = [kern EXCEPT ![th[t].fd] = "free"]
        /\ Abandon(t)
        /\ UNCHANGED <<tab, desc>>
  /\ UNCHANGED <<sess, store>>

\* The buffer is filled slice by slice over a handle of its own; the open
\* succeeds whatever happens.
SeedOpen(t) ==
  /\ th[t].pc = "seedopen"
  /\ \/ /\ sess.next <= MaxHandles
        /\ Issue(th[t].file)
        /\ th' = [th EXCEPT ![t].pc = "seed", ![t].handle = sess.next]
        /\ UNCHANGED desc
     \/ Return(t, FALSE) /\ UNCHANGED sess
  /\ UNCHANGED <<kern, tab, store, dropped>>

Seed(t) ==
  LET s == Content(sess.open[th[t].handle])
      o == Len(tab[th[t].slot].wbuf) + 1
  IN /\ th[t].pc = "seed"
     /\ \/ /\ o <= Len(s)
           /\ tab' = [tab EXCEPT ![th[t].slot].wbuf = Append(@, s[o])]
           /\ UNCHANGED th
        \/ o > Len(s) /\ Goto(t, "seedclose") /\ UNCHANGED tab
        \/ /\ th' = [th EXCEPT ![t].pc = "seedclose", ![t].whole = FALSE]
           /\ UNCHANGED tab
     /\ UNCHANGED <<kern, desc, sess, store, dropped>>

\* Mutant of SeedClose: the handle is left open.
SeedKeeps(t) ==
  /\ th[t].pc = "seedclose"
  /\ Return(t, th[t].whole)
  /\ UNCHANGED <<kern, tab, sess, store, dropped>>

SeedClose(t) ==
  /\ th[t].pc = "seedclose"
  /\ Release(th[t].handle)
  /\ Return(t, th[t].whole)
  /\ UNCHANGED <<kern, tab, store, dropped>>

----------------------------------------------------------------------------
(* write, pwrite and close.                                                *)

\* Mutant of Overwrite: one block too many.
OverwriteLonger(s, k, v) == [j \in 1..Max({Len(s), k + 1}) |-> IF j = k THEN v
                               ELSE IF j <= Len(s) THEN s[j] ELSE "junk"]
Overwrite(s, k, v) == [j \in 1..Max({Len(s), k}) |-> IF j = k THEN v
                         ELSE IF j <= Len(s) THEN s[j] ELSE "junk"]

\* What a file should hold is no longer known.
Spoiled(r) == [r EXCEPT !.whole = FALSE, !.want = <<>>]

\* pwrite at block o, or write: at the end of the buffer.  A hole is filled with
\* whatever malloc left there.
Write(t, n, o) ==
  LET i == SlotOf(n)  b == tab[i].wbuf
      k == IF o = 0 THEN Len(b) + 1 ELSE o
  IN /\ th[t] = Idle /\ Writes(desc[n].mode)
     /\ i # 0 /\ tab[i].writable
     /\ k <= MaxLen
     /\ tab' = [tab EXCEPT ![i].wbuf = Overwrite(b, k, "new")]
     /\ desc' = IF desc[n].whole /\ k <= Len(b) + 1
                  THEN [desc EXCEPT ![n].want = Overwrite(@, k, "new")]
                  ELSE [desc EXCEPT ![n] = Spoiled(@)]
     /\ UNCHANGED <<kern, th, sess, store, dropped>>

\* do_close: the answers of the adapter are ignored, the result is the kernel's.
Close(t, n) ==
  LET i == SlotOf(n) IN
  /\ th[t] = Idle /\ n # 0 /\ desc[n] # Closed
  /\ desc' = [desc EXCEPT ![n] = Closed]
  /\ IF i = 0
       THEN kern' = [kern EXCEPT ![n] = "free"] /\ UNCHANGED th
       ELSE /\ th' = [th EXCEPT ![t] =
              [Idle EXCEPT !.fd = n, !.slot = i, !.file = desc[n].file,
                 !.mode = desc[n].mode, !.want = desc[n].want, !.whole = desc[n].whole,
                 !.pc = IF tab[i].writable THEN "flush"
                        ELSE IF tab[i].handle # 0 THEN "release" ELSE "free"]]
            /\ UNCHANGED kern
  /\ UNCHANGED <<tab, sess, store, dropped>>

\* flush_write.  Whoever has the same file open for writing no longer knows
\* what it holds.
Flush(t) ==
  LET f == tab[th[t].slot].file
      Spoil(r) == IF r.file = f /\ Writes(r.mode) THEN Spoiled(r) ELSE r
  IN /\ th[t].pc = "flush"
     /\ \/ /\ f \notin Dirs
           /\ store' = [store EXCEPT ![f] = tab[th[t].slot].wbuf]
           /\ th' = [u \in Threads |-> IF u = t THEN [th[t] EXCEPT !.pc = "free"]
                                       ELSE Spoil(th[u])]
           /\ desc' = [n \in Fds |-> Spoil(desc[n])]
        \/ th' = [th EXCEPT ![t] = Spoiled([@ EXCEPT !.pc = "free"])] /\ UNCHANGED <<store, desc>>
     /\ UNCHANGED <<kern, tab, sess, dropped>>

ReleaseHandle(t) ==
  /\ th[t].pc = "release"
  /\ Release(tab[th[t].slot].handle)
  /\ Goto(t, "free")
  /\ UNCHANGED <<kern, tab, desc, store, dropped>>

\* Mutant of Vacate: the number is given back to the kernel before the slot.
VacateLate(t) ==
  \/ /\ th[t].pc = "free"
     /\ kern' = [kern EXCEPT ![th[t].fd] = "free"]
     /\ Goto(t, "real") /\ UNCHANGED tab
  \/ /\ th[t].pc = "real"
     /\ tab' = [tab EXCEPT ![th[t].slot] = Zeroed]
     /\ Fail(t) /\ UNCHANGED kern

\* The slot is freed (a free slot is as good as zeroed), then the number.
Vacate(t) ==
  \/ /\ th[t].pc = "free"
     /\ tab' = [tab EXCEPT ![th[t].slot] = Zeroed]
     /\ Goto(t, "real") /\ UNCHANGED kern
  \/ /\ th[t].pc = "real"
     /\ kern' = [kern EXCEPT ![th[t].fd] = "free"]
     /\ Fail(t) /\ UNCHANGED tab

EndClose(t) == Vacate(t) /\ UNCHANGED <<desc, sess, store, dropped>>

----------------------------------------------------------------------------
OpenStep(t) ==
  \/ Stat(t) \/ ReadDir(t) \/ OpenHandle(t) \/ Placeholder(t) \/ Claim(t)
  \/ SeedOpen(t) \/ Seed(t) \/ SeedClose(t)
CloseStep(t) == Flush(t) \/ ReleaseHandle(t) \/ EndClose(t)

Next == \E t \in Threads :
  \/ \E f \in Locals : OpenLocal(t, f)
  \/ \E p \in Paths, m \in Modes : Open(t, p, m)
  \/ \E n \in Fds : Close(t, n) \/ \E o \in 0..MaxLen : Write(t, n, o)
  \/ OpenStep(t) \/ CloseStep(t)

Spec == Init /\ [][Next]_vars

----------------------------------------------------------------------------
(* Properties.                                                             *)

Kinds  == Paths \cup Locals \cup {"stdin"}
Blocks == Seq({"old", "new", "junk"})

\* Types of every variable; buffers never outgrow the files they stand for.
TypeOK ==
  /\ kern \in [Fds -> Locals \cup {"stdin", "free", "null"}]
  /\ \A i \in Slots :
       /\ tab[i].fd \in Fds /\ tab[i].file \in Paths \cup {None}
       /\ tab[i].handle \in 0..MaxHandles /\ tab[i].writable \in BOOLEAN
       /\ tab[i].wbuf \in Blocks /\ Len(tab[i].wbuf) <= MaxLen
  /\ \A t \in Threads :
       /\ th[t].pc \in {"idle", "stat", "readdir", "open", "null", "claim", "seedopen",
                        "seed", "seedclose", "flush", "release", "free", "real"}
       /\ th[t].fd \in Fds /\ th[t].slot \in Slots \cup {0}
  /\ \A n \in Fds : desc[n].file \in Kinds \cup {None} /\ desc[n].want \in Blocks
  /\ sess.open \in [DOMAIN sess.open -> Paths] /\ DOMAIN sess.open \subseteq 1..MaxHandles
  /\ sess.next \in 1..MaxHandles + 1
  /\ \A p \in Paths : store[p] = Absent \/ store[p] \in Blocks
  /\ dropped \subseteq 1..MaxHandles

\* A number the program holds reaches the file it opened, on the right host, by a
\* handle of that file, whatever other threads open and close: no slot answers
\* for a number that the kernel has given out again, nor for standard input
\* (slot, newslot, and the order of the last two steps of do_close).
NumbersGoHome ==
  \A n \in Fds : desc[n] # Closed =>
    /\ Reaches(n) = desc[n].file
    /\ LET h == tab[SlotOf(n)].handle IN
         SlotOf(n) # 0 /\ h # 0 => h \in DOMAIN sess.open /\ sess.open[h] = desc[n].file

\* Handles some slot or some thread will close.
Held ==
  {tab[i].handle : i \in {j \in Slots : tab[j].fd # 0
     /\ \A t \in Threads : th[t].slot = j => th[t].pc # "free"}}
  \cup {th[t].handle : t \in {u \in Threads : th[u].pc \in {"null", "claim", "seed", "seedclose"}}}

\* The adapter holds open, for this process, exactly what its slots and its calls
\* in progress still know of, plus what failed opens have dropped.
HandlesOwned == DOMAIN sess.open = (Held \cup dropped) \ {0}

\* Closing, after the write-back.
Written(t) == th[t].pc \in {"free", "real"} /\ Writes(th[t].mode)

\* If every call since its open was answered and nobody else wrote the file, a
\* closed file holds what was not truncated of it and then the program's writes
\* (rpc_open's seed, my_write, my_pwrite, flush_write).
WrittenBack == \A t \in Threads : Written(t) /\ th[t].whole => store[th[t].file] = th[t].want
=============================================================================

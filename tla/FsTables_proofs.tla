-------------------------- MODULE FsTables_proofs ---------------------------
(***************************************************************************)
(* Proofs about FsRelay: what the two handle tables of a session and the   *)
(* process at its other end hold of each other, and that the session       *)
(* implements HandleService.  For any files, routing and connections.      *)
(***************************************************************************)
EXTENDS FsRelay_proofs

----------------------------------------------------------------------------
(* The inductive invariant, on top of IInv.                                *)

\* An answered open on its way to the process, or on its way to the session.
Opened(c)   == rsp[c] # None /\ rsp[c].ok /\ rsp[c].req.op = "open"
RelayedOpen(c) == xrsp[c] # None /\ xrsp[c].ok /\ xrsp[c].req.op = "open"

\* Until its session ends, every open file is behind a handle.  A stream that was
\* never dialed has none.
TidyOn(c) ==
  pc[c] # "ended" =>
    /\ DOMAIN lfs[c].open = Reals(c, FALSE)
    /\ strm[c] # "cut" => DOMAIN xfs[c].open = Reals(c, TRUE) \cup InTransit(c)
    /\ strm[c] = "none" => DOMAIN xfs[c].open = {}
    /\ pc[c] = "none" => DOMAIN handles[c] = {} /\ strm[c] = "none"

\* No two handles stand for one open file, and none for one in transit.
ApartOn(c) ==
  pc[c] # "ended" =>
    /\ \A g, h \in DOMAIN handles[c] : handles[c][g] = handles[c][h] => g = h
    /\ pc[c] \in {"rpc", "wait"} /\ job[c].op = "close" => job[c].h \notin Reals(c, TRUE)
    /\ RelayedOpen(c) => xrsp[c].h \notin Reals(c, TRUE)

\* Each host has opened what is routed to it.
SidesOn(c) ==
  /\ \A r \in DOMAIN lfs[c].open : lfs[c].open[r] \notin RemoteFiles
  /\ \A r \in DOMAIN xfs[c].open : xfs[c].open[r] \in RemoteFiles
  /\ pc[c] \in {"rpc", "wait"} /\ job[c].op = "open" => job[c].file \in RemoteFiles

Tables == \A c \in Conns : TidyOn(c) /\ ApartOn(c) /\ SidesOn(c)

\* A handle of the connection in use is a file's that the process has open, or is
\* about to be; a close that was taken up has taken its handle away.
OwnedOn(c) ==
  conn = c /\ pc[c] # "ended" =>
    /\ \A h \in DOMAIN handles[c] :
         \/ \E f \in Files : fd[f].st = "open" /\ fd[f].via = c /\ fd[f].h = h
         \/ Opened(c) /\ rsp[c].h = h
    /\ call # None /\ call.m.op = "close" /\ (pc[c] \in {"rpc", "wait"} \/ rsp[c] # None) =>
         call.m.h \notin DOMAIN handles[c]

\* What is called for has the state to be called for.
CallsFit ==
  call # None =>
    /\ call.m.op = "open" => fd[call.m.file].st = "fresh"
    /\ ByHandle(call.m) => fd[call.m.file].st = "open"

ViasFit ==
  \A f \in Files :
    /\ fd[f].st = "fresh" => fd[f].via = None
    /\ fd[f].st = "open" => fd[f].via # None
    /\ \A c \in Conns : fd[f].via = c => pc[c] # "none"

\* A handle is given to one file.
NumbersDiffer ==
  /\ \A f, g \in Files : f # g /\ fd[f].via # None /\ fd[f].via = fd[g].via => fd[f].h # fd[g].h
  /\ \A c \in Conns, f \in Files :
       conn = c /\ Opened(c) /\ fd[f].via = c => fd[f].h # rsp[c].h

Closing(f) == call # None /\ call.sent /\ call.m.op = "close" /\ call.m.file = f

HasHandle(c, h, f) == h \in DOMAIN handles[c] /\ (handles[c][h].remote <=> f \in RemoteFiles)

\* What the process has open is in the table, as long as it uses one connection.
StillThereOn(c) ==
  conn = c /\ pc[c] # "ended" =>
    /\ Opened(c) => HasHandle(c, rsp[c].h, rsp[c].req.file)
    /\ OnlyConnection(c) => \A f \in Files :
         fd[f].st = "open" /\ fd[f].via = c /\ ~Closing(f) => HasHandle(c, fd[f].h, f)

Owners ==
  /\ CallsFit /\ ViasFit /\ NumbersDiffer
  /\ \A c \in Conns : OwnedOn(c) /\ StillThereOn(c)

----------------------------------------------------------------------------
(* What a request does to the tables, file by file.                        *)

\* A service with one more open file, and one with one less.
SvcOpens(s, t, f) ==
  /\ DOMAIN t.open = DOMAIN s.open \cup {s.next} /\ t.open[s.next] = f
  /\ \A r \in DOMAIN s.open : r # s.next => t.open[r] = s.open[r]
SvcCloses(s, t, h) ==
  /\ DOMAIN t.open = DOMAIN s.open \ {h}
  /\ \A r \in DOMAIN t.open : t.open[r] = s.open[r]

\* A served open adds a file under the next number, a served close takes one away,
\* nothing else changes what is open.
LEMMA ServedTable ==
  ASSUME NEW s, IsService(s), NEW m \in Request, NEW o \in Handle(s, m)
  PROVE  /\ m.op = "open" /\ o.resp.ok => o.resp.h = s.next /\ SvcOpens(s, o.fs, m.file)
         /\ m.op = "close" => SvcCloses(s, o.fs, m.h)
         /\ ~(m.op = "open" /\ o.resp.ok) /\ m.op # "close" => o.fs.open = s.open
<1>s. s = [open |-> s.open, next |-> s.next] /\ IsTable(s.open, Files) /\ s.next \in Nat
  BY DEF IsService
<1>m. m.op \in Ops /\ m.file \in Files /\ ~Fail(m).ok /\ Done(m, s.next, m.file).h = s.next
  BY DEF Request, Fail, Done
<1>1. CASE m.op = "open"
  <2>1. o \in OpenFile(s, m)
    BY <1>1 DEF Handle
  <2>2. CASE o = [fs |-> s, resp |-> Fail(m)]
    BY <2>2, <1>1, <1>m
  <2>3. CASE o = [fs |-> [open |-> Put(s.open, s.next, m.file), next |-> s.next + 1],
                  resp |-> Done(m, s.next, m.file)]
    <3>1. o.fs.open = Put(s.open, s.next, m.file) /\ o.resp = Done(m, s.next, m.file)
      BY <2>3
    <3>p. /\ DOMAIN Put(s.open, s.next, m.file) = DOMAIN s.open \cup {s.next}
          /\ Put(s.open, s.next, m.file)[s.next] = m.file
          /\ \A x \in DOMAIN s.open :
               x # s.next => Put(s.open, s.next, m.file)[x] = s.open[x]
      BY <1>s, <1>m DEF IsTable, Put
    <3>2. SvcOpens(s, o.fs, m.file)
      BY <3>1, <3>p DEF SvcOpens
    <3>3. o.resp.h = s.next /\ o.resp.ok
      BY <3>1, <1>m DEF Done
    <3> QED
      BY <3>2, <3>3, <1>1, Zenon
  <2> QED
    BY <2>1, <2>2, <2>3 DEF OpenFile
<1>2. CASE m.op = "close"
  <2>1. o \in CloseFile(s, m)
    BY <1>2 DEF Handle
  <2>2. CASE m.h \in DOMAIN s.open
    <3>1. o.fs = [s EXCEPT !.open = Drop(s.open, m.h)]
      BY <2>1, <2>2 DEF CloseFile
    <3>2. o.fs.open = Drop(s.open, m.h)
      BY <3>1, <1>s
    <3>3. /\ DOMAIN Drop(s.open, m.h) = DOMAIN s.open \ {m.h}
          /\ \A x \in DOMAIN Drop(s.open, m.h) : Drop(s.open, m.h)[x] = s.open[x]
      BY <1>s DEF IsTable, Drop, Restrict
    <3> QED
      BY <3>2, <3>3, <1>2 DEF SvcCloses
  <2>3. CASE m.h \notin DOMAIN s.open
    <3>1. o.fs = s
      BY <2>1, <2>3 DEF CloseFile
    <3> QED
      BY <3>1, <2>3, <1>2 DEF SvcCloses
  <2> QED
    BY <2>2, <2>3
<1>3. CASE m.op = "io"
  BY <1>3 DEF Handle, UseFile
<1>4. CASE m.op = "path"
  BY <1>4 DEF Handle, UsePath
<1> QED
  BY <1>1, <1>2, <1>3, <1>4, <1>m DEF Ops

----------------------------------------------------------------------------
(* What a step does to a session: one of these, by connection.             *)

SameTables(c) ==
  handles'[c] = handles[c] /\ next'[c] = next[c] /\ lfs'[c].open = lfs[c].open
SameStream(c) == strm'[c] = strm[c] /\ xrsp'[c] = xrsp[c]

AddsHandle(c, ref) ==
  /\ DOMAIN handles'[c] = DOMAIN handles[c] \cup {next[c]} /\ handles'[c][next[c]] = ref
  /\ \A h \in DOMAIN handles[c] : h # next[c] => handles'[c][h] = handles[c][h]
  /\ next'[c] = next[c] + 1
DropsHandle(c, h) ==
  /\ DOMAIN handles'[c] = DOMAIN handles[c] \ {h} /\ next'[c] = next[c]
  /\ \A x \in DOMAIN handles'[c] : handles'[c][x] = handles[c][x]

\* The session ends.
EndsOn(c) ==
  /\ pc[c] \in {"read", "rpc", "wait"} /\ pc'[c] = "ended" /\ rsp'[c] = rsp[c]
  /\ strm[c] = "up" => strm'[c] = "cut"
  /\ DOMAIN lfs'[c].open = {}

\* An open or a close is served on the brain.
OpensHere(c) ==
  /\ pc[c] = "read" /\ pc'[c] = "read" /\ SameStream(c)
  /\ req[c] # None /\ req[c].op = "open" /\ req[c].file \notin RemoteFiles
  /\ AddsHandle(c, [remote |-> FALSE, real |-> lfs[c].next])
  /\ SvcOpens(lfs[c], lfs'[c], req[c].file)
  /\ rsp'[c] # None /\ rsp'[c].ok /\ rsp'[c].req = req[c] /\ rsp'[c].h = next[c]
ClosesHere(c) ==
  /\ pc[c] = "read" /\ pc'[c] = "read" /\ SameStream(c)
  /\ req[c] # None /\ req[c].op = "close" /\ req[c].h \in DOMAIN handles[c]
  /\ ~handles[c][req[c].h].remote
  /\ DropsHandle(c, req[c].h) /\ SvcCloses(lfs[c], lfs'[c], handles[c][req[c].h].real)
  /\ rsp'[c] # None /\ rsp'[c].req.op = "close"

\* Another request is answered at once.
AnswersHere(c) ==
  /\ pc[c] = "read" /\ pc'[c] = "read" /\ SameTables(c) /\ SameStream(c)
  /\ req[c] # None /\ (req[c].op = "close" => req[c].h \notin DOMAIN handles[c])
  /\ rsp'[c] # None /\ ~(rsp'[c].ok /\ rsp'[c].req.op = "open")

\* A request is taken up for the executor; a close has forgotten its handle.
TakesUp(c) ==
  /\ pc[c] = "read" /\ pc'[c] = "rpc" /\ SameTables(c) /\ SameStream(c)
  /\ rsp'[c] = rsp[c]
  /\ req[c] # None /\ job'[c].op = req[c].op /\ req[c].op # "close"
  /\ req[c].op = "open" => job'[c].file \in RemoteFiles
TakesUpClose(c) ==
  /\ pc[c] = "read" /\ pc'[c] = "rpc" /\ SameStream(c) /\ rsp'[c] = rsp[c]
  /\ lfs'[c] = lfs[c]
  /\ req[c] # None /\ req[c].op = "close" /\ req[c].h \in DOMAIN handles[c]
  /\ handles[c][req[c].h].remote
  /\ DropsHandle(c, req[c].h)
  /\ job'[c].op = "close" /\ job'[c].h = handles[c][req[c].h].real

\* The executor is dialed, or sent the request.
GoesOn(c) ==
  /\ pc[c] = "rpc" /\ pc'[c] \in {"rpc", "wait"} /\ SameTables(c) /\ xrsp'[c] = xrsp[c]
  /\ strm'[c] = strm[c] \/ (strm[c] = "none" /\ strm'[c] = "up")
  /\ job'[c] = job[c] /\ rsp'[c] = rsp[c]

\* What the executor did is answered, or EIO.
OpensThere(c) ==
  /\ pc[c] = "wait" /\ pc'[c] = "read" /\ strm'[c] = strm[c] /\ xrsp'[c] = None
  /\ lfs'[c] = lfs[c]
  /\ RelayedOpen(c)
  /\ AddsHandle(c, [remote |-> TRUE, real |-> xrsp[c].h])
  /\ rsp'[c] # None /\ rsp'[c].ok /\ rsp'[c].req = xrsp[c].req
  /\ rsp'[c].h = next[c]
AnswersThere(c) ==
  /\ pc[c] \in {"rpc", "wait"} /\ pc'[c] = "read" /\ SameTables(c) /\ strm'[c] = strm[c]
  /\ xrsp'[c] = None
  /\ \/ pc[c] = "rpc" /\ strm[c] \in {"none", "cut"}
     \/ pc[c] = "wait" /\ strm[c] = "cut"
     \/ pc[c] = "wait" /\ xrsp[c] # None /\ ~RelayedOpen(c)
  /\ rsp'[c] # None /\ ~(rsp'[c].ok /\ rsp'[c].req.op = "open")

SessionEffect(c) ==
  \/ EndsOn(c) \/ OpensHere(c) \/ ClosesHere(c) \/ AnswersHere(c)
  \/ TakesUp(c) \/ TakesUpClose(c) \/ GoesOn(c) \/ OpensThere(c) \/ AnswersThere(c)

\* SendResponse, exactly.
LEMMA ReplyExact ==
  ASSUME TypeOK, NEW c \in Conns, NEW r \in Response, NEW fs, IsService(fs), Reply(c, r, fs)
  PROVE  \/ pc'[c] = "read" /\ rsp'[c] = r /\ lfs'[c] = fs /\ strm'[c] = strm[c]
         \/ /\ pc'[c] = "ended" /\ rsp'[c] = rsp[c] /\ DOMAIN lfs'[c].open = {}
            /\ strm[c] = "up" => strm'[c] = "cut"
<1>1. /\ lfs = [d \in Conns |-> lfs[d]] /\ rsp \in [Conns -> Response \cup {None}]
      /\ pc \in [Conns -> {"none", "read", "rpc", "wait", "ended"}]
      /\ strm \in [Conns -> {"none", "up", "cut"}]
  BY DEF TypeOK
<1>2. CASE holders[c] # {} /\ ResponseFits(r)
  BY <1>1, <1>2 DEF Reply
<1>3. CASE ~(holders[c] # {} /\ ResponseFits(r))
  <2>1. Close(c, fs)
    BY <1>3 DEF Reply
  <2>2. /\ lfs'[c] = CloseAll(fs) /\ pc'[c] = "ended" /\ rsp' = rsp
        /\ strm[c] = "up" => strm'[c] = "cut"
    BY <1>1, <2>1 DEF Close
  <2>3. fs = [open |-> fs.open, next |-> fs.next]
    BY DEF IsService
  <2>4. CloseAll(fs).open = Empty
    BY <2>3 DEF CloseAll
  <2> QED
    BY <2>2, <2>4 DEF Empty
<1> QED
  BY <1>2, <1>3

\* What recording an open, and forgetting a handle, do to the session's table.
LEMMA RegisterExact ==
  ASSUME TypeOK, NEW c \in Conns, NEW remote \in BOOLEAN, NEW r \in Response,
         Register(c, remote, r)
  PROVE  /\ r.req.op = "open" /\ r.ok => AddsHandle(c, [remote |-> remote, real |-> r.h])
         /\ ~(r.req.op = "open" /\ r.ok) => handles'[c] = handles[c] /\ next'[c] = next[c]
BY RegisterEffect DEF AddsHandle

\* What the close of a handle does to the session's table.
LEMMA ForgetExact ==
  ASSUME TypeOK, NEW c \in Conns, Forget(c)
  PROVE  /\ req[c].op = "close" =>
              /\ DOMAIN handles'[c] = DOMAIN handles[c] \ {req[c].h}
              /\ \A x \in DOMAIN handles'[c] : handles'[c][x] = handles[c][x]
         /\ req[c].op # "close" => handles'[c] = handles[c]
<1>1. handles = [d \in Conns |-> handles[d]] /\ IsTable(handles[c], HandleRef)
  BY DEF TypeOK
<1>2. CASE req[c].op = "close"
  <2> DEFINE t == Drop(handles[c], req[c].h)
  <2>1. /\ DOMAIN t = DOMAIN handles[c] \ {req[c].h}
        /\ \A h \in DOMAIN t : t[h] = handles[c][h]
    BY <1>1 DEF IsTable, Drop, Restrict
  <2>2. handles' = [handles EXCEPT ![c] = t]
    BY <1>2 DEF Forget
  <2> HIDE DEF t
  <2> QED
    BY <1>1, <1>2, <2>1, <2>2
<1>3. CASE req[c].op # "close"
  BY <1>3 DEF Forget
<1> QED
  BY <1>2, <1>3

\* Every step of a session has one of the effects above on it.
LEMMA SessionEffects ==
  ASSUME IInv, NEW c \in Conns, SessionStep(c)
  PROVE  SessionEffect(c)
<1>t. TypeOK
  BY DEF IInv
<1>a. /\ pc \in [Conns -> {"none", "read", "rpc", "wait", "ended"}]
      /\ job \in [Conns -> Request \cup {None}] /\ req \in [Conns -> Request \cup {None}]
      /\ xrsp \in [Conns -> Response \cup {None}] /\ strm \in [Conns -> {"none", "up", "cut"}]
      /\ lfs = [d \in Conns |-> lfs[d]]
  BY <1>t DEF TypeOK
<1>s. IsService(lfs[c])
  BY <1>t DEF TypeOK
<1>n. None \notin Request /\ None \notin Response
  BY NoneAssumption
<1>h. \A h \in DOMAIN handles[c] : handles[c][h] \in HandleRef
  BY <1>t DEF TypeOK, IsTable
<1>w. \A m \in Request, ref \in HandleRef :
        /\ Rewrite(m, ref) \in Request /\ Rewrite(m, ref).op = m.op
        /\ Rewrite(m, ref).file = m.file /\ Rewrite(m, ref).h = ref.real
  BY DEF Rewrite, Request, HandleRef
<1>j. pc[c] \in {"rpc", "wait"} => job[c] \in Request
  BY <1>t, <1>a DEF IInv, OneRelayed, RelayedOn
<1>x. xrsp[c] # None => xrsp[c] \in Response /\ xrsp[c].req = job[c] /\ pc[c] = "wait"
  BY <1>t, <1>a DEF IInv, OneRelayed, RelayedOn
<1>r. Readable(c) => req[c] \in Request /\ req[c] # None /\ pc[c] = "read"
  BY <1>t, <1>a DEF Readable
<1>1. CASE ServeLocal(c)
  <2>1. PICK o \in Handle(lfs[c], req[c]) :
          Register(c, FALSE, o.resp) /\ Reply(c, Wrap(c, o.resp), o.fs)
    BY <1>1 DEF ServeLocal
  <2>2. Readable(c) /\ req[c].op \notin {"io", "close"} /\ req[c].file \notin RemoteFiles
        /\ xrsp' = xrsp
    BY <1>1 DEF ServeLocal, ByHandle, IsRemote
  <2>3. o.resp \in Response /\ o.resp.req = req[c] /\ IsService(o.fs)
    BY <2>2, <1>r, <1>s, HandleOutcome
  <2>4. /\ req[c].op = "open" /\ o.resp.ok =>
             o.resp.h = lfs[c].next /\ SvcOpens(lfs[c], o.fs, req[c].file)
        /\ ~(req[c].op = "open" /\ o.resp.ok) => o.fs.open = lfs[c].open
    BY <2>2, <1>r, <1>s, ServedTable
  <2>5. /\ Wrap(c, o.resp) \in Response /\ Wrap(c, o.resp).req = req[c]
        /\ Wrap(c, o.resp).ok = o.resp.ok
        /\ req[c].op = "open" /\ o.resp.ok => Wrap(c, o.resp).h = next[c]
    BY <1>t, <2>3, WrapType
  <2>6. /\ req[c].op = "open" /\ o.resp.ok =>
             AddsHandle(c, [remote |-> FALSE, real |-> o.resp.h])
        /\ ~(req[c].op = "open" /\ o.resp.ok) => handles'[c] = handles[c] /\ next'[c] = next[c]
    BY <1>t, <2>1, <2>3, RegisterExact
  <2>7. \/ /\ pc'[c] = "read" /\ rsp'[c] = Wrap(c, o.resp) /\ lfs'[c] = o.fs
           /\ strm'[c] = strm[c]
        \/ /\ pc'[c] = "ended" /\ rsp'[c] = rsp[c] /\ DOMAIN lfs'[c].open = {}
           /\ strm[c] = "up" => strm'[c] = "cut"
    BY <1>t, <2>1, <2>3, <2>5, ReplyExact
  <2>8. CASE pc'[c] = "ended"
    BY <2>2, <2>7, <2>8, <1>r DEF SessionEffect, EndsOn
  <2>9. CASE pc'[c] # "ended" /\ req[c].op = "open" /\ o.resp.ok
    <3>1. OpensHere(c)
      BY <2>2, <2>4, <2>5, <2>6, <2>7, <2>9, <1>r, <1>n DEF OpensHere, SameStream
    <3> QED
      BY <3>1 DEF SessionEffect
  <2>10. CASE pc'[c] # "ended" /\ ~(req[c].op = "open" /\ o.resp.ok)
    <3>1. AnswersHere(c)
      BY <2>2, <2>4, <2>5, <2>6, <2>7, <2>10, <1>r, <1>n DEF AnswersHere, SameTables, SameStream
    <3> QED
      BY <3>1 DEF SessionEffect
  <2> QED
    BY <2>8, <2>9, <2>10
<1>2. CASE ServeLocalHandle(c)
  <2> DEFINE ref == handles[c][req[c].h]
             m == Rewrite(req[c], ref)
  <2>1. PICK o \in Handle(lfs[c], m) : Reply(c, o.resp, o.fs)
    BY <1>2 DEF ServeLocalHandle
  <2>2. /\ Readable(c) /\ req[c].op \in {"io", "close"} /\ req[c].h \in DOMAIN handles[c]
        /\ ~ref.remote /\ Forget(c) /\ xrsp' = xrsp /\ next' = next
    BY <1>2 DEF ServeLocalHandle, ByHandle
  <2>3. m \in Request /\ m.op = req[c].op /\ m.h = ref.real
    BY <2>2, <1>r, <1>h, <1>w
  <2> HIDE DEF m
  <2>4. o.resp \in Response /\ o.resp.req = m /\ IsService(o.fs)
    BY <2>3, <1>s, HandleOutcome
  <2>5. /\ req[c].op = "close" => SvcCloses(lfs[c], o.fs, ref.real)
        /\ req[c].op = "io" => o.fs.open = lfs[c].open
    <3>1. /\ m.op = "close" => SvcCloses(lfs[c], o.fs, m.h)
          /\ ~(m.op = "open" /\ o.resp.ok) /\ m.op # "close" => o.fs.open = lfs[c].open
      BY <2>3, <1>s, ServedTable
    <3> QED
      BY <3>1, <2>3
  <2>6. \/ /\ pc'[c] = "read" /\ rsp'[c] = o.resp /\ lfs'[c] = o.fs /\ strm'[c] = strm[c]
        \/ /\ pc'[c] = "ended" /\ rsp'[c] = rsp[c] /\ DOMAIN lfs'[c].open = {}
           /\ strm[c] = "up" => strm'[c] = "cut"
    BY <1>t, <2>1, <2>4, ReplyExact
  <2>7. /\ req[c].op = "close" => DropsHandle(c, req[c].h)
        /\ req[c].op # "close" => handles'[c] = handles[c]
    BY <1>t, <2>2, ForgetExact DEF DropsHandle
  <2>8. CASE pc'[c] = "ended"
    BY <2>2, <2>6, <2>8, <1>r DEF SessionEffect, EndsOn
  <2>9. CASE pc'[c] # "ended" /\ req[c].op = "close"
    <3>1. ClosesHere(c)
      BY <2>2, <2>3, <2>4, <2>5, <2>6, <2>7, <2>9, <1>r, <1>n DEF ClosesHere, SameStream
    <3> QED
      BY <3>1 DEF SessionEffect
  <2>10. CASE pc'[c] # "ended" /\ req[c].op = "io"
    <3>1. AnswersHere(c)
      BY <2>2, <2>3, <2>4, <2>5, <2>6, <2>7, <2>10, <1>r, <1>n
      DEF AnswersHere, SameTables, SameStream
    <3> QED
      BY <3>1 DEF SessionEffect
  <2> QED
    BY <2>2, <2>8, <2>9, <2>10
<1>3. CASE Refuse(c)
  <2>1. /\ Readable(c) /\ Reply(c, Fail(req[c]), lfs[c]) /\ xrsp' = xrsp
        /\ handles' = handles /\ next' = next
        /\ req[c].op = "close" => req[c].h \notin DOMAIN handles[c]
    BY <1>3 DEF Refuse
  <2>2. Fail(req[c]) \in Response /\ ~Fail(req[c]).ok
    BY <2>1, <1>r, FailType
  <2>3. \/ /\ pc'[c] = "read" /\ rsp'[c] = Fail(req[c]) /\ lfs'[c] = lfs[c]
           /\ strm'[c] = strm[c]
        \/ /\ pc'[c] = "ended" /\ rsp'[c] = rsp[c] /\ DOMAIN lfs'[c].open = {}
           /\ strm[c] = "up" => strm'[c] = "cut"
    BY <1>t, <1>s, <2>1, <2>2, ReplyExact
  <2>4. EndsOn(c) \/ AnswersHere(c)
    BY <2>1, <2>2, <2>3, <1>r, <1>n DEF EndsOn, AnswersHere, SameTables, SameStream
  <2> QED
    BY <2>4 DEF SessionEffect
<1>4. CASE Relay(c)
  <2>1. /\ Readable(c) /\ pc'[c] = "rpc" /\ rsp'[c] = rsp[c] /\ next' = next /\ lfs' = lfs
        /\ strm' = strm /\ xrsp' = xrsp
    BY <1>4, <1>a DEF Relay, remoteVars
  <2>2. CASE ~ByHandle(req[c]) /\ IsRemote(req[c].file) /\ job' = [job EXCEPT ![c] = req[c]]
             /\ handles' = handles
    <3>1. TakesUp(c)
      BY <2>1, <2>2, <1>a, <1>r DEF TakesUp, SameTables, SameStream, ByHandle, IsRemote
    <3> QED
      BY <3>1 DEF SessionEffect
  <2>3. CASE /\ ByHandle(req[c]) /\ req[c].h \in DOMAIN handles[c]
             /\ handles[c][req[c].h].remote
             /\ job' = [job EXCEPT ![c] = Rewrite(req[c], handles[c][req[c].h])]
             /\ Forget(c)
    <3>1. /\ job'[c].op = req[c].op /\ job'[c].h = handles[c][req[c].h].real
      BY <2>1, <2>3, <1>a, <1>r, <1>h, <1>w
    <3>2. /\ req[c].op = "close" =>
               /\ DOMAIN handles'[c] = DOMAIN handles[c] \ {req[c].h}
               /\ \A x \in DOMAIN handles'[c] : handles'[c][x] = handles[c][x]
          /\ req[c].op # "close" => handles'[c] = handles[c]
      BY <1>t, <2>3, ForgetExact
    <3>3. CASE req[c].op = "close"
      <4>1. TakesUpClose(c)
        BY <2>1, <2>3, <3>1, <3>2, <3>3, <1>r DEF TakesUpClose, SameStream, DropsHandle
      <4> QED
        BY <4>1 DEF SessionEffect
    <3>4. CASE req[c].op = "io"
      <4>1. TakesUp(c)
        BY <2>1, <2>3, <3>1, <3>2, <3>4, <1>r DEF TakesUp, SameTables, SameStream
      <4> QED
        BY <4>1 DEF SessionEffect
    <3> QED
      BY <2>3, <3>3, <3>4 DEF ByHandle
  <2> QED
    BY <1>4, <2>2, <2>3 DEF Relay
<1>5. CASE ReadFails(c)
  <2>1. pc[c] = "read" /\ Close(c, lfs[c])
    BY <1>5 DEF ReadFails
  <2>2. lfs'[c] = CloseAll(lfs[c]) /\ pc'[c] = "ended" /\ rsp' = rsp
        /\ (strm[c] = "up" => strm'[c] = "cut")
    BY <1>a, <2>1 DEF Close
  <2>3. DOMAIN lfs'[c].open = {}
    BY <2>2, <1>s DEF IsService, CloseAll, Empty
  <2> QED
    BY <2>1, <2>2, <2>3 DEF SessionEffect, EndsOn
<1>6. CASE RemoteDial(c)
  <2>1. GoesOn(c)
    BY <1>6, <1>a DEF RemoteDial, GoesOn, SameTables, sessionVars, legVars
  <2> QED
    BY <2>1 DEF SessionEffect
<1>7. CASE RemoteSend(c)
  <2>1. GoesOn(c)
    BY <1>7, <1>a DEF RemoteSend, GoesOn, SameTables, legVars
  <2> QED
    BY <2>1 DEF SessionEffect
<1>8. CASE RemoteFails(c) \/ RemoteRecvFails(c)
  <2>1. /\ Reply(c, Fail(job[c]), lfs[c]) /\ handles' = handles /\ next' = next
        /\ pc[c] \in {"rpc", "wait"}
    BY <1>8 DEF RemoteFails, RemoteRecvFails
  <2>2. Fail(job[c]) \in Response /\ ~Fail(job[c]).ok
    BY <2>1, <1>j, FailType
  <2>3. xrsp'[c] = None
    BY <1>8, <1>a, <1>x DEF RemoteFails, RemoteRecvFails
  <2>4. \/ pc[c] = "rpc" /\ strm[c] \in {"none", "cut"}
        \/ pc[c] = "wait" /\ strm[c] = "cut"
    BY <1>8 DEF RemoteFails, RemoteRecvFails
  <2>5. \/ /\ pc'[c] = "read" /\ rsp'[c] = Fail(job[c]) /\ lfs'[c] = lfs[c]
           /\ strm'[c] = strm[c]
        \/ /\ pc'[c] = "ended" /\ rsp'[c] = rsp[c] /\ DOMAIN lfs'[c].open = {}
           /\ strm[c] = "up" => strm'[c] = "cut"
    BY <1>t, <1>s, <2>1, <2>2, ReplyExact
  <2>6. EndsOn(c) \/ AnswersThere(c)
    BY <2>1, <2>2, <2>3, <2>4, <2>5, <1>n DEF EndsOn, AnswersThere, SameTables
  <2> QED
    BY <2>6 DEF SessionEffect
<1>9. CASE RemoteRecv(c)
  <2> DEFINE r == xrsp[c]
  <2>1. /\ pc[c] = "wait" /\ r # None /\ Register(c, TRUE, r) /\ Reply(c, Wrap(c, r), lfs[c])
    BY <1>9 DEF RemoteRecv
  <2>2. r \in Response /\ xrsp'[c] = None
    BY <1>9, <2>1, <1>a DEF RemoteRecv
  <2>3. /\ Wrap(c, r) \in Response /\ Wrap(c, r).req = r.req /\ Wrap(c, r).ok = r.ok
        /\ r.req.op = "open" /\ r.ok => Wrap(c, r).h = next[c]
    BY <1>t, <2>2, WrapType
  <2>4. /\ r.req.op = "open" /\ r.ok => AddsHandle(c, [remote |-> TRUE, real |-> r.h])
        /\ ~(r.req.op = "open" /\ r.ok) => handles'[c] = handles[c] /\ next'[c] = next[c]
    BY <1>t, <2>1, <2>2, RegisterExact
  <2>5. \/ /\ pc'[c] = "read" /\ rsp'[c] = Wrap(c, r) /\ lfs'[c] = lfs[c]
           /\ strm'[c] = strm[c]
        \/ /\ pc'[c] = "ended" /\ rsp'[c] = rsp[c] /\ DOMAIN lfs'[c].open = {}
           /\ strm[c] = "up" => strm'[c] = "cut"
    BY <1>t, <1>s, <2>1, <2>3, ReplyExact
  <2> HIDE DEF r
  <2>6. EndsOn(c) \/ OpensThere(c) \/ AnswersThere(c)
    BY <2>1, <2>2, <2>3, <2>4, <2>5, <1>n
    DEF r, EndsOn, OpensThere, AnswersThere, RelayedOpen, SameTables
  <2> QED
    BY <2>6 DEF SessionEffect
<1> QED
  BY <1>1, <1>2, <1>3, <1>4, <1>5, <1>6, <1>7, <1>8, <1>9 DEF SessionStep


----------------------------------------------------------------------------
(* The real handles behind a session's table as it grows and shrinks.      *)

\* A new handle adds the real handle it stands for, on its side.
LEMMA RealsAdd ==
  ASSUME NEW c \in Conns, NEW ref \in HandleRef, AddsHandle(c, ref),
         next[c] \notin DOMAIN handles[c]
  PROVE  /\ Reals(c, ref.remote)' = Reals(c, ref.remote) \cup {ref.real}
         /\ \A b \in BOOLEAN : b # ref.remote => Reals(c, b)' = Reals(c, b)
<1>1. /\ DOMAIN handles'[c] = DOMAIN handles[c] \cup {next[c]}
      /\ handles'[c][next[c]] = ref
      /\ \A h \in DOMAIN handles[c] : handles'[c][h] = handles[c][h]
  BY DEF AddsHandle
<1>2. Reals(c, ref.remote)' = Reals(c, ref.remote) \cup {ref.real}
  BY <1>1 DEF Reals
<1>3. ASSUME NEW b \in BOOLEAN, b # ref.remote
      PROVE  Reals(c, b)' = Reals(c, b)
  BY <1>1, <1>3 DEF Reals
<1> QED
  BY <1>2, <1>3

\* A forgotten handle takes its real handle away: no other one stands for it.
LEMMA RealsDrop ==
  ASSUME TypeOK, NEW c \in Conns, NEW k \in DOMAIN handles[c], DropsHandle(c, k),
         \A g, h \in DOMAIN handles[c] : handles[c][g] = handles[c][h] => g = h,
         NEW ref \in HandleRef, handles[c][k] = ref
  PROVE  /\ Reals(c, ref.remote)' = Reals(c, ref.remote) \ {ref.real}
         /\ \A b \in BOOLEAN : b # ref.remote => Reals(c, b)' = Reals(c, b)
<1>1. /\ DOMAIN handles'[c] = DOMAIN handles[c] \ {k}
      /\ \A h \in DOMAIN handles'[c] : handles'[c][h] = handles[c][h]
  BY DEF DropsHandle
<1>2. \A h \in DOMAIN handles[c] :
        /\ handles[c][h] = [remote |-> handles[c][h].remote, real |-> handles[c][h].real]
        /\ handles[c][h].remote \in BOOLEAN
  BY DEF TypeOK, IsTable, HandleRef
<1>3. \A h \in DOMAIN handles[c] :
        handles[c][h].remote = ref.remote /\ handles[c][h].real = ref.real => h = k
  BY <1>2
<1>4. Reals(c, ref.remote)' = Reals(c, ref.remote) \ {ref.real}
  BY <1>1, <1>3 DEF Reals
<1>5. ASSUME NEW b \in BOOLEAN, b # ref.remote
      PROVE  Reals(c, b)' = Reals(c, b)
  BY <1>1, <1>5 DEF Reals
<1> QED
  BY <1>4, <1>5

\* An untouched handle table stands for the same real handles.
LEMMA RealsSame ==
  ASSUME NEW c \in Conns, handles'[c] = handles[c]
  PROVE  \A b \in BOOLEAN : Reals(c, b)' = Reals(c, b)
BY DEF Reals

\* A step of a session keeps its tables fitting.
LEMMA SessionTidy ==
  ASSUME IInv, Tables, NEW c \in Conns, SessionStep(c)
  PROVE  TidyOn(c)' /\ ApartOn(c)' /\ SidesOn(c)'
<1>e. SessionEffect(c)
  BY SessionEffects
<1>x. xfs' = xfs
  BY SessionFrame
<1>t. /\ IsTable(handles[c], HandleRef) /\ DOMAIN handles[c] \subseteq Nat /\ next[c] \in Nat
      /\ IsService(lfs[c]) /\ lfs[c].next \in Nat /\ DOMAIN lfs[c].open \subseteq Nat
      /\ pc[c] \in {"none", "read", "rpc", "wait", "ended"} /\ strm[c] \in {"none", "up", "cut"}
      /\ xrsp[c] # None => xrsp[c].h \in Nat
      /\ \A h \in DOMAIN handles[c] : handles[c][h] \in HandleRef
  BY DEF IInv, TypeOK, IsService, IsTable, Response
<1>r. /\ xrsp[c] # None => pc[c] = "wait"
      /\ strm[c] = "none" => pc[c] # "wait"
  BY DEF IInv, OneRelayed, RelayedOn
<1>i. /\ next[c] \notin DOMAIN handles[c]
      /\ \A h \in DOMAIN handles[c] : ~handles[c][h].remote => handles[c][h].real < lfs[c].next
  BY <1>t DEF IInv, HandlesIssued
<1>h. TidyOn(c) /\ ApartOn(c) /\ SidesOn(c)
  BY DEF Tables
<1>in. ASSUME xrsp[c] = None, pc[c] \notin {"rpc", "wait"}
       PROVE  InTransit(c) = {}
  BY <1>in DEF InTransit
<1>in2. ASSUME xrsp'[c] = None, pc'[c] \notin {"rpc", "wait"}
        PROVE  InTransit(c)' = {}
  BY <1>in2 DEF InTransit
<1>1. CASE EndsOn(c)
  <2>1. pc'[c] = "ended" /\ DOMAIN lfs'[c].open = {}
    BY <1>1 DEF EndsOn
  <2> QED
    BY <2>1, <1>x, <1>h DEF TidyOn, ApartOn, SidesOn
<1>2. CASE OpensHere(c)
  <2>0. PICK ref \in HandleRef :
          /\ ref = [remote |-> FALSE, real |-> lfs[c].next]
          /\ ref.remote = FALSE /\ ref.real = lfs[c].next
    <3> DEFINE w == [remote |-> FALSE, real |-> lfs[c].next]
    <3>1. w \in HandleRef /\ w.remote = FALSE /\ w.real = lfs[c].next
      BY <1>t DEF HandleRef
    <3> QED
      BY <3>1
  <2>1. /\ pc[c] = "read" /\ pc'[c] = "read" /\ SameStream(c) /\ AddsHandle(c, ref)
        /\ SvcOpens(lfs[c], lfs'[c], req[c].file) /\ req[c].file \notin RemoteFiles
    BY <1>2, <2>0 DEF OpensHere
  <2>3. \A h \in DOMAIN handles[c] : handles[c][h] # ref
    BY <1>i, <1>t, <2>0
  <2>4. /\ Reals(c, FALSE)' = Reals(c, FALSE) \cup {lfs[c].next}
        /\ Reals(c, TRUE)' = Reals(c, TRUE)
    <3>1. /\ Reals(c, ref.remote)' = Reals(c, ref.remote) \cup {ref.real}
          /\ \A b \in BOOLEAN : b # ref.remote => Reals(c, b)' = Reals(c, b)
      BY <2>1, <2>0, <1>i, RealsAdd
    <3> QED
      BY <3>1, <2>0
  <2>5. xrsp[c] = None /\ xrsp'[c] = None /\ strm'[c] = strm[c]
    BY <2>1, <1>r DEF SameStream
  <2>6. InTransit(c) = {} /\ InTransit(c)' = {}
    BY <2>1, <2>5, <1>in, <1>in2
  <2>7. TidyOn(c)'
    BY <2>1, <2>4, <2>5, <2>6, <1>x, <1>h DEF TidyOn, SvcOpens
  <2>8. ApartOn(c)'
    BY <2>1, <2>3, <2>5, <1>i, <1>h DEF ApartOn, AddsHandle, RelayedOpen
  <2>9. SidesOn(c)'
    BY <2>1, <1>x, <1>h DEF SidesOn, SvcOpens
  <2> QED
    BY <2>7, <2>8, <2>9
<1>3. CASE ClosesHere(c)
  <2>1. PICK ref \in HandleRef : ref = handles[c][req[c].h]
    BY <1>3, <1>t DEF ClosesHere
  <2>2. /\ pc[c] = "read" /\ pc'[c] = "read" /\ SameStream(c) /\ DropsHandle(c, req[c].h)
        /\ req[c].h \in DOMAIN handles[c] /\ ref.remote = FALSE
        /\ SvcCloses(lfs[c], lfs'[c], ref.real)
    BY <1>3, <2>1 DEF ClosesHere, HandleRef
  <2>3. /\ Reals(c, FALSE)' = Reals(c, FALSE) \ {ref.real}
        /\ Reals(c, TRUE)' = Reals(c, TRUE)
    <3>0. TypeOK /\ \A g, h \in DOMAIN handles[c] : handles[c][g] = handles[c][h] => g = h
      BY <2>2, <1>h DEF IInv, ApartOn
    <3>1. /\ Reals(c, ref.remote)' = Reals(c, ref.remote) \ {ref.real}
          /\ \A b \in BOOLEAN : b # ref.remote => Reals(c, b)' = Reals(c, b)
      BY <2>1, <2>2, <3>0, RealsDrop
    <3> QED
      BY <3>1, <2>2
  <2>5. xrsp[c] = None /\ xrsp'[c] = None /\ strm'[c] = strm[c]
    BY <2>2, <1>r DEF SameStream
  <2>6. InTransit(c) = {} /\ InTransit(c)' = {}
    BY <2>2, <2>5, <1>in, <1>in2
  <2>7. TidyOn(c)'
    BY <2>2, <2>3, <2>5, <2>6, <1>x, <1>h DEF TidyOn, SvcCloses
  <2>8. ApartOn(c)'
    BY <2>2, <2>5, <1>h DEF ApartOn, DropsHandle, RelayedOpen
  <2>9. SidesOn(c)'
    BY <2>2, <1>x, <1>h DEF SidesOn, SvcCloses
  <2> QED
    BY <2>7, <2>8, <2>9
<1>4. CASE AnswersHere(c) \/ TakesUp(c)
  <2>1. /\ pc[c] = "read" /\ pc'[c] \in {"read", "rpc"} /\ SameStream(c)
        /\ handles'[c] = handles[c] /\ lfs'[c].open = lfs[c].open
        /\ pc'[c] = "rpc" =>
             job'[c].op # "close" /\ (job'[c].op = "open" => job'[c].file \in RemoteFiles)
    BY <1>4 DEF AnswersHere, TakesUp, SameTables
  <2>2. Reals(c, FALSE)' = Reals(c, FALSE) /\ Reals(c, TRUE)' = Reals(c, TRUE)
    BY <2>1, RealsSame
  <2>5. xrsp[c] = None /\ xrsp'[c] = None /\ strm'[c] = strm[c]
    BY <2>1, <1>r DEF SameStream
  <2>6. InTransit(c) = {} /\ InTransit(c)' = {}
    BY <2>1, <2>5, <1>in DEF InTransit
  <2>7. TidyOn(c)'
    BY <2>1, <2>2, <2>5, <2>6, <1>x, <1>h DEF TidyOn
  <2>8. ApartOn(c)'
    BY <2>1, <2>5, <1>h DEF ApartOn, RelayedOpen
  <2>9. SidesOn(c)'
    BY <2>1, <1>x, <1>h DEF SidesOn
  <2> QED
    BY <2>7, <2>8, <2>9
<1>5. CASE TakesUpClose(c)
  <2>1. PICK ref \in HandleRef : ref = handles[c][req[c].h]
    BY <1>5, <1>t DEF TakesUpClose
  <2>2. /\ pc[c] = "read" /\ pc'[c] = "rpc" /\ SameStream(c) /\ DropsHandle(c, req[c].h)
        /\ req[c].h \in DOMAIN handles[c] /\ ref.remote = TRUE /\ lfs'[c] = lfs[c]
        /\ job'[c].op = "close" /\ job'[c].h = ref.real
    BY <1>5, <2>1 DEF TakesUpClose, HandleRef
  <2>3. /\ Reals(c, TRUE)' = Reals(c, TRUE) \ {ref.real}
        /\ Reals(c, FALSE)' = Reals(c, FALSE)
    <3>0. TypeOK /\ \A g, h \in DOMAIN handles[c] : handles[c][g] = handles[c][h] => g = h
      BY <2>2, <1>h DEF IInv, ApartOn
    <3>1. /\ Reals(c, ref.remote)' = Reals(c, ref.remote) \ {ref.real}
          /\ \A b \in BOOLEAN : b # ref.remote => Reals(c, b)' = Reals(c, b)
      BY <2>1, <2>2, <3>0, RealsDrop
    <3> QED
      BY <3>1, <2>2
  <2>4. ref.real \in Reals(c, TRUE)
    BY <2>1, <2>2 DEF Reals
  <2>5. xrsp[c] = None /\ xrsp'[c] = None /\ strm'[c] = strm[c]
    BY <2>2, <1>r DEF SameStream
  <2>6. InTransit(c) = {} /\ InTransit(c)' = {ref.real}
    BY <2>2, <2>5, <1>in DEF InTransit
  <2>7. TidyOn(c)'
    BY <2>2, <2>3, <2>4, <2>5, <2>6, <1>x, <1>h DEF TidyOn
  <2>8. ApartOn(c)'
    <3>1. \A g, h \in DOMAIN handles'[c] : handles'[c][g] = handles'[c][h] => g = h
      BY <2>2, <1>h DEF ApartOn, DropsHandle
    <3>2. job'[c].h \notin Reals(c, TRUE)'
      BY <2>2, <2>3
    <3> QED
      BY <3>1, <3>2, <2>5 DEF ApartOn, RelayedOpen
  <2>9. SidesOn(c)'
    BY <2>2, <1>x, <1>h DEF SidesOn
  <2> QED
    BY <2>7, <2>8, <2>9
<1>6. CASE GoesOn(c)
  <2>1. /\ pc[c] = "rpc" /\ pc'[c] \in {"rpc", "wait"} /\ xrsp'[c] = xrsp[c]
        /\ handles'[c] = handles[c] /\ lfs'[c].open = lfs[c].open /\ job'[c] = job[c]
        /\ strm'[c] = strm[c] \/ (strm[c] = "none" /\ strm'[c] = "up")
    BY <1>6 DEF GoesOn, SameTables
  <2>2. Reals(c, FALSE)' = Reals(c, FALSE) /\ Reals(c, TRUE)' = Reals(c, TRUE)
    BY <2>1, RealsSame
  <2>5. xrsp[c] = None /\ xrsp'[c] = None
    BY <2>1, <1>r
  <2>6. InTransit(c)' = InTransit(c)
    BY <2>1, <2>5 DEF InTransit
  <2>7. TidyOn(c)'
    BY <2>1, <2>2, <2>5, <2>6, <1>x, <1>h DEF TidyOn
  <2>8. ApartOn(c)'
    BY <2>1, <2>2, <2>5, <1>h DEF ApartOn, RelayedOpen
  <2>9. SidesOn(c)'
    BY <2>1, <1>x, <1>h DEF SidesOn
  <2> QED
    BY <2>7, <2>8, <2>9
<1>7. CASE OpensThere(c)
  <2>0. PICK ref \in HandleRef :
          /\ ref = [remote |-> TRUE, real |-> xrsp[c].h]
          /\ ref.remote = TRUE /\ ref.real = xrsp[c].h
    <3> DEFINE w == [remote |-> TRUE, real |-> xrsp[c].h]
    <3>1. w \in HandleRef /\ w.remote = TRUE /\ w.real = xrsp[c].h
      BY <1>t, <1>7 DEF HandleRef, OpensThere, RelayedOpen
    <3> QED
      BY <3>1
  <2>1. /\ pc[c] = "wait" /\ pc'[c] = "read" /\ strm'[c] = strm[c] /\ xrsp'[c] = None
        /\ lfs'[c] = lfs[c] /\ RelayedOpen(c) /\ AddsHandle(c, ref)
    BY <1>7, <2>0 DEF OpensThere
  <2>3. \A h \in DOMAIN handles[c] : handles[c][h] # ref
    BY <1>h, <2>1, <2>0 DEF ApartOn, Reals
  <2>4. /\ Reals(c, TRUE)' = Reals(c, TRUE) \cup {xrsp[c].h}
        /\ Reals(c, FALSE)' = Reals(c, FALSE)
    <3>1. /\ Reals(c, ref.remote)' = Reals(c, ref.remote) \cup {ref.real}
          /\ \A b \in BOOLEAN : b # ref.remote => Reals(c, b)' = Reals(c, b)
      BY <2>1, <2>0, <1>i, RealsAdd
    <3> QED
      BY <3>1, <2>0
  <2>6. InTransit(c) = {xrsp[c].h} /\ InTransit(c)' = {}
    BY <2>1 DEF InTransit, RelayedOpen
  <2>7. TidyOn(c)'
    BY <2>1, <2>4, <2>6, <1>x, <1>h, <1>r DEF TidyOn
  <2>8. ApartOn(c)'
    BY <2>1, <2>3, <1>i, <1>h DEF ApartOn, AddsHandle, RelayedOpen
  <2>9. SidesOn(c)'
    BY <2>1, <1>x, <1>h DEF SidesOn
  <2> QED
    BY <2>7, <2>8, <2>9
<1>8. CASE AnswersThere(c)
  <2>1. /\ pc[c] \in {"rpc", "wait"} /\ pc'[c] = "read" /\ strm'[c] = strm[c]
        /\ xrsp'[c] = None /\ handles'[c] = handles[c] /\ lfs'[c].open = lfs[c].open
        /\ \/ pc[c] = "rpc" /\ strm[c] \in {"none", "cut"}
           \/ pc[c] = "wait" /\ strm[c] = "cut"
           \/ pc[c] = "wait" /\ xrsp[c] # None /\ ~RelayedOpen(c)
    BY <1>8 DEF AnswersThere, SameTables
  <2>2. Reals(c, FALSE)' = Reals(c, FALSE) /\ Reals(c, TRUE)' = Reals(c, TRUE)
    BY <2>1, RealsSame
  <2>3. InTransit(c)' = {}
    BY <2>1, <1>in2
  <2>4. strm[c] = "up" => InTransit(c) = {}
    BY <2>1 DEF InTransit, RelayedOpen
  <2>7. TidyOn(c)'
    BY <2>1, <2>2, <2>3, <2>4, <1>x, <1>h, <1>t DEF TidyOn
  <2>8. ApartOn(c)'
    BY <2>1, <1>h DEF ApartOn, RelayedOpen
  <2>9. SidesOn(c)'
    BY <2>1, <1>x, <1>h DEF SidesOn
  <2> QED
    BY <2>7, <2>8, <2>9
<1> QED
  BY <1>e, <1>1, <1>2, <1>3, <1>4, <1>5, <1>6, <1>7, <1>8 DEF SessionEffect

----------------------------------------------------------------------------
(* What a step of the executor does to a stream: one of these.             *)

AnswersOpen(c)  == job[c].op = "open" /\ xrsp'[c].ok /\ xrsp'[c].h = xfs[c].next
                   /\ SvcOpens(xfs[c], xfs'[c], job[c].file)
AnswersClose(c) == job[c].op = "close" /\ SvcCloses(xfs[c], xfs'[c], job[c].h)
AnswersOther(c) == job[c].op # "close" /\ ~(job[c].op = "open" /\ xrsp'[c].ok)
                   /\ xfs'[c].open = xfs[c].open
StreamAnswers(c) ==
  /\ pc[c] = "wait" /\ strm[c] = "up" /\ strm'[c] = "up" /\ xrsp[c] = None
  /\ xrsp'[c] # None /\ xrsp'[c].req = job[c]
  /\ AnswersOpen(c) \/ AnswersClose(c) \/ AnswersOther(c)
StreamEnds(c) ==
  /\ strm[c] # "none" /\ strm'[c] = "cut" /\ xrsp'[c] = xrsp[c]
  /\ DOMAIN xfs'[c].open = {}

\* Every step of the executor has one of these effects, and no other stream's
\* variables change.
LEMMA ExecEffects ==
  ASSUME IInv, NEW c \in Conns, ExecStep(c)
  PROVE  /\ StreamAnswers(c) \/ StreamEnds(c)
         /\ UNCHANGED <<clientVars, legVars, sessionVars>>
         /\ \A d \in Conns \ {c} : strm'[d] = strm[d] /\ xrsp'[d] = xrsp[d] /\ xfs'[d] = xfs[d]
<1>t. TypeOK
  BY DEF IInv
<1>1. /\ xfs = [d \in Conns |-> xfs[d]] /\ strm \in [Conns -> {"none", "up", "cut"}]
      /\ xrsp \in [Conns -> Response \cup {None}] /\ xreq \in [Conns -> Request \cup {None}]
      /\ IsService(xfs[c])
  BY <1>t DEF TypeOK
<1>n. None \notin Response
  BY NoneAssumption
<1>r. /\ strm[c] = "none" => xpc[c] = "none"
      /\ strm[c] = "up" /\ xreq[c] # None => pc[c] = "wait" /\ xreq[c] = job[c] /\ xrsp[c] = None
  BY DEF IInv, OneRelayed, RelayedOn
<1>e. ASSUME NEW fs, IsService(fs), ExecEnd(c, fs), xrsp' = xrsp, xpc[c] = "serving"
      PROVE  StreamEnds(c)
             /\ \A d \in Conns \ {c} :
                  strm'[d] = strm[d] /\ xrsp'[d] = xrsp[d] /\ xfs'[d] = xfs[d]
  <2>1. xfs'[c] = CloseAll(fs) /\ strm'[c] = "cut"
        /\ \A d \in Conns \ {c} : strm'[d] = strm[d] /\ xfs'[d] = xfs[d]
    BY <1>1, <1>e DEF ExecEnd
  <2>2. DOMAIN CloseAll(fs).open = {}
    BY <1>e DEF IsService, CloseAll, Empty
  <2> QED
    BY <2>1, <2>2, <1>e, <1>r DEF StreamEnds
<1>2. CASE ExecServe(c)
  <2>1. PICK o \in Handle(xfs[c], xreq[c]) :
          IF strm[c] = "up" /\ ResponseFits(o.resp)
            THEN /\ xrsp' = [xrsp EXCEPT ![c] = o.resp]
                 /\ xfs' = [xfs EXCEPT ![c] = o.fs]
                 /\ UNCHANGED <<strm, xpc>>
            ELSE ExecEnd(c, o.fs) /\ UNCHANGED xrsp
    BY <1>2 DEF ExecServe
  <2>2. /\ xpc[c] = "serving" /\ xreq[c] # None /\ xreq[c] \in Request
        /\ UNCHANGED <<clientVars, legVars, sessionVars>>
    BY <1>2, <1>1 DEF ExecServe
  <2>3. o.resp \in Response /\ o.resp.req = xreq[c] /\ IsService(o.fs)
    BY <2>2, <1>1, HandleOutcome
  <2>4. /\ xreq[c].op = "open" /\ o.resp.ok =>
             o.resp.h = xfs[c].next /\ SvcOpens(xfs[c], o.fs, xreq[c].file)
        /\ xreq[c].op = "close" => SvcCloses(xfs[c], o.fs, xreq[c].h)
        /\ ~(xreq[c].op = "open" /\ o.resp.ok) /\ xreq[c].op # "close" =>
             o.fs.open = xfs[c].open
    BY <2>2, <1>1, ServedTable
  <2>5. CASE strm[c] = "up" /\ ResponseFits(o.resp)
    <3>1. xrsp'[c] = o.resp /\ xfs'[c] = o.fs /\ strm' = strm
          /\ \A d \in Conns \ {c} : xrsp'[d] = xrsp[d] /\ xfs'[d] = xfs[d]
      BY <2>1, <2>5, <1>1
    <3>2. pc[c] = "wait" /\ xreq[c] = job[c] /\ xrsp[c] = None
      BY <2>2, <2>5, <1>r
    <3>3. AnswersOpen(c) \/ AnswersClose(c) \/ AnswersOther(c)
      BY <2>4, <3>1, <3>2 DEF AnswersOpen, AnswersClose, AnswersOther
    <3>4. StreamAnswers(c)
      BY <2>3, <2>5, <3>1, <3>2, <3>3, <1>n DEF StreamAnswers
    <3> QED
      BY <3>1, <3>4, <2>2
  <2>6. CASE ~(strm[c] = "up" /\ ResponseFits(o.resp))
    <3>1. ExecEnd(c, o.fs) /\ xrsp' = xrsp
      BY <2>1, <2>6
    <3> QED
      BY <3>1, <2>2, <2>3, <1>e
  <2> QED
    BY <2>5, <2>6
<1>3. CASE ExecReadFails(c)
  BY <1>3, <1>1, <1>e DEF ExecReadFails
<1> QED
  BY <1>2, <1>3 DEF ExecStep

\* A step of the executor keeps its table fitting.
LEMMA ExecTidy ==
  ASSUME IInv, Tables, NEW c \in Conns, ExecStep(c)
  PROVE  TidyOn(c)' /\ ApartOn(c)' /\ SidesOn(c)'
<1>e. StreamAnswers(c) \/ StreamEnds(c)
  BY ExecEffects
<1>u. handles' = handles /\ lfs' = lfs /\ pc' = pc /\ job' = job
  BY ExecEffects DEF sessionVars
<1>h. TidyOn(c) /\ ApartOn(c) /\ SidesOn(c)
  BY DEF Tables
<1>2. Reals(c, FALSE)' = Reals(c, FALSE) /\ Reals(c, TRUE)' = Reals(c, TRUE)
  BY <1>u, RealsSame
<1>3. xfs[c].next \notin Reals(c, TRUE)
  <2>1. \A h \in DOMAIN handles[c] : handles[c][h].remote => handles[c][h].real < xfs[c].next
    BY DEF IInv, HandlesIssued
  <2>2. xfs[c].next \in Nat /\ \A h \in DOMAIN handles[c] : handles[c][h].remote \in BOOLEAN
    BY DEF IInv, TypeOK, IsService, IsTable, HandleRef
  <2> QED
    BY <2>1, <2>2 DEF Reals
<1>4. CASE StreamEnds(c)
  BY <1>4, <1>u, <1>h, <1>2 DEF StreamEnds, TidyOn, ApartOn, SidesOn, RelayedOpen
<1>5. CASE StreamAnswers(c)
  <2>1. /\ pc[c] = "wait" /\ strm[c] = "up" /\ strm'[c] = "up" /\ xrsp[c] = None
        /\ xrsp'[c] # None /\ xrsp'[c].req = job[c]
        /\ DOMAIN xfs[c].open = Reals(c, TRUE) \cup InTransit(c)
    BY <1>5, <1>h DEF StreamAnswers, TidyOn
  <2>2. CASE AnswersOpen(c)
    <3>1. InTransit(c) = {} /\ InTransit(c)' = {xfs[c].next}
      BY <2>1, <2>2, <1>u DEF InTransit, AnswersOpen
    <3>2. TidyOn(c)'
      BY <2>1, <2>2, <3>1, <1>2, <1>u, <1>h DEF AnswersOpen, SvcOpens, TidyOn
    <3>3. ApartOn(c)'
      BY <2>1, <2>2, <1>2, <1>3, <1>u, <1>h DEF AnswersOpen, ApartOn, RelayedOpen
    <3>4. SidesOn(c)'
      BY <2>1, <2>2, <1>u, <1>h DEF AnswersOpen, SvcOpens, SidesOn
    <3> QED
      BY <3>2, <3>3, <3>4
  <2>3. CASE AnswersClose(c)
    <3>1. InTransit(c) = {job[c].h} /\ InTransit(c)' = {} /\ job[c].h \notin Reals(c, TRUE)
      BY <2>1, <2>3, <1>u, <1>h DEF InTransit, AnswersClose, ApartOn
    <3>2. TidyOn(c)'
      BY <2>1, <2>3, <3>1, <1>2, <1>u, <1>h DEF AnswersClose, SvcCloses, TidyOn
    <3>3. ApartOn(c)'
      BY <2>1, <2>3, <1>2, <1>u, <1>h DEF AnswersClose, ApartOn, RelayedOpen
    <3>4. SidesOn(c)'
      BY <2>1, <2>3, <1>u, <1>h DEF AnswersClose, SvcCloses, SidesOn
    <3> QED
      BY <3>2, <3>3, <3>4
  <2>4. CASE AnswersOther(c)
    <3>1. InTransit(c) = {} /\ InTransit(c)' = {}
      BY <2>1, <2>4, <1>u DEF InTransit, AnswersOther
    <3>2. TidyOn(c)'
      BY <2>1, <2>4, <3>1, <1>2, <1>u, <1>h DEF AnswersOther, TidyOn
    <3>3. ApartOn(c)'
      BY <2>1, <2>4, <1>2, <1>u, <1>h DEF AnswersOther, ApartOn, RelayedOpen
    <3>4. SidesOn(c)'
      BY <2>1, <2>4, <1>u, <1>h DEF AnswersOther, SidesOn
    <3> QED
      BY <3>2, <3>3, <3>4
  <2> QED
    BY <2>2, <2>3, <2>4, <1>5 DEF StreamAnswers
<1> QED
  BY <1>e, <1>4, <1>5

\* What a session's tables depend on.
LEMMA TidyFrame ==
  ASSUME Tables, NEW c \in Conns,
         handles'[c] = handles[c], lfs'[c] = lfs[c], xfs'[c] = xfs[c], job'[c] = job[c],
         xrsp'[c] = xrsp[c], strm'[c] = strm[c] \/ (strm[c] = "up" /\ strm'[c] = "cut"),
         pc'[c] = pc[c] \/ (pc[c] = "none" /\ pc'[c] = "read")
  PROVE  TidyOn(c)' /\ ApartOn(c)' /\ SidesOn(c)'
<1>h. TidyOn(c) /\ ApartOn(c) /\ SidesOn(c)
  BY DEF Tables
<1>1. Reals(c, FALSE)' = Reals(c, FALSE) /\ Reals(c, TRUE)' = Reals(c, TRUE)
  BY RealsSame
<1>2. InTransit(c)' = InTransit(c)
  BY DEF InTransit
<1>3. TidyOn(c)'
  BY <1>1, <1>2, <1>h DEF TidyOn
<1>4. ApartOn(c)'
  BY <1>1, <1>h DEF ApartOn, RelayedOpen
<1>5. SidesOn(c)'
  BY <1>h DEF SidesOn
<1> QED
  BY <1>3, <1>4, <1>5

\* Every step keeps the tables of every session fitting.
LEMMA TablesPreserved ==
  ASSUME IInv, Tables, Next
  PROVE  Tables'
<1> SUFFICES ASSUME NEW d \in Conns
             PROVE  TidyOn(d)' /\ ApartOn(d)' /\ SidesOn(d)'
  BY DEF Tables
<1>t. /\ pc \in [Conns -> {"none", "read", "rpc", "wait", "ended"}]
      /\ strm \in [Conns -> {"none", "up", "cut"}]
  BY DEF IInv, TypeOK
<1>1. CASE \/ \E f \in Files, op \in Ops, over \in BOOLEAN : Call(f, op, over)
           \/ ClientStep \/ Spawn \/ Exit \/ \E c \in Conns : HeirExits(c)
  <2>1. /\ UNCHANGED <<job, handles, next, lfs, remoteVars, execVars>>
        /\ pc'[d] = pc[d] \/ (pc[d] = "none" /\ pc'[d] = "read")
    BY <1>1, <1>t DEF Call, ClientStep, Dial, DialFails, Send, SendFails, Recv, RecvFails, Spawn,
                      Exit, HeirExits, sessionVars
  <2> QED
    BY <2>1, TidyFrame DEF remoteVars, execVars
<1>2. ASSUME NEW c \in Conns, SessionStep(c)
      PROVE  TidyOn(d)' /\ ApartOn(d)' /\ SidesOn(d)'
  <2>1. CASE d = c
    BY <1>2, <2>1, SessionTidy
  <2>2. CASE d # c
    <3>1. /\ pc'[d] = pc[d] /\ job'[d] = job[d] /\ handles'[d] = handles[d] /\ lfs'[d] = lfs[d]
          /\ strm'[d] = strm[d] /\ xrsp'[d] = xrsp[d] /\ xfs' = xfs
      BY <1>2, <2>2, SessionFrame
    <3> QED
      BY <3>1, TidyFrame
  <2> QED
    BY <2>1, <2>2
<1>3. ASSUME NEW c \in Conns, ExecStep(c)
      PROVE  TidyOn(d)' /\ ApartOn(d)' /\ SidesOn(d)'
  <2>1. CASE d = c
    BY <1>3, <2>1, ExecTidy
  <2>2. CASE d # c
    <3>1. /\ UNCHANGED sessionVars
          /\ strm'[d] = strm[d] /\ xrsp'[d] = xrsp[d] /\ xfs'[d] = xfs[d]
      BY <1>3, <2>2, ExecEffects
    <3> QED
      BY <3>1, TidyFrame DEF sessionVars
  <2> QED
    BY <2>1, <2>2
<1>4. ASSUME NEW c \in Conns, Cut(c)
      PROVE  TidyOn(d)' /\ ApartOn(d)' /\ SidesOn(d)'
  <2>1. /\ UNCHANGED <<sessionVars, xrsp, execVars>>
        /\ strm'[d] = strm[d] \/ (strm[d] = "up" /\ strm'[d] = "cut")
    BY <1>4, <1>t DEF Cut
  <2> QED
    BY <2>1, TidyFrame DEF sessionVars, execVars
<1> QED
  BY <1>1, <1>2, <1>3, <1>4 DEF Next

----------------------------------------------------------------------------
(* The single table: what each effect is to HandleService.                 *)

\* Connection d is as it was to the abstract service.
SameOf(d) ==
  PhaseOf(d)' = PhaseOf(d) /\ TableOf(d)' = TableOf(d) /\ IssuedOf(d)' = IssuedOf(d)

\* A step that leaves every connection as it was is not seen.
LEMMA MapStutter ==
  ASSUME \A d \in Conns : SameOf(d)
  PROVE  UNCHANGED HS!vars
<1>1. phaseBar' = phaseBar /\ tableBar' = tableBar /\ issuedBar' = issuedBar
  BY DEF SameOf, phaseBar, tableBar, issuedBar
<1> QED
  BY <1>1 DEF HS!vars

\* One connection moves, the others are as they were.
LEMMA MapUpdate ==
  ASSUME NEW c \in Conns, \A d \in Conns \ {c} : SameOf(d),
         NEW p, NEW t, NEW i, PhaseOf(c)' = p, TableOf(c)' = t, IssuedOf(c)' = i
  PROVE  /\ phaseBar' = [phaseBar EXCEPT ![c] = p]
         /\ tableBar' = [tableBar EXCEPT ![c] = t]
         /\ issuedBar' = [issuedBar EXCEPT ![c] = i]
         /\ phaseBar[c] = PhaseOf(c) /\ tableBar[c] = TableOf(c) /\ issuedBar[c] = IssuedOf(c)
         /\ issuedBar'[c] = i
         /\ PhaseOf(c) = p => phaseBar' = phaseBar
         /\ TableOf(c) = t => tableBar' = tableBar
         /\ IssuedOf(c) = i => issuedBar' = issuedBar
BY DEF SameOf, phaseBar, tableBar, issuedBar

\* The session starts.
LEMMA MapStart ==
  ASSUME NEW c \in Conns, \A d \in Conns \ {c} : SameOf(d),
         PhaseOf(c) = "idle", PhaseOf(c)' = "live",
         TableOf(c)' = TableOf(c), IssuedOf(c)' = IssuedOf(c)
  PROVE  HS!Next
<1>1. HS!Start(c)
  BY MapUpdate DEF HS!Start
<1> QED
  BY <1>1 DEF HS!Next

\* A file is opened.
LEMMA MapOpen ==
  ASSUME NEW c \in Conns, \A d \in Conns \ {c} : SameOf(d),
         PhaseOf(c) = "live", PhaseOf(c)' = "live", IssuedOf(c)' = IssuedOf(c) + 1,
         NEW f \in Files \cup {None},
         TableOf(c)' = [h \in DOMAIN TableOf(c) \cup {IssuedOf(c) + 1} |->
                          IF h = IssuedOf(c) + 1 THEN f ELSE TableOf(c)[h]]
  PROVE  HS!Next
<1>1. HS!Open(c, f)
  BY MapUpdate DEF HS!Open
<1> QED
  BY <1>1 DEF HS!Next

\* A file is closed.
LEMMA MapClose ==
  ASSUME NEW c \in Conns, \A d \in Conns \ {c} : SameOf(d),
         PhaseOf(c) = "live", PhaseOf(c)' = "live", IssuedOf(c)' = IssuedOf(c),
         NEW h \in DOMAIN TableOf(c),
         TableOf(c)' = [x \in DOMAIN TableOf(c) \ {h} |-> TableOf(c)[x]]
  PROVE  HS!Next
<1>1. HS!Close(c)
  BY MapUpdate DEF HS!Close
<1> QED
  BY <1>1 DEF HS!Next

\* The routed files are lost.
LEMMA MapLose ==
  ASSUME NEW c \in Conns, \A d \in Conns \ {c} : SameOf(d),
         PhaseOf(c) = "live", PhaseOf(c)' = "live", IssuedOf(c)' = IssuedOf(c),
         TableOf(c)' = [x \in DOMAIN TableOf(c) |->
                          IF TableOf(c)[x] \in RemoteFiles THEN None ELSE TableOf(c)[x]]
  PROVE  HS!Next
<1>1. HS!Lose(c)
  BY MapUpdate DEF HS!Lose
<1> QED
  BY <1>1 DEF HS!Next

\* The session ends.
LEMMA MapEnd ==
  ASSUME NEW c \in Conns, \A d \in Conns \ {c} : SameOf(d),
         PhaseOf(c) = "live", PhaseOf(c)' = "over", TableOf(c)' = Empty, IssuedOf(c)' = 0
  PROVE  HS!Next
<1>1. HS!End(c)
  BY MapUpdate DEF HS!End, HS!Empty, Empty
<1> QED
  BY <1>1 DEF HS!Next

\* The initial tables are one empty table.
LEMMA MapInit == Init => HS!Init
<1> SUFFICES ASSUME Init
             PROVE  HS!Init
  OBVIOUS
<1>1. ASSUME NEW c \in Conns
      PROVE  PhaseOf(c) = "idle" /\ TableOf(c) = Empty /\ IssuedOf(c) = 0
  <2>1. pc[c] = "none" /\ handles[c] = Empty /\ next[c] = 1
    BY DEF Init
  <2> QED
    BY <2>1 DEF PhaseOf, TableOf, IssuedOf, Empty
<1> QED
  BY <1>1 DEF HS!Init, HS!Empty, Empty, phaseBar, tableBar, issuedBar

\* A connection whose tables resolve every handle as before is as it was.
LEMMA SameResolution ==
  ASSUME NEW c \in Conns, PhaseOf(c)' = PhaseOf(c), handles'[c] = handles[c],
         next'[c] = next[c],
         PhaseOf(c) # "over" => \A h \in DOMAIN handles[c] : Resolve(c, h)' = Resolve(c, h)
  PROVE  SameOf(c)
<1>1. pc[c] = "ended" <=> pc'[c] = "ended"
  BY DEF PhaseOf
<1>2. pc[c] # "ended" => PhaseOf(c) # "over"
  BY DEF PhaseOf
<1>3. TableOf(c)' = TableOf(c)
  BY <1>1, <1>2 DEF TableOf
<1> QED
  BY <1>1, <1>3 DEF SameOf, IssuedOf

\* Nothing the abstract service sees of a connection changed.
LEMMA SameVariables ==
  ASSUME NEW c \in Conns, pc'[c] = pc[c], handles'[c] = handles[c], next'[c] = next[c],
         lfs'[c] = lfs[c], xfs'[c] = xfs[c]
  PROVE  SameOf(c)
<1>1. PhaseOf(c)' = PhaseOf(c)
  BY DEF PhaseOf
<1>2. \A h \in DOMAIN handles[c] : Resolve(c, h)' = Resolve(c, h)
  BY DEF Resolve
<1> QED
  BY <1>1, <1>2, SameResolution

\* A step of a session is one step of the abstract service, or none.
LEMMA SessionMaps ==
  ASSUME IInv, Tables, NEW c \in Conns, SessionStep(c)
  PROVE  HS!Next \/ UNCHANGED HS!vars
<1>e. SessionEffect(c)
  BY SessionEffects
<1>f. \A d \in Conns \ {c} : SameOf(d)
  BY SessionFrame, SameVariables
<1>x. xfs' = xfs
  BY SessionFrame
<1>h. TidyOn(c) /\ ApartOn(c) /\ SidesOn(c)
  BY DEF Tables
<1>t. /\ next[c] \in Nat /\ lfs[c].next \in Nat /\ lfs'[c] = lfs'[c]
      /\ \A h \in DOMAIN handles[c] : handles[c][h] \in HandleRef
      /\ req[c] # None => req[c].file \in Files
      /\ \A r \in DOMAIN xfs[c].open : xfs[c].open[r] \in Files
  BY DEF IInv, TypeOK, IsService, IsTable, Request
<1>r. \A h \in DOMAIN handles[c] :
        handles[c][h].remote \in BOOLEAN /\ handles[c][h].real \in Nat
  BY <1>t DEF HandleRef
<1>i. /\ next[c] \notin DOMAIN handles[c]
      /\ \A h \in DOMAIN handles[c] : ~handles[c][h].remote => handles[c][h].real < lfs[c].next
  BY <1>t DEF IInv, HandlesIssued, TypeOK, IsTable
<1>1. CASE EndsOn(c)
  <2>1. PhaseOf(c) = "live" /\ PhaseOf(c)' = "over" /\ TableOf(c)' = Empty /\ IssuedOf(c)' = 0
    BY <1>1 DEF EndsOn, PhaseOf, TableOf, IssuedOf
  <2> QED
    BY <2>1, <1>f, MapEnd
<1>2. ASSUME NEW ref, NEW f \in Files \cup {None}, NEW n, n = next[c], AddsHandle(c, ref),
             pc[c] \in {"read", "rpc", "wait"}, pc'[c] \in {"read", "rpc", "wait"},
             Resolve(c, n)' = f,
             \A h \in DOMAIN handles[c] : Resolve(c, h)' = Resolve(c, h)
      PROVE  HS!Next
  <2>1. /\ DOMAIN handles'[c] = DOMAIN handles[c] \cup {n} /\ next'[c] = n + 1
        /\ n \notin DOMAIN handles[c]
    BY <1>2, <1>i DEF AddsHandle
  <2>2. PhaseOf(c) = "live" /\ PhaseOf(c)' = "live" /\ IssuedOf(c)' = n
        /\ IssuedOf(c) + 1 = n
    BY <1>2, <2>1, <1>t DEF PhaseOf, IssuedOf
  <2>3. /\ TableOf(c) = [h \in DOMAIN handles[c] |-> Resolve(c, h)]
        /\ TableOf(c)' = [h \in DOMAIN handles'[c] |-> Resolve(c, h)']
    BY <1>2 DEF TableOf
  <2>4. TableOf(c)' = [h \in DOMAIN TableOf(c) \cup {n} |->
                         IF h = n THEN f ELSE TableOf(c)[h]]
    BY <1>2, <2>1, <2>3
  <2>5. TableOf(c)' = [h \in DOMAIN TableOf(c) \cup {IssuedOf(c) + 1} |->
                         IF h = IssuedOf(c) + 1 THEN f ELSE TableOf(c)[h]]
    BY <2>2, <2>4
  <2> QED
    BY <1>2, <1>f, <2>2, <2>5, MapOpen
<1>3. ASSUME NEW k \in DOMAIN handles[c], DropsHandle(c, k),
             pc[c] \in {"read", "rpc", "wait"}, pc'[c] \in {"read", "rpc", "wait"},
             \A h \in DOMAIN handles[c] : h # k => Resolve(c, h)' = Resolve(c, h)
      PROVE  HS!Next
  <2>1. DOMAIN handles'[c] = DOMAIN handles[c] \ {k} /\ next'[c] = next[c]
    BY <1>3 DEF DropsHandle
  <2>2. PhaseOf(c) = "live" /\ PhaseOf(c)' = "live" /\ IssuedOf(c)' = IssuedOf(c)
    BY <1>3, <2>1 DEF PhaseOf, IssuedOf
  <2>3. /\ TableOf(c) = [h \in DOMAIN handles[c] |-> Resolve(c, h)]
        /\ TableOf(c)' = [h \in DOMAIN handles'[c] |-> Resolve(c, h)']
    BY <1>3 DEF TableOf
  <2>4. TableOf(c)' = [x \in DOMAIN TableOf(c) \ {k} |-> TableOf(c)[x]]
    BY <1>3, <2>1, <2>3
  <2>5. k \in DOMAIN TableOf(c)
    BY <2>3
  <2> QED
    BY <1>f, <2>2, <2>4, <2>5, MapClose
<1>4. ASSUME SameTables(c), pc[c] \in {"read", "rpc", "wait"}, pc'[c] \in {"read", "rpc", "wait"}
      PROVE  UNCHANGED HS!vars
  <2>1. \A h \in DOMAIN handles[c] : Resolve(c, h)' = Resolve(c, h)
    BY <1>4, <1>x DEF SameTables, Resolve
  <2>2. PhaseOf(c)' = PhaseOf(c)
    BY <1>4 DEF PhaseOf
  <2>3. SameOf(c)
    BY <1>4, <2>1, <2>2, SameResolution DEF SameTables
  <2> QED
    BY <2>3, <1>f, MapStutter
<1>5. CASE OpensHere(c)
  <2>1. PICK ref, n : ref = [remote |-> FALSE, real |-> lfs[c].next] /\ n = next[c]
    OBVIOUS
  <2>2. /\ pc[c] = "read" /\ pc'[c] = "read" /\ AddsHandle(c, ref)
        /\ SvcOpens(lfs[c], lfs'[c], req[c].file) /\ req[c] # None
        /\ ref.remote = FALSE /\ ref.real = lfs[c].next
    BY <1>5, <2>1 DEF OpensHere
  <2>3. handles'[c][n] = ref /\ \A h \in DOMAIN handles[c] : handles'[c][h] = handles[c][h]
    BY <2>1, <2>2, <1>i DEF AddsHandle
  <2>4. PICK f \in Files : f = req[c].file
    BY <2>2, <1>t
  <2>5. Resolve(c, n)' = f
    BY <2>2, <2>3, <2>4 DEF Resolve, SvcOpens
  <2>6. ASSUME NEW h \in DOMAIN handles[c]
        PROVE  Resolve(c, h)' = Resolve(c, h)
    <3>1. CASE handles[c][h].remote
      BY <2>3, <3>1, <1>x DEF Resolve
    <3>2. CASE ~handles[c][h].remote
      <4>1. handles[c][h].real # lfs[c].next
        BY <3>2, <1>i, <1>r, <1>t
      <4> QED
        BY <2>2, <2>3, <3>2, <4>1 DEF Resolve, SvcOpens
    <3> QED
      BY <3>1, <3>2
  <2> QED
    BY <2>1, <2>2, <2>5, <2>6, <1>2
<1>6. CASE ClosesHere(c)
  <2>1. PICK k \in DOMAIN handles[c] : k = req[c].h
    BY <1>6 DEF ClosesHere
  <2>2. /\ pc[c] = "read" /\ pc'[c] = "read" /\ DropsHandle(c, k)
        /\ SvcCloses(lfs[c], lfs'[c], handles[c][k].real) /\ ~handles[c][k].remote
    BY <1>6, <2>1 DEF ClosesHere
  <2>3. \A g, h \in DOMAIN handles[c] : handles[c][g] = handles[c][h] => g = h
    BY <2>2, <1>h DEF ApartOn
  <2>4. ASSUME NEW h \in DOMAIN handles[c], h # k
        PROVE  Resolve(c, h)' = Resolve(c, h)
    <3>1. handles'[c][h] = handles[c][h]
      BY <2>2, <2>4 DEF DropsHandle
    <3>2. CASE handles[c][h].remote
      BY <3>1, <3>2, <1>x DEF Resolve
    <3>3. CASE ~handles[c][h].remote
      <4>1. handles[c][h].real # handles[c][k].real
        BY <2>2, <2>3, <2>4, <3>3, <1>t DEF HandleRef
      <4> QED
        BY <2>2, <3>1, <3>3, <4>1 DEF Resolve, SvcCloses
    <3> QED
      BY <3>2, <3>3
  <2> QED
    BY <2>2, <2>4, <1>3
<1>7. CASE TakesUpClose(c)
  <2>1. PICK k \in DOMAIN handles[c] : k = req[c].h
    BY <1>7 DEF TakesUpClose
  <2>2. /\ pc[c] = "read" /\ pc'[c] = "rpc" /\ DropsHandle(c, k) /\ lfs'[c] = lfs[c]
    BY <1>7, <2>1 DEF TakesUpClose
  <2>3. \A h \in DOMAIN handles[c] : h # k => Resolve(c, h)' = Resolve(c, h)
    BY <2>2, <1>x DEF DropsHandle, Resolve
  <2> QED
    BY <2>2, <2>3, <1>3
<1>8. CASE OpensThere(c)
  <2>1. PICK ref, n : ref = [remote |-> TRUE, real |-> xrsp[c].h] /\ n = next[c]
    OBVIOUS
  <2>2. /\ pc[c] = "wait" /\ pc'[c] = "read" /\ AddsHandle(c, ref) /\ lfs'[c] = lfs[c]
        /\ ref.remote = TRUE /\ ref.real = xrsp[c].h
    BY <1>8, <2>1 DEF OpensThere
  <2>3. handles'[c][n] = ref /\ \A h \in DOMAIN handles[c] : handles'[c][h] = handles[c][h]
    BY <2>1, <2>2, <1>i DEF AddsHandle
  <2>4. PICK f \in Files \cup {None} :
          f = IF ref.real \in DOMAIN xfs[c].open THEN xfs[c].open[ref.real] ELSE None
    BY <1>t
  <2>5. Resolve(c, n)' = f
    BY <2>2, <2>3, <2>4, <1>x DEF Resolve
  <2>6. \A h \in DOMAIN handles[c] : Resolve(c, h)' = Resolve(c, h)
    BY <2>2, <2>3, <1>x DEF Resolve
  <2> QED
    BY <2>1, <2>2, <2>5, <2>6, <1>2
<1>9. CASE AnswersHere(c) \/ TakesUp(c) \/ GoesOn(c) \/ AnswersThere(c)
  BY <1>9, <1>4 DEF AnswersHere, TakesUp, GoesOn, AnswersThere
<1> QED
  BY <1>e, <1>1, <1>5, <1>6, <1>7, <1>8, <1>9 DEF SessionEffect

\* A step of the executor loses the routed files or is not seen.
LEMMA ExecMaps ==
  ASSUME IInv, Tables, NEW c \in Conns, ExecStep(c)
  PROVE  HS!Next \/ UNCHANGED HS!vars
<1>e. StreamAnswers(c) \/ StreamEnds(c)
  BY ExecEffects
<1>u. handles' = handles /\ lfs' = lfs /\ pc' = pc /\ next' = next
  BY ExecEffects DEF sessionVars
<1>f. \A d \in Conns \ {c} : SameOf(d)
  BY <1>u, ExecEffects, SameVariables
<1>h. TidyOn(c) /\ ApartOn(c) /\ SidesOn(c)
  BY DEF Tables
<1>p. PhaseOf(c)' = PhaseOf(c)
  BY <1>u DEF PhaseOf
<1>i. \A h \in DOMAIN handles[c] : handles[c][h].remote =>
        handles[c][h].real \in Reals(c, TRUE) /\ handles[c][h].real # xfs[c].next
  <2>1. \A h \in DOMAIN handles[c] :
          handles[c][h].remote \in BOOLEAN /\ handles[c][h].real \in Nat
    BY DEF IInv, TypeOK, IsTable, HandleRef
  <2>2. xfs[c].next \in Nat
    BY DEF IInv, TypeOK, IsService
  <2>3. \A h \in DOMAIN handles[c] : handles[c][h].remote => handles[c][h].real < xfs[c].next
    BY DEF IInv, HandlesIssued
  <2> QED
    BY <2>1, <2>2, <2>3 DEF Reals
<1>1. CASE StreamAnswers(c)
  <2>1. ASSUME NEW h \in DOMAIN handles[c]
        PROVE  Resolve(c, h)' = Resolve(c, h)
    <3>1. CASE ~handles[c][h].remote
      BY <3>1, <1>u DEF Resolve
    <3>2. CASE handles[c][h].remote /\ AnswersOpen(c)
      BY <3>2, <1>u, <1>i DEF Resolve, AnswersOpen, SvcOpens
    <3>3. CASE handles[c][h].remote /\ AnswersClose(c)
      <4>1. handles[c][h].real # job[c].h
        BY <1>1, <3>3, <1>h, <1>i DEF StreamAnswers, AnswersClose, ApartOn
      <4> QED
        BY <3>3, <4>1, <1>u DEF Resolve, AnswersClose, SvcCloses
    <3>4. CASE handles[c][h].remote /\ AnswersOther(c)
      BY <3>4, <1>u DEF Resolve, AnswersOther
    <3> QED
      BY <1>1, <3>1, <3>2, <3>3, <3>4 DEF StreamAnswers
  <2>2. SameOf(c)
    BY <2>1, <1>u, <1>p, SameResolution
  <2> QED
    BY <2>2, <1>f, MapStutter
<1>2. CASE StreamEnds(c) /\ pc[c] = "ended"
  <2>1. SameOf(c)
    BY <1>2, <1>u, <1>p, SameResolution DEF PhaseOf
  <2> QED
    BY <2>1, <1>f, MapStutter
<1>3. CASE StreamEnds(c) /\ pc[c] # "ended"
  <2>1. pc[c] # "none"
    BY <1>3, <1>h DEF StreamEnds, TidyOn
  <2>2. PhaseOf(c) = "live" /\ PhaseOf(c)' = "live" /\ IssuedOf(c)' = IssuedOf(c)
    BY <1>3, <2>1, <1>u DEF PhaseOf, IssuedOf
  <2>3. ASSUME NEW h \in DOMAIN handles[c]
        PROVE  Resolve(c, h)' = IF Resolve(c, h) \in RemoteFiles THEN None ELSE Resolve(c, h)
    <3>1. CASE ~handles[c][h].remote
      <4>1. Resolve(c, h) \notin RemoteFiles
        BY <3>1, <1>h, ConstantsAssumption DEF Resolve, SidesOn
      <4> QED
        BY <3>1, <4>1, <1>u DEF Resolve
    <3>2. CASE handles[c][h].remote
      <4>1. Resolve(c, h) \in RemoteFiles \cup {None}
        BY <3>2, <1>h DEF Resolve, SidesOn
      <4>2. Resolve(c, h)' = None
        BY <1>3, <3>2, <1>u DEF Resolve, StreamEnds
      <4> QED
        BY <4>1, <4>2
    <3> QED
      BY <3>1, <3>2
  <2>4. /\ TableOf(c) = [h \in DOMAIN handles[c] |-> Resolve(c, h)]
        /\ TableOf(c)' = [h \in DOMAIN handles[c] |-> Resolve(c, h)']
    BY <1>3, <1>u DEF TableOf
  <2>5. TableOf(c)' = [x \in DOMAIN TableOf(c) |->
                         IF TableOf(c)[x] \in RemoteFiles THEN None ELSE TableOf(c)[x]]
    BY <2>3, <2>4
  <2> QED
    BY <2>2, <2>5, <1>f, MapLose
<1> QED
  BY <1>e, <1>1, <1>2, <1>3

\* Every step is a step of the abstract service, or is not seen.
LEMMA NextMaps ==
  ASSUME IInv, Tables, [Next]_vars
  PROVE  HS!Next \/ UNCHANGED HS!vars
<1>t. pc \in [Conns -> {"none", "read", "rpc", "wait", "ended"}]
  BY DEF IInv, TypeOK
<1>1. CASE \/ \E f \in Files, op \in Ops, over \in BOOLEAN : Call(f, op, over)
           \/ DialFails \/ Send \/ SendFails \/ Recv \/ RecvFails
           \/ Spawn \/ Exit \/ (\E c \in Conns : HeirExits(c) \/ Cut(c)) \/ UNCHANGED vars
  <2>1. UNCHANGED <<sessionVars, execVars>>
    BY <1>1 DEF Call, DialFails, Send, SendFails, Recv, RecvFails, Spawn, Exit, HeirExits, Cut,
                vars
  <2>2. \A d \in Conns : SameOf(d)
    BY <2>1, SameVariables DEF sessionVars, execVars
  <2> QED
    BY <2>2, MapStutter
<1>2. ASSUME NEW c \in Conns, Dial(c)
      PROVE  HS!Next
  <2>1. /\ pc[c] = "none" /\ pc'[c] = "read" /\ \A d \in Conns \ {c} : pc'[d] = pc[d]
        /\ UNCHANGED <<handles, next, lfs, xfs>>
    BY <1>2, <1>t DEF Dial, execVars
  <2>2. \A d \in Conns \ {c} : SameOf(d)
    BY <2>1, SameVariables
  <2>3. PhaseOf(c) = "idle" /\ PhaseOf(c)' = "live" /\ IssuedOf(c)' = IssuedOf(c)
    BY <2>1 DEF PhaseOf, IssuedOf
  <2>4. TableOf(c)' = TableOf(c)
    BY <2>1 DEF TableOf, Resolve
  <2> QED
    BY <2>2, <2>3, <2>4, MapStart
<1>3. ASSUME NEW c \in Conns, SessionStep(c) \/ ExecStep(c)
      PROVE  HS!Next \/ UNCHANGED HS!vars
  BY <1>3, SessionMaps, ExecMaps
<1> QED
  BY <1>1, <1>2, <1>3 DEF Next, ClientStep

\* Nothing is open at first.
LEMMA TablesInit == Init => Tables
<1> SUFFICES ASSUME Init, NEW c \in Conns
             PROVE  TidyOn(c) /\ ApartOn(c) /\ SidesOn(c)
  BY DEF Tables
<1>1. /\ pc[c] = "none" /\ handles[c] = Empty /\ xrsp[c] = None /\ strm[c] = "none"
      /\ lfs[c] = NewFSService /\ xfs[c] = NewFSService
  BY DEF Init
<1>2. DOMAIN handles[c] = {} /\ DOMAIN lfs[c].open = {} /\ DOMAIN xfs[c].open = {}
  BY <1>1 DEF NewFSService, Empty
<1>3. Reals(c, FALSE) = {} /\ Reals(c, TRUE) = {} /\ InTransit(c) = {}
  BY <1>1, <1>2 DEF Reals, InTransit
<1>4. TidyOn(c)
  BY <1>1, <1>2, <1>3 DEF TidyOn
<1>5. ApartOn(c)
  BY <1>1, <1>2 DEF ApartOn, RelayedOpen
<1>6. SidesOn(c)
  BY <1>1, <1>2 DEF SidesOn
<1> QED
  BY <1>4, <1>5, <1>6

\* A stutter changes nothing.
LEMMA TablesStutter == Tables /\ UNCHANGED vars => Tables'
<1> SUFFICES ASSUME Tables, UNCHANGED vars, NEW c \in Conns
             PROVE  TidyOn(c)' /\ ApartOn(c)' /\ SidesOn(c)'
  BY DEF Tables
<1> QED
  BY TidyFrame DEF vars, sessionVars, remoteVars, execVars

\* The handle tables of a session and the open files of both hosts fit.
THEOREM TablesHold == Spec => []Tables
<1>1. Init => Tables
  BY TablesInit
<1>2. IInv /\ Tables /\ [Next]_vars => Tables'
  BY TablesPreserved, TablesStutter
<1> QED
  BY <1>1, <1>2, Invariant, PTL DEF Spec

\* The adapter's table, the two services' and the messages between them implement
\* one table of handles: nothing but an open, a close, the loss of the executor or
\* the end of the session ever changes what a handle stands for (session.open,
\* byHandle, session.close, serveFS).
THEOREM Refinement == Spec => ImplementsHandleService
<1>1. Init => HS!Init
  BY MapInit
<1>2. IInv /\ Tables /\ [Next]_vars => [HS!Next]_HS!vars
  BY NextMaps
<1> QED
  BY <1>1, <1>2, Invariant, TablesHold, PTL DEF Spec, ImplementsHandleService, HS!Spec

----------------------------------------------------------------------------
(* What the process has open, and the handles of its connection.           *)

\* What Owners depends on.
LEMMA OwnersFrame ==
  ASSUME Owners, UNCHANGED clientVars,
         \A c \in Conns : pc[c] # "none" => pc'[c] # "none",
         \A c \in Conns :
           conn = c => pc'[c] = pc[c] /\ rsp'[c] = rsp[c] /\ handles'[c] = handles[c]
  PROVE  Owners'
<1>1. conn' = conn /\ call' = call /\ fd' = fd
  BY DEF clientVars
<1>2. CallsFit'
  BY <1>1 DEF Owners, CallsFit
<1>3. ViasFit'
  BY <1>1 DEF Owners, ViasFit
<1>4. NumbersDiffer'
  BY <1>1 DEF Owners, NumbersDiffer, Opened
<1>5. ASSUME NEW c \in Conns
      PROVE  OwnedOn(c)' /\ StillThereOn(c)'
  <2>1. CASE conn # c
    BY <1>1, <2>1 DEF OwnedOn, StillThereOn
  <2>2. CASE conn = c
    <3>1. pc'[c] = pc[c] /\ rsp'[c] = rsp[c] /\ handles'[c] = handles[c]
      BY <2>2
    <3>2. OwnedOn(c) /\ StillThereOn(c)
      BY DEF Owners
    <3>3. OwnedOn(c)'
      BY <1>1, <3>1, <3>2 DEF OwnedOn, Opened
    <3>4. StillThereOn(c)'
      BY <1>1, <3>1, <3>2 DEF StillThereOn, Opened, HasHandle, OnlyConnection, Closing
    <3> QED
      BY <3>3, <3>4
  <2> QED
    BY <2>1, <2>2
<1> QED
  BY <1>2, <1>3, <1>4, <1>5 DEF Owners

\* A step of the session of the connection in use keeps handles and owners fitting.
LEMMA OwnersSession ==
  ASSUME IInv, Tables, Owners, NEW c \in Conns, conn = c, SessionStep(c)
  PROVE  Owners'
<1>e. SessionEffect(c)
  BY SessionEffects
<1>1. conn' = conn /\ call' = call /\ fd' = fd
  BY SessionFrame DEF clientVars
<1>p. /\ \A d \in Conns \ {c} : pc'[d] = pc[d]
      /\ pc[c] # "none" /\ pc'[c] # "none"
  BY <1>e, SessionFrame
  DEF SessionEffect, EndsOn, OpensHere, ClosesHere, AnswersHere, TakesUp, TakesUpClose, GoesOn,
      OpensThere, AnswersThere
<1>k. /\ req[c] # None => Calling(c) /\ req[c] = call.m /\ rsp[c] = None
      /\ pc[c] \in {"rpc", "wait"} => Calling(c) /\ SameCall(job[c], call.m) /\ rsp[c] = None
      /\ xrsp[c] # None => xrsp[c].req = job[c]
  BY DEF IInv, OneToken, TokenOn, OneRelayed, RelayedOn
<1>h. OwnedOn(c) /\ StillThereOn(c) /\ SidesOn(c) /\ CallsFit /\ ViasFit /\ NumbersDiffer
  BY DEF Owners, Tables
<1>t. /\ next[c] \in Nat /\ \A h \in DOMAIN handles[c] : handles[c][h].remote \in BOOLEAN
      /\ \A f \in Files : fd[f].h \in Nat
      /\ call # None => call.m.file \in Files /\ call.m.op \in Ops
  BY DEF IInv, TypeOK, IsTable, HandleRef, Outstanding, Request
<1>n. /\ next[c] \notin DOMAIN handles[c]
      /\ \A f \in Files : fd[f].via = c => fd[f].h # next[c]
  <2>1. /\ \A h \in DOMAIN handles[c] : h \in Nat /\ h < next[c]
        /\ \A f \in Files : fd[f].via = c => fd[f].h < next[c]
    BY DEF IInv, TypeOK, IsTable, HandlesIssued, OwnersKept, Issued, Means
  <2> QED
    BY <2>1, <1>t
<1>2. CallsFit' /\ ViasFit'
  BY <1>1, <1>p, <1>h DEF CallsFit, ViasFit
<1>3. ASSUME \/ rsp'[c] = rsp[c]
             \/ Opened(c)' => rsp'[c].h = next[c]
      PROVE  NumbersDiffer'
  BY <1>1, <1>3, <1>h, <1>n DEF NumbersDiffer, Opened
<1>4. ASSUME OwnedOn(c)', StillThereOn(c)', NumbersDiffer'
      PROVE  Owners'
  <2>1. \A d \in Conns \ {c} : OwnedOn(d)' /\ StillThereOn(d)'
    BY <1>1 DEF OwnedOn, StillThereOn
  <2> QED
    BY <1>2, <1>4, <2>1 DEF Owners
<1>5. CASE EndsOn(c)
  <2>1. pc'[c] = "ended" /\ rsp'[c] = rsp[c]
    BY <1>5 DEF EndsOn
  <2>2. OwnedOn(c)' /\ StillThereOn(c)'
    BY <2>1 DEF OwnedOn, StillThereOn
  <2> QED
    BY <2>1, <2>2, <1>3, <1>4
<1>6. CASE OpensHere(c) \/ OpensThere(c)
  <2>1. /\ pc[c] # "ended" /\ rsp[c] = None /\ call # None /\ call.m.op = "open"
        /\ rsp'[c] # None /\ rsp'[c].h = next[c]
        /\ DOMAIN handles'[c] = DOMAIN handles[c] \cup {next[c]}
        /\ \A h \in DOMAIN handles[c] : handles'[c][h] = handles[c][h]
        /\ handles'[c][next[c]].remote <=> rsp'[c].req.file \in RemoteFiles
        /\ rsp'[c].ok /\ rsp'[c].req.op = "open"
    <3>1. CASE OpensHere(c)
      BY <3>1, <1>k, <1>n DEF OpensHere, AddsHandle, Calling
    <3>2. CASE OpensThere(c)
      BY <3>2, <1>k, <1>n, <1>h DEF OpensThere, AddsHandle, Calling, RelayedOpen, SameCall, SidesOn
    <3> QED
      BY <1>6, <3>1, <3>2
  <2>2. OwnedOn(c)'
    BY <2>1, <1>1, <1>h DEF OwnedOn, Opened
  <2>3. StillThereOn(c)'
    BY <2>1, <1>1, <1>h DEF StillThereOn, Opened, HasHandle, OnlyConnection, Closing
  <2> QED
    BY <2>1, <2>2, <2>3, <1>3, <1>4
<1>7. CASE ClosesHere(c) \/ TakesUpClose(c)
  <2>1. /\ pc[c] = "read" /\ rsp[c] = None /\ call # None /\ call.m.op = "close" /\ call.sent
        /\ call.m.h \in DOMAIN handles[c]
        /\ DOMAIN handles'[c] = DOMAIN handles[c] \ {call.m.h}
        /\ \A h \in DOMAIN handles'[c] : handles'[c][h] = handles[c][h]
        /\ rsp'[c] = None \/ rsp'[c].req.op = "close"
    BY <1>7, <1>k DEF ClosesHere, TakesUpClose, DropsHandle, Calling
  <2>2. ~Opened(c) /\ ~Opened(c)'
    BY <2>1 DEF Opened
  <2>3. OwnedOn(c)'
    BY <2>1, <2>2, <1>1, <1>h DEF OwnedOn
  <2>4. /\ call.m.h = fd[call.m.file].h /\ fd[call.m.file].st = "open"
        /\ fd[call.m.file].via # None
    BY <2>1, <1>h, <1>t DEF IInv, InFlightByHandle, ByHandle, CallsFit, ViasFit
  <2>5. ASSUME OnlyConnection(c), NEW f \in Files, fd[f].st = "open", fd[f].via = c, ~Closing(f)
        PROVE  HasHandle(c, fd[f].h, f)'
    <3>1. f # call.m.file
      BY <2>1, <2>5 DEF Closing
    <3>2. fd[call.m.file].via = c
      BY <2>4, <2>5, <1>t, <2>1 DEF OnlyConnection
    <3>3. fd[f].h # call.m.h
      BY <2>4, <2>5, <3>1, <3>2, <1>t, <2>1, <1>h DEF NumbersDiffer
    <3>4. HasHandle(c, fd[f].h, f)
      BY <2>1, <2>5, <1>h DEF StillThereOn
    <3> QED
      BY <2>1, <3>3, <3>4, <1>1 DEF HasHandle
  <2>6. StillThereOn(c)'
    BY <2>2, <2>5, <1>1 DEF StillThereOn, OnlyConnection, Closing
  <2> QED
    BY <2>2, <2>3, <2>6, <1>3, <1>4
<1>8. CASE AnswersHere(c) \/ TakesUp(c) \/ GoesOn(c) \/ AnswersThere(c)
  <2>1. /\ pc[c] # "ended" /\ rsp[c] = None /\ handles'[c] = handles[c]
        /\ rsp'[c] = None \/ ~(rsp'[c].ok /\ rsp'[c].req.op = "open")
        /\ call # None /\ call.m.op = "close" => call.m.h \notin DOMAIN handles[c]
    <3>1. CASE AnswersHere(c) \/ TakesUp(c)
      BY <3>1, <1>k DEF AnswersHere, TakesUp, SameTables
    <3>2. CASE GoesOn(c) \/ AnswersThere(c)
      BY <3>2, <1>k, <1>h DEF GoesOn, AnswersThere, SameTables, OwnedOn
    <3> QED
      BY <1>8, <3>1, <3>2
  <2>2. ~Opened(c) /\ ~Opened(c)'
    BY <2>1 DEF Opened
  <2>3. OwnedOn(c)'
    BY <2>1, <2>2, <1>1, <1>h DEF OwnedOn
  <2>4. StillThereOn(c)'
    BY <2>1, <2>2, <1>1, <1>h DEF StillThereOn, HasHandle, OnlyConnection, Closing
  <2> QED
    BY <2>2, <2>3, <2>4, <1>3, <1>4
<1> QED
  BY <1>e, <1>5, <1>6, <1>7, <1>8 DEF SessionEffect

\* What the caller makes of its outcome, file by file.
LEMMA CompleteExact ==
  ASSUME TypeOK, call # None, NEW ok \in BOOLEAN, NEW h \in Nat, Complete(ok, h)
  PROVE  /\ call' = None
         /\ \A f \in Files \ {call.m.file} : fd'[f] = fd[f]
         /\ call.m.op = "open" /\ ok =>
              fd'[call.m.file] = [st |-> "open", h |-> h, via |-> conn]
         /\ call.m.op = "close" \/ (call.m.op = "open" /\ ~ok) =>
              /\ fd'[call.m.file].st = "closed"
              /\ fd'[call.m.file].h = fd[call.m.file].h
              /\ fd'[call.m.file].via = fd[call.m.file].via
         /\ call.m.op \notin {"open", "close"} => fd' = fd
<1>1. /\ fd \in [Files -> [st : {"fresh", "open", "closed"}, h : Nat,
                           via : Conns \cup {None}]]
      /\ call.m.file \in Files
  BY DEF TypeOK, Outstanding, Request
<1>2. CASE call.m.op = "open"
  BY <1>1, <1>2 DEF Complete
<1>3. CASE call.m.op # "open"
  BY <1>1, <1>3 DEF Complete
<1> QED
  BY <1>2, <1>3

\* An answer is received: the opened file takes the handle over, and a closed
\* file's handle is gone.
LEMMA OwnersRecv ==
  ASSUME IInv, Owners, Recv
  PROVE  Owners'
<1>t. TypeOK
  BY DEF IInv
<1>1. /\ call # None /\ call.sent /\ rsp[conn] # None /\ conn' = conn
      /\ Complete(rsp[conn].ok, rsp[conn].h)
      /\ UNCHANGED <<pc, handles>>
  BY DEF Recv, sessionVars
<1>2. PICK c \in Conns : c = conn
  BY <1>1, <1>t DEF IInv, OneToken, TypeOK
<1>3. rsp[c] \in Response /\ rsp[c].ok \in BOOLEAN /\ rsp[c].h \in Nat /\ rsp'[c] = None
      /\ rsp[c].req \in Request /\ call.m \in Request
  BY <1>1, <1>2, <1>t DEF TypeOK, Response, Recv, Outstanding
<1>4. PICK g \in Files : g = call.m.file
  BY <1>3 DEF Request
<1>5. /\ call' = None
      /\ \A f \in Files \ {g} : fd'[f] = fd[f]
      /\ call.m.op = "open" /\ rsp[c].ok => fd'[g] = [st |-> "open", h |-> rsp[c].h, via |-> c]
      /\ call.m.op = "close" \/ (call.m.op = "open" /\ ~rsp[c].ok) =>
           fd'[g].st = "closed" /\ fd'[g].h = fd[g].h /\ fd'[g].via = fd[g].via
      /\ call.m.op \notin {"open", "close"} => fd' = fd
  BY <1>1, <1>2, <1>3, <1>4, <1>t, CompleteExact
<1>6. SameCall(rsp[c].req, call.m) /\ pc[c] # "none"
  BY <1>1, <1>2 DEF IInv, OneToken, TokenOn
<1>h. OwnedOn(c) /\ StillThereOn(c) /\ CallsFit /\ ViasFit /\ NumbersDiffer
  BY DEF Owners
<1>7. /\ Opened(c) <=> call.m.op = "open" /\ rsp[c].ok
      /\ Opened(c) => rsp[c].req.file = g /\ fd[g].st = "fresh" /\ fd[g].via = None
  BY <1>1, <1>2, <1>4, <1>6, <1>h DEF Opened, SameCall, CallsFit, ViasFit
<1>8. \/ Opened(c) /\ fd'[g].st = "open" /\ fd'[g].h = rsp[c].h /\ fd'[g].via = c
      \/ ~Opened(c) /\ fd'[g].st = "closed" /\ fd'[g].h = fd[g].h /\ fd'[g].via = fd[g].via
      \/ ~Opened(c) /\ fd' = fd /\ call.m.op \notin {"open", "close"}
  BY <1>5, <1>7, <1>3
<1>c. c # None
  BY ConstantsAssumption
<1>9. CallsFit'
  BY <1>5 DEF CallsFit
<1>10. ViasFit'
  <2> SUFFICES ASSUME NEW f \in Files
               PROVE  /\ fd'[f].st = "fresh" => fd'[f].via = None
                      /\ fd'[f].st = "open" => fd'[f].via # None
                      /\ \A d \in Conns : fd'[f].via = d => pc'[d] # "none"
    BY DEF ViasFit
  <2>1. CASE f # g
    BY <2>1, <1>1, <1>5, <1>h DEF ViasFit
  <2>2. CASE f = g
    BY <2>2, <1>1, <1>6, <1>8, <1>c, <1>h DEF ViasFit
  <2> QED
    BY <2>1, <2>2
<1>11. NumbersDiffer'
  <2>1. ASSUME NEW e \in Files, NEW f \in Files, e # f, fd'[e].via # None, fd'[e].via = fd'[f].via
        PROVE  fd'[e].h # fd'[f].h
    <3>1. CASE ~Opened(c)
      <4>1. \A x \in Files : fd'[x].h = fd[x].h /\ fd'[x].via = fd[x].via
        BY <3>1, <1>5, <1>8
      <4> QED
        BY <4>1, <2>1, <1>h DEF NumbersDiffer
    <3>2. CASE Opened(c)
      <4>1. \A x \in Files \ {g} : fd[x].via = c => fd[x].h # rsp[c].h
        BY <3>2, <1>2, <1>h DEF NumbersDiffer
      <4> QED
        BY <3>2, <4>1, <2>1, <1>5, <1>8, <1>h DEF NumbersDiffer
    <3> QED
      BY <3>1, <3>2
  <2>2. \A d \in Conns : conn' = d => ~Opened(d)'
    BY <1>1, <1>2, <1>3 DEF Opened
  <2> QED
    BY <2>1, <2>2 DEF NumbersDiffer
<1>12. OwnedOn(c)'
  <2> SUFFICES ASSUME pc[c] # "ended", NEW h \in DOMAIN handles[c]
               PROVE  \E f \in Files : fd'[f].st = "open" /\ fd'[f].via = c /\ fd'[f].h = h
    BY <1>1, <1>5 DEF OwnedOn
  <2>1. CASE Opened(c) /\ rsp[c].h = h
    BY <2>1, <1>8
  <2>2. CASE \E f \in Files : fd[f].st = "open" /\ fd[f].via = c /\ fd[f].h = h
    <3>1. PICK f \in Files : fd[f].st = "open" /\ fd[f].via = c /\ fd[f].h = h
      BY <2>2
    <3>2. CASE f # g \/ fd' = fd
      BY <3>1, <3>2, <1>5
    <3>3. CASE f = g /\ call.m.op = "open"
      BY <3>1, <3>3, <1>1, <1>4, <1>h DEF CallsFit
    <3>4. CASE f = g /\ call.m.op = "close"
      <4>1. call.m.h = fd[g].h
        BY <3>4, <1>1, <1>4 DEF IInv, InFlightByHandle, ByHandle
      <4>2. call.m.h \notin DOMAIN handles[c]
        BY <3>4, <1>1, <1>2, <1>h DEF OwnedOn
      <4> QED
        BY <3>1, <3>4, <4>1, <4>2
    <3> QED
      BY <3>2, <3>3, <3>4, <1>5
  <2> QED
    BY <2>1, <2>2, <1>2, <1>h DEF OwnedOn
<1>13. StillThereOn(c)'
  <2>1. ~Opened(c)'
    BY <1>3 DEF Opened
  <2> SUFFICES ASSUME pc[c] # "ended", OnlyConnection(c)', NEW f \in Files,
                      fd'[f].st = "open", fd'[f].via = c
               PROVE  HasHandle(c, fd[f].h, f)'
    BY <2>1, <1>1 DEF StillThereOn
  <2>2. OnlyConnection(c)
    <3>1. \A x \in Files : fd'[x].via \in {None, c}
      BY DEF OnlyConnection
    <3>2. \A x \in Files : fd[x].via = fd'[x].via \/ fd[x].via = None
      BY <1>5, <1>7, <1>8
    <3> QED
      BY <3>1, <3>2 DEF OnlyConnection
  <2>3. CASE f = g /\ Opened(c)
    BY <2>3, <1>1, <1>2, <1>7, <1>8, <1>h DEF StillThereOn, HasHandle
  <2>4. CASE ~(f = g /\ Opened(c))
    <3>1. fd'[f] = fd[f] /\ ~Closing(f)
      BY <2>4, <1>4, <1>5, <1>8 DEF Closing
    <3> QED
      BY <3>1, <2>2, <1>1, <1>2, <1>h DEF StillThereOn, HasHandle
  <2> QED
    BY <2>3, <2>4
<1>14. \A d \in Conns \ {c} : OwnedOn(d)' /\ StillThereOn(d)'
  BY <1>1, <1>2 DEF OwnedOn, StillThereOn
<1> QED
  BY <1>9, <1>10, <1>11, <1>12, <1>13, <1>14 DEF Owners

\* A process that drops its connection keeps its files' handles, of no use any more.
LEMMA OwnersDropped ==
  ASSUME IInv, Owners, conn' = None, call' = None, pc' = pc,
         \A f \in Files : /\ fd'[f].h = fd[f].h /\ fd'[f].via = fd[f].via
                          /\ fd'[f].st = fd[f].st \/ fd'[f].st = "closed"
  PROVE  Owners'
<1>n. \A c \in Conns : conn' # c
  BY ConstantsAssumption
<1>1. CallsFit'
  BY DEF CallsFit
<1>2. ViasFit'
  BY DEF Owners, ViasFit
<1>3. NumbersDiffer'
  BY <1>n DEF Owners, NumbersDiffer
<1>4. \A c \in Conns : OwnedOn(c)' /\ StillThereOn(c)'
  BY <1>n DEF OwnedOn, StillThereOn
<1> QED
  BY <1>1, <1>2, <1>3, <1>4 DEF Owners

\* A failed call, or the end of the process, drops the connection.
LEMMA OwnersFailure ==
  ASSUME IInv, Owners, DialFails \/ SendFails \/ RecvFails \/ Exit
  PROVE  Owners'
<1>t. TypeOK
  BY DEF IInv
<1>1. conn' = None /\ call' = None /\ pc' = pc
  BY DEF DialFails, SendFails, RecvFails, Exit, Reset, Complete, sessionVars
<1>2. CASE Exit
  <2>1. \A f \in Files : /\ fd'[f].h = fd[f].h /\ fd'[f].via = fd[f].via
                         /\ fd'[f].st = "closed"
    BY <1>2, <1>t DEF Exit, TypeOK
  <2> QED
    BY <1>1, <2>1, OwnersDropped
<1>3. CASE DialFails \/ SendFails \/ RecvFails
  <2>1. Complete(FALSE, 0) /\ call # None
    BY <1>3 DEF DialFails, SendFails, RecvFails
  <2>2. call.m.op \in Ops /\ call.m.file \in Files
    BY <1>t, <2>1 DEF TypeOK, Outstanding, Request
  <2>3. \A f \in Files : /\ fd'[f].h = fd[f].h /\ fd'[f].via = fd[f].via
                         /\ fd'[f].st = fd[f].st \/ fd'[f].st = "closed"
    BY <1>t, <2>1, <2>2, CompleteExact
  <2> QED
    BY <1>1, <2>3, OwnersDropped
<1> QED
  BY <1>2, <1>3

\* Asking changes nothing that is open; a new connection has no handles yet.
LEMMA OwnersAsk ==
  ASSUME IInv, Tables, Owners,
         \/ \E f \in Files, op \in Ops, over \in BOOLEAN : Call(f, op, over)
         \/ Send \/ \E c \in Conns : Dial(c)
  PROVE  Owners'
<1>t. /\ conn \in Conns \cup {None} /\ call \in Outstanding \cup {None}
      /\ pc \in [Conns -> {"none", "read", "rpc", "wait", "ended"}]
  BY DEF IInv, TypeOK
<1>n. None \notin Outstanding
  BY NoneAssumption
<1>k. \A c \in Conns : /\ conn = c /\ (pc[c] \in {"rpc", "wait"} \/ rsp[c] # None) => Calling(c)
                       /\ pc[c] = "none" => rsp[c] = None
  BY DEF IInv, OneToken, TokenOn
<1>h. CallsFit /\ ViasFit /\ NumbersDiffer /\ \A c \in Conns : OwnedOn(c) /\ StillThereOn(c)
  BY DEF Owners
<1>1. CASE \E f \in Files, op \in Ops, over \in BOOLEAN : Call(f, op, over)
  <2>1. PICK f \in Files, op \in Ops, over \in BOOLEAN : Call(f, op, over)
    BY <1>1
  <2>2. /\ call = None /\ call'.m.op = op /\ call'.m.file = f /\ ~call'.sent
        /\ op = "open" => fd[f].st = "fresh"
        /\ op \in {"io", "close"} => fd[f].st = "open"
        /\ UNCHANGED <<conn, fd, rsp, pc, handles>>
    BY <2>1 DEF Call, legVars, sessionVars
  <2>3. CallsFit'
    BY <2>2 DEF CallsFit, ByHandle
  <2>4. ViasFit' /\ NumbersDiffer'
    BY <2>2, <1>h DEF ViasFit, NumbersDiffer, Opened
  <2>5. \A c \in Conns : OwnedOn(c)'
    BY <2>2, <1>h, <1>k DEF OwnedOn, Opened, Calling
  <2>6. \A c \in Conns : StillThereOn(c)'
    BY <2>2, <1>h DEF StillThereOn, Opened, HasHandle, OnlyConnection, Closing
  <2> QED
    BY <2>3, <2>4, <2>5, <2>6 DEF Owners
<1>2. CASE Send
  <2>1. /\ call # None /\ call' # None /\ call'.m = call.m /\ ~call.sent
        /\ UNCHANGED <<conn, fd, rsp, pc, handles>>
    BY <1>2, <1>t, <1>n DEF Send, sessionVars, Outstanding
  <2>2. CallsFit' /\ ViasFit' /\ NumbersDiffer'
    BY <2>1, <1>h DEF CallsFit, ViasFit, NumbersDiffer, Opened
  <2>3. \A c \in Conns : OwnedOn(c)'
    BY <2>1, <1>h DEF OwnedOn, Opened
  <2>4. \A c \in Conns : StillThereOn(c)'
    BY <2>1, <1>h DEF StillThereOn, Opened, HasHandle, OnlyConnection, Closing
  <2> QED
    BY <2>2, <2>3, <2>4 DEF Owners
<1>3. CASE \E c \in Conns : Dial(c)
  <2>1. PICK c \in Conns : Dial(c)
    BY <1>3
  <2>2. /\ conn' = c /\ pc[c] = "none" /\ pc'[c] = "read" /\ \A d \in Conns \ {c} : pc'[d] = pc[d]
        /\ ~call.sent /\ UNCHANGED <<call, fd, rsp, handles>>
    BY <2>1, <1>t DEF Dial
  <2>3. rsp[c] = None /\ DOMAIN handles[c] = {} /\ \A f \in Files : fd[f].via # c
    BY <2>2, <1>k, <1>h DEF Tables, TidyOn, ViasFit
  <2>4. CallsFit' /\ ViasFit'
    BY <2>2, <1>h DEF CallsFit, ViasFit
  <2>5. NumbersDiffer'
    BY <2>2, <2>3, <1>h DEF NumbersDiffer, Opened
  <2>6. \A d \in Conns : OwnedOn(d)' /\ StillThereOn(d)'
    BY <2>2, <2>3 DEF OwnedOn, StillThereOn, Opened
  <2> QED
    BY <2>4, <2>5, <2>6 DEF Owners
<1> QED
  BY <1>1, <1>2, <1>3

\* Every step keeps what the process has open and its handles fitting.
LEMMA OwnersPreserved ==
  ASSUME IInv, Tables, Owners, [Next]_vars
  PROVE  Owners'
<1>t. pc \in [Conns -> {"none", "read", "rpc", "wait", "ended"}]
  BY DEF IInv, TypeOK
<1>1. CASE Spawn \/ UNCHANGED vars
           \/ \E c \in Conns : HeirExits(c) \/ Cut(c) \/ ExecStep(c)
  <2>1. UNCHANGED <<clientVars, rsp, pc, handles>>
    BY <1>1, ExecEffects DEF Spawn, HeirExits, Cut, vars, legVars, sessionVars
  <2> QED
    BY <2>1, OwnersFrame
<1>2. ASSUME NEW c \in Conns, SessionStep(c)
      PROVE  Owners'
  <2>1. CASE conn = c
    BY <1>2, <2>1, OwnersSession
  <2>2. CASE conn # c
    <3>1. /\ UNCHANGED clientVars
          /\ \A d \in Conns \ {c} : pc'[d] = pc[d] /\ rsp'[d] = rsp[d] /\ handles'[d] = handles[d]
      BY <1>2, SessionFrame
    <3>2. pc'[c] # "none"
      BY <1>2, SessionEffects
      DEF SessionEffect, EndsOn, OpensHere, ClosesHere, AnswersHere, TakesUp, TakesUpClose,
          GoesOn, OpensThere, AnswersThere
    <3> QED
      BY <2>2, <3>1, <3>2, OwnersFrame
  <2> QED
    BY <2>1, <2>2
<1>3. CASE DialFails \/ SendFails \/ RecvFails \/ Exit
  BY <1>3, OwnersFailure
<1>4. CASE \/ \E f \in Files, op \in Ops, over \in BOOLEAN : Call(f, op, over)
           \/ Send \/ \E c \in Conns : Dial(c)
  BY <1>4, OwnersAsk
<1>5. CASE Recv
  BY <1>5, OwnersRecv
<1> QED
  BY <1>1, <1>2, <1>3, <1>4, <1>5 DEF Next, ClientStep

\* The process starts with nothing open.
LEMMA OwnersInit == Init => Owners
<1> SUFFICES ASSUME Init
             PROVE  Owners
  OBVIOUS
<1>1. /\ call = None /\ conn = None
      /\ \A f \in Files : fd[f].st = "fresh" /\ fd[f].via = None
      /\ \A c \in Conns : conn # c /\ c # None
  BY ConstantsAssumption DEF Init
<1>2. CallsFit /\ ViasFit /\ NumbersDiffer
  BY <1>1 DEF CallsFit, ViasFit, NumbersDiffer
<1>3. \A c \in Conns : OwnedOn(c) /\ StillThereOn(c)
  BY <1>1 DEF OwnedOn, StillThereOn
<1> QED
  BY <1>2, <1>3 DEF Owners

\* What the process has open and the handles of its connection fit.
THEOREM OwnersHold == Spec => []Owners
<1>1. Init => Owners
  BY OwnersInit
<1>2. IInv /\ Tables /\ Owners /\ [Next]_vars => Owners'
  BY OwnersPreserved
<1> QED
  BY <1>1, <1>2, Invariant, TablesHold, PTL DEF Spec

\* Nothing leaks while a connection lives: the brain's open files are exactly those
\* behind the session's handles, the executor's those plus the one in transit, and
\* every handle is a file's the process holds (session.open, byHandle,
\* FSService.close).
THEOREM NoLeakHolds == Spec => []NoLeak
<1>1. Tables /\ Owners => NoLeak
  <2> SUFFICES ASSUME Tables, Owners, NEW c \in Conns, Live(c)
               PROVE  /\ DOMAIN lfs[c].open = Reals(c, FALSE)
                      /\ strm[c] = "up" =>
                           DOMAIN xfs[c].open = Reals(c, TRUE) \cup InTransit(c)
                      /\ conn = c =>
                           \A h \in DOMAIN handles[c] :
                             \/ \E f \in Files :
                                  fd[f].st = "open" /\ fd[f].via = c /\ fd[f].h = h
                             \/ rsp[c] # None /\ rsp[c].ok /\ rsp[c].h = h
    BY DEF NoLeak
  <2>1. TidyOn(c) /\ OwnedOn(c) /\ pc[c] # "ended"
    BY DEF Tables, Owners, Live
  <2> QED
    BY <2>1 DEF TidyOn, OwnedOn, Opened
<1> QED
  BY <1>1, TablesHold, OwnersHold, PTL

\* An open file whose session and stream have not broken still resolves, through
\* both tables, to the file it was opened as (session.byHandle, FSService).
THEOREM OpenStaysOpenHolds == Spec => []OpenStaysOpen
<1>1. IInv /\ Tables /\ Owners => OpenStaysOpen
  <2> SUFFICES ASSUME IInv, Tables, Owners, NEW f \in Files, NEW c, c = fd[f].via,
                      fd[f].st = "open", c # None, Live(c), OnlyConnection(c), ~Closing(f),
                      conn = c, f \in RemoteFiles => strm[c] = "up"
               PROVE  /\ fd[f].h \in DOMAIN handles[c]
                      /\ handles[c][fd[f].h].remote = (f \in RemoteFiles)
                      /\ LET s == IF handles[c][fd[f].h].remote THEN xfs[c] ELSE lfs[c] IN
                           /\ handles[c][fd[f].h].real \in DOMAIN s.open
                           /\ s.open[handles[c][fd[f].h].real] = f
    BY DEF OpenStaysOpen, Closing
  <2>1. c \in Conns
    BY DEF IInv, TypeOK
  <2> DEFINE h == fd[f].h
  <2>2. h \in DOMAIN handles[c] /\ (handles[c][h].remote <=> f \in RemoteFiles)
    BY <2>1 DEF Owners, StillThereOn, HasHandle, Live
  <2>3. handles[c][h].remote \in BOOLEAN
    BY <2>1, <2>2 DEF IInv, TypeOK, IsTable, HandleRef
  <2>4. Resolve(c, h) \in {f, None}
    BY <2>1, <2>2 DEF IInv, OwnersKept, Issued, Means
  <2>5. TidyOn(c) /\ pc[c] # "ended"
    BY <2>1 DEF Tables, Live
  <2>6. /\ \A r \in DOMAIN xfs[c].open : xfs[c].open[r] \in Files
        /\ \A r \in DOMAIN lfs[c].open : lfs[c].open[r] \in Files
    BY <2>1 DEF IInv, TypeOK, IsService, IsTable
  <2>7. handles[c][h].real \in Reals(c, handles[c][h].remote)
    BY <2>2 DEF Reals
  <2>8. CASE handles[c][h].remote
    <3>1. handles[c][h].real \in DOMAIN xfs[c].open
      BY <2>2, <2>3, <2>5, <2>7, <2>8 DEF TidyOn
    <3> QED
      BY <2>2, <2>3, <2>4, <2>6, <2>8, <3>1, ConstantsAssumption DEF Resolve
  <2>9. CASE ~handles[c][h].remote
    <3>1. handles[c][h].real \in DOMAIN lfs[c].open
      BY <2>2, <2>3, <2>5, <2>7, <2>9 DEF TidyOn
    <3> QED
      BY <2>2, <2>3, <2>4, <2>6, <2>9, <3>1, ConstantsAssumption DEF Resolve
  <2> QED
    BY <2>8, <2>9
<1> QED
  BY <1>1, Invariant, TablesHold, OwnersHold, PTL
=============================================================================

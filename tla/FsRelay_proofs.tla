-------------------------- MODULE FsRelay_proofs ---------------------------
(* Proofs about FsRelay: types, lockstep and handle fidelity.              *)
EXTENDS FsRelay, TLAPS

----------------------------------------------------------------------------
(* Handle tables.                                                          *)

\* Adding an entry to a handle table keeps it one, and disturbs no other entry.
LEMMA PutTable ==
  ASSUME NEW S, NEW t, IsTable(t, S), NEW k \in Nat, NEW v \in S
  PROVE  /\ IsTable(Put(t, k, v), S)
         /\ DOMAIN Put(t, k, v) = DOMAIN t \cup {k}
         /\ Put(t, k, v)[k] = v
         /\ \A x \in DOMAIN t : x # k => Put(t, k, v)[x] = t[x]
BY DEF IsTable, Put

\* Removing an entry keeps a handle table one, and disturbs no other entry.
LEMMA DropTable ==
  ASSUME NEW S, NEW t, IsTable(t, S), NEW k
  PROVE  /\ IsTable(Drop(t, k), S)
         /\ DOMAIN Drop(t, k) = DOMAIN t \ {k}
         /\ \A x \in DOMAIN Drop(t, k) : Drop(t, k)[x] = t[x]
BY DEF IsTable, Drop, Restrict

\* A table in which what was issued stays what it was, or goes away.
SvcEvolves(s, t) ==
  /\ t.next >= s.next
  /\ \A r \in DOMAIN t.open : r < s.next => r \in DOMAIN s.open /\ t.open[r] = s.open[r]

\* What one request does to an FSService: it stays one, answers that request,
\* keeps the meaning of every handle issued, and a success by handle acted on
\* the file behind the handle.
LEMMA HandleOutcome ==
  ASSUME NEW s, IsService(s), NEW m \in Request, NEW o \in Handle(s, m)
  PROVE  /\ IsService(o.fs)
         /\ o.resp \in Response
         /\ o.resp.req = m
         /\ SvcEvolves(s, o.fs)
         /\ o.resp.ok /\ m.op = "open" =>
              /\ o.resp.h = s.next /\ o.fs.next = s.next + 1
              /\ o.resp.h \in DOMAIN o.fs.open => o.fs.open[o.resp.h] = m.file
         /\ o.resp.ok /\ ByHandle(m) =>
              m.h \in DOMAIN s.open /\ o.resp.hit = s.open[m.h]
<1> USE DEF IsService
<1>s. /\ s = [open |-> s.open, next |-> s.next]
      /\ IsTable(s.open, Files) /\ s.next \in Nat
  OBVIOUS
<1>m. /\ m.op \in Ops /\ m.file \in Files /\ m.h \in Nat
      /\ Fail(m) \in Response /\ Fail(m).req = m /\ ~Fail(m).ok
      /\ \A h \in Nat, f \in Files :
           /\ Done(m, h, f) \in Response /\ Done(m, h, f).req = m
           /\ Done(m, h, f).h = h /\ Done(m, h, f).hit = f
  BY DEF Request, Response, Fail, Done
<1>t. \A h \in DOMAIN s.open : s.open[h] \in Files
  BY DEF IsTable
<1>same. SvcEvolves(s, s)
  BY DEF SvcEvolves
<1>1. CASE m.op = "open"
  <2>1. o \in OpenFile(s, m)
    BY <1>1 DEF Handle
  <2>2. CASE o = [fs |-> s, resp |-> Fail(m)]
    BY <2>2, <1>1, <1>m, <1>same DEF ByHandle
  <2>3. CASE o = [fs |-> [open |-> Put(s.open, s.next, m.file), next |-> s.next + 1],
                  resp |-> Done(m, s.next, m.file)]
    <3>1. o.fs = [open |-> Put(s.open, s.next, m.file), next |-> s.next + 1]
      BY <2>3
    <3>p. /\ IsTable(Put(s.open, s.next, m.file), Files)
          /\ DOMAIN Put(s.open, s.next, m.file) = DOMAIN s.open \cup {s.next}
          /\ Put(s.open, s.next, m.file)[s.next] = m.file
          /\ \A x \in DOMAIN s.open :
               x # s.next => Put(s.open, s.next, m.file)[x] = s.open[x]
      BY <1>s, <1>m, PutTable
    <3>2. IsService(o.fs)
      BY <3>1, <3>p, <1>s
    <3>3. SvcEvolves(s, o.fs)
      BY <3>1, <3>p, <1>s DEF SvcEvolves
    <3>4. o.fs.open[s.next] = m.file
      BY <3>1, <3>p
    <3>. QED BY <2>3, <3>2, <3>3, <3>4, <1>1, <1>s, <1>m DEF ByHandle
  <2>. QED BY <2>1, <2>2, <2>3 DEF OpenFile
<1>2. CASE m.op = "io"
  <2>1. o \in UseFile(s, m)
    BY <1>2 DEF Handle
  <2>2. o.fs = s
    BY <2>1 DEF UseFile
  <2>3. \/ o.resp = Fail(m)
        \/ m.h \in DOMAIN s.open /\ o.resp = Done(m, 0, s.open[m.h])
    BY <2>1 DEF UseFile
  <2>. QED BY <2>2, <2>3, <1>2, <1>m, <1>t, <1>same DEF ByHandle
<1>3. CASE m.op = "close"
  <2>1. o \in CloseFile(s, m)
    BY <1>3 DEF Handle
  <2>2. o.fs = s \/ o.fs = [s EXCEPT !.open = Drop(s.open, m.h)]
    BY <2>1 DEF CloseFile
  <2>3. \/ o.resp = Fail(m)
        \/ m.h \in DOMAIN s.open /\ o.resp = Done(m, 0, s.open[m.h])
    BY <2>1 DEF CloseFile
  <2>d. /\ IsTable(Drop(s.open, m.h), Files)
        /\ DOMAIN Drop(s.open, m.h) = DOMAIN s.open \ {m.h}
        /\ \A x \in DOMAIN Drop(s.open, m.h) : Drop(s.open, m.h)[x] = s.open[x]
    BY <1>s DEF IsTable, Drop, Restrict
  <2>4. CASE o.fs = [s EXCEPT !.open = Drop(s.open, m.h)]
    <3>1. o.fs = [open |-> Drop(s.open, m.h), next |-> s.next]
      BY <2>4, <1>s
    <3>2. IsService(o.fs)
      BY <3>1, <2>d, <1>s
    <3>3. SvcEvolves(s, o.fs)
      BY <3>1, <2>d, <1>s DEF SvcEvolves
    <3>. QED BY <3>2, <3>3, <2>3, <1>3, <1>m, <1>t DEF ByHandle
  <2>. QED BY <2>2, <2>3, <2>4, <1>3, <1>m, <1>t, <1>same DEF ByHandle
<1>4. CASE m.op = "path"
  <2>1. o \in UsePath(s, m)
    BY <1>4 DEF Handle
  <2>. QED BY <2>1, <1>4, <1>m, <1>same DEF UsePath, ByHandle
<1>. QED BY <1>1, <1>2, <1>3, <1>4, <1>m DEF Ops

----------------------------------------------------------------------------
(* The effect of the session's and the executor's building blocks.         *)

\* Ending an FSService closes its files and forgets no number.
LEMMA CloseAllService ==
  ASSUME NEW s, IsService(s)
  PROVE  IsService(CloseAll(s)) /\ SvcEvolves(s, CloseAll(s)) /\ CloseAll(s).next = s.next
<1>1. s = [open |-> s.open, next |-> s.next] /\ s.next \in Nat
  BY DEF IsService
<1>2. CloseAll(s) = [open |-> Empty, next |-> s.next]
  BY <1>1 DEF CloseAll
<1>3. IsTable(Empty, Files)
  BY DEF IsTable, Empty
<1>. QED BY <1>1, <1>2, <1>3 DEF IsService, SvcEvolves, Empty

\* A table of services stays one when one service is replaced by another.
LEMMA ServiceUpdate ==
  ASSUME NEW g, g = [c \in Conns |-> g[c]], \A c \in Conns : IsService(g[c]),
         NEW c \in Conns, NEW s, IsService(s)
  PROVE  /\ [g EXCEPT ![c] = s] = [d \in Conns |-> [g EXCEPT ![c] = s][d]]
         /\ [g EXCEPT ![c] = s][c] = s
         /\ \A d \in Conns : IsService([g EXCEPT ![c] = s][d])
         /\ \A d \in Conns \ {c} : [g EXCEPT ![c] = s][d] = g[d]
OBVIOUS

\* What session.close leaves.
LEMMA CloseEffect ==
  ASSUME TypeOK, NEW c \in Conns, NEW fs, IsService(fs), Close(c, fs)
  PROVE  /\ pc' \in [Conns -> {"none", "read", "rpc", "wait", "ended"}]
         /\ strm' \in [Conns -> {"none", "up", "cut"}]
         /\ rsp' = rsp
         /\ pc'[c] = "ended"
         /\ strm'[c] = IF strm[c] = "up" THEN "cut" ELSE strm[c]
         /\ lfs' = [d \in Conns |-> lfs'[d]] /\ \A d \in Conns : IsService(lfs'[d])
         /\ SvcEvolves(fs, lfs'[c])
         /\ \A d \in Conns \ {c} :
              pc'[d] = pc[d] /\ strm'[d] = strm[d] /\ lfs'[d] = lfs[d]
<1>1. /\ lfs = [d \in Conns |-> lfs[d]] /\ \A d \in Conns : IsService(lfs[d])
  BY DEF TypeOK
<1>2. /\ lfs' = [d \in Conns |-> lfs'[d]] /\ \A d \in Conns : IsService(lfs'[d])
      /\ lfs'[c] = CloseAll(fs)
      /\ \A d \in Conns \ {c} : lfs'[d] = lfs[d]
  BY <1>1, CloseAllService, ServiceUpdate DEF Close
<1>. QED BY <1>2, CloseAllService DEF Close, TypeOK

\* What SendResponse leaves: an answer and a session that reads on, or neither.
LEMMA ReplyEffect ==
  ASSUME TypeOK, NEW c \in Conns, NEW r \in Response, NEW fs, IsService(fs),
         Reply(c, r, fs)
  PROVE  /\ pc' \in [Conns -> {"none", "read", "rpc", "wait", "ended"}]
         /\ strm' \in [Conns -> {"none", "up", "cut"}]
         /\ rsp' \in [Conns -> Response \cup {None}]
         /\ \/ pc'[c] = "read" /\ rsp'[c] = r /\ strm'[c] = strm[c]
            \/ /\ pc'[c] = "ended" /\ rsp'[c] = rsp[c]
               /\ strm'[c] = IF strm[c] = "up" THEN "cut" ELSE strm[c]
         /\ lfs' = [d \in Conns |-> lfs'[d]] /\ \A d \in Conns : IsService(lfs'[d])
         /\ SvcEvolves(fs, lfs'[c])
         /\ \A d \in Conns \ {c} :
              pc'[d] = pc[d] /\ strm'[d] = strm[d] /\ lfs'[d] = lfs[d] /\ rsp'[d] = rsp[d]
<1>1. CASE holders[c] # {} /\ ResponseFits(r)
  <2>1. /\ lfs = [d \in Conns |-> lfs[d]] /\ \A d \in Conns : IsService(lfs[d])
    BY DEF TypeOK
  <2>2. /\ lfs' = [d \in Conns |-> lfs'[d]] /\ \A d \in Conns : IsService(lfs'[d])
        /\ lfs'[c] = fs
        /\ \A d \in Conns \ {c} : lfs'[d] = lfs[d]
    BY <1>1, <2>1, ServiceUpdate DEF Reply
  <2>3. SvcEvolves(fs, fs)
    BY DEF SvcEvolves, IsService
  <2>4. /\ rsp' = [rsp EXCEPT ![c] = r] /\ pc' = [pc EXCEPT ![c] = "read"]
        /\ strm' = strm
    BY <1>1 DEF Reply
  <2>5. /\ rsp \in [Conns -> Response \cup {None}]
        /\ pc \in [Conns -> {"none", "read", "rpc", "wait", "ended"}]
        /\ strm \in [Conns -> {"none", "up", "cut"}]
    BY DEF TypeOK
  <2>6. /\ rsp' \in [Conns -> Response \cup {None}]
        /\ pc' \in [Conns -> {"none", "read", "rpc", "wait", "ended"}]
        /\ strm' \in [Conns -> {"none", "up", "cut"}]
        /\ pc'[c] = "read" /\ rsp'[c] = r /\ strm'[c] = strm[c]
        /\ \A d \in Conns \ {c} : pc'[d] = pc[d] /\ strm'[d] = strm[d] /\ rsp'[d] = rsp[d]
    BY <2>4, <2>5
  <2>. QED BY <2>2, <2>3, <2>6
<1>2. CASE ~(holders[c] # {} /\ ResponseFits(r))
  <2>1. Close(c, fs)
    BY <1>2 DEF Reply
  <2>. QED BY <2>1, CloseEffect DEF TypeOK
<1>. QED BY <1>1, <1>2

\* What recording an answered open in the session's table leaves.
LEMMA RegisterEffect ==
  ASSUME TypeOK, NEW c \in Conns, NEW remote \in BOOLEAN, NEW r \in Response,
         Register(c, remote, r)
  PROVE  /\ next' \in [Conns -> Nat]
         /\ handles' = [d \in Conns |-> handles'[d]]
         /\ \A d \in Conns : IsTable(handles'[d], HandleRef)
         /\ \A d \in Conns \ {c} : next'[d] = next[d] /\ handles'[d] = handles[d]
         /\ \A h \in DOMAIN handles[c] :
              h # next[c] => h \in DOMAIN handles'[c] /\ handles'[c][h] = handles[c][h]
         /\ r.req.op = "open" /\ r.ok =>
              /\ next'[c] = next[c] + 1
              /\ DOMAIN handles'[c] = DOMAIN handles[c] \cup {next[c]}
              /\ handles'[c][next[c]] = [remote |-> remote, real |-> r.h]
         /\ ~(r.req.op = "open" /\ r.ok) => next' = next /\ handles' = handles
<1>1. CASE r.req.op = "open" /\ r.ok
  <2> DEFINE ref == [remote |-> remote, real |-> r.h]
             t == Put(handles[c], next[c], ref)
  <2>1. ref \in HandleRef
    BY DEF HandleRef, Response
  <2>2. IsTable(handles[c], HandleRef) /\ next[c] \in Nat
    BY DEF TypeOK
  <2>3. /\ IsTable(t, HandleRef)
        /\ DOMAIN t = DOMAIN handles[c] \cup {next[c]}
        /\ t[next[c]] = ref
        /\ \A x \in DOMAIN handles[c] : x # next[c] => t[x] = handles[c][x]
    <3>. HIDE DEF ref
    <3>. QED BY <2>1, <2>2 DEF IsTable, Put
  <2>4. handles' = [handles EXCEPT ![c] = t] /\ next' = [next EXCEPT ![c] = @ + 1]
    BY <1>1 DEF Register
  <2>5. handles = [d \in Conns |-> handles[d]] /\ \A d \in Conns : IsTable(handles[d], HandleRef)
    BY DEF TypeOK
  <2>. HIDE DEF t
  <2>. QED BY <1>1, <2>2, <2>3, <2>4, <2>5 DEF TypeOK
<1>2. CASE ~(r.req.op = "open" /\ r.ok)
  BY <1>2 DEF Register, TypeOK
<1>. QED BY <1>1, <1>2

----------------------------------------------------------------------------
(* Type correctness.                                                       *)

\* The types hold initially.
LEMMA TypeInit == Init => TypeOK
<1>1. IsTable(Empty, HandleRef) /\ IsService(NewFSService)
  BY DEF IsTable, Empty, IsService, NewFSService
<1>. QED BY <1>1 DEF Init, TypeOK

\* Completing a call keeps the client's types.
LEMMA CompleteType ==
  ASSUME TypeOK, NEW ok \in BOOLEAN, NEW h \in Nat, call # None, conn # None \/ ~ok,
         Complete(ok, h)
  PROVE  /\ call' = None
         /\ fd' \in [Files -> [st : {"fresh", "open", "closed"}, h : Nat,
                               via : Conns \cup {None}]]
<1>1. call.m.file \in Files
  BY DEF TypeOK, Outstanding, Request
<1>2. /\ fd \in [Files -> [st : {"fresh", "open", "closed"}, h : Nat,
                            via : Conns \cup {None}]]
      /\ conn \in Conns \cup {None}
  BY DEF TypeOK
<1>3. \/ fd' = [fd EXCEPT ![call.m.file] = [st |-> "open", h |-> h, via |-> conn]]
      \/ fd' = [fd EXCEPT ![call.m.file].st = "closed"]
      \/ fd' = fd
  BY DEF Complete
<1>. QED BY <1>1, <1>2, <1>3 DEF Complete

\* The types are preserved by every step of the client.
LEMMA ClientTypes ==
  ASSUME IInv,
         \/ \E f \in Files, op \in Ops, over \in BOOLEAN : Call(f, op, over)
         \/ ClientStep \/ Spawn \/ Exit
  PROVE  TypeOK'
<1> USE DEF clientVars, legVars, sessionVars, remoteVars, execVars
<1>t. TypeOK
  BY DEF IInv
<1>c. call # None /\ call.sent => conn # None
  BY DEF IInv, OneToken
<1>1. CASE \E f \in Files, op \in Ops, over \in BOOLEAN : Call(f, op, over)
  <2>1. PICK f \in Files, op \in Ops, over \in BOOLEAN : Call(f, op, over)
    BY <1>1
  <2>2. fd[f].h \in Nat
    BY <1>t DEF TypeOK
  <2>3. call' \in Outstanding
    BY <2>1, <2>2 DEF Call, Outstanding, Request
  <2>. QED BY <2>1, <2>3, <1>t DEF Call, TypeOK
<1>2. ASSUME NEW c \in Conns, Dial(c) PROVE TypeOK'
  BY <1>2, <1>t DEF Dial, TypeOK
<1>3. CASE DialFails
  BY <1>3, <1>t, CompleteType DEF DialFails, TypeOK
<1>4. CASE Send
  BY <1>4, <1>t DEF Send, TypeOK, Outstanding
<1>5. CASE SendFails
  BY <1>5, <1>t, CompleteType DEF SendFails, Reset, TypeOK
<1>6. CASE Recv
  <2>1. conn \in Conns /\ rsp[conn] \in Response
    BY <1>6, <1>t, <1>c DEF Recv, TypeOK
  <2>2. rsp[conn].ok \in BOOLEAN /\ rsp[conn].h \in Nat
    BY <2>1 DEF Response
  <2>. QED BY <1>6, <2>1, <2>2, <1>t, CompleteType, ConstantsAssumption DEF Recv, TypeOK
<1>7. CASE RecvFails
  BY <1>7, <1>t, <1>c, CompleteType DEF RecvFails, Reset, TypeOK
<1>8. CASE Spawn
  BY <1>8, <1>t DEF Spawn, TypeOK
<1>9. CASE Exit
  <2>1. fd \in [Files -> [st : {"fresh", "open", "closed"}, h : Nat,
                          via : Conns \cup {None}]]
    BY <1>t DEF TypeOK
  <2>2. fd' \in [Files -> [st : {"fresh", "open", "closed"}, h : Nat,
                           via : Conns \cup {None}]]
    BY <1>9, <2>1 DEF Exit
  <2>3. holders' \in [Conns -> SUBSET {"client", "heir"}]
    BY <1>9, <1>t DEF Exit, TypeOK
  <2>. QED BY <1>9, <2>2, <2>3, <1>t DEF Exit, TypeOK
<1>. QED BY <1>1, <1>2, <1>3, <1>4, <1>5, <1>6, <1>7, <1>8, <1>9 DEF ClientStep

\* An answer carrying the adapter's handle is still a response to its request.
LEMMA WrapType ==
  ASSUME TypeOK, NEW c \in Conns, NEW r \in Response
  PROVE  /\ Wrap(c, r) \in Response
         /\ Wrap(c, r).req = r.req /\ Wrap(c, r).ok = r.ok /\ Wrap(c, r).hit = r.hit
         /\ r.req.op = "open" /\ r.ok => Wrap(c, r).h = next[c]
<1>1. next[c] \in Nat
  BY DEF TypeOK
<1>. QED BY <1>1 DEF Wrap, Response

\* A refusal is a response to its request.
LEMMA FailType ==
  ASSUME NEW m \in Request
  PROVE  Fail(m) \in Response /\ Fail(m).req = m /\ ~Fail(m).ok
BY DEF Fail, Response

\* What byHandle leaves of the handle table.
LEMMA ForgetEffect ==
  ASSUME TypeOK, NEW c \in Conns, Forget(c)
  PROVE  /\ handles' = [d \in Conns |-> handles'[d]]
         /\ \A d \in Conns : IsTable(handles'[d], HandleRef)
         /\ \A d \in Conns \ {c} : handles'[d] = handles[d]
         /\ \A h \in DOMAIN handles'[c] :
              h \in DOMAIN handles[c] /\ handles'[c][h] = handles[c][h]
<1>1. /\ handles = [d \in Conns |-> handles[d]]
      /\ \A d \in Conns : IsTable(handles[d], HandleRef)
  BY DEF TypeOK
<1>2. CASE req[c].op = "close"
  <2> DEFINE t == Drop(handles[c], req[c].h)
  <2>1. /\ IsTable(t, HandleRef)
        /\ \A h \in DOMAIN t : h \in DOMAIN handles[c] /\ t[h] = handles[c][h]
    BY <1>1 DEF IsTable, Drop, Restrict
  <2>2. handles' = [handles EXCEPT ![c] = t]
    BY <1>2 DEF Forget
  <2>. HIDE DEF t
  <2>. QED BY <1>1, <2>1, <2>2
<1>3. CASE req[c].op # "close"
  BY <1>1, <1>3 DEF Forget
<1>. QED BY <1>2, <1>3

\* The types are preserved by every step of a session.
LEMMA SessionTypes ==
  ASSUME IInv, NEW c \in Conns, SessionStep(c)
  PROVE  TypeOK'
<1> USE DEF clientVars, legVars, sessionVars, remoteVars, execVars
<1>t. TypeOK
  BY DEF IInv
<1>s. IsService(lfs[c])
  BY <1>t DEF TypeOK
<1>r. Readable(c) => req[c] \in Request
  BY <1>t DEF Readable, TypeOK
<1>j. pc[c] \in {"rpc", "wait"} => job[c] \in Request
  BY <1>t DEF TypeOK, IInv, OneRelayed, RelayedOn
<1>w. \A m \in Request, ref \in HandleRef : Rewrite(m, ref) \in Request
  BY DEF Rewrite, Request, HandleRef
<1>h. \A h \in DOMAIN handles[c] : handles[c][h] \in HandleRef
  BY <1>t DEF TypeOK, IsTable
<1>1. CASE ServeLocal(c)
  <2>1. PICK o \in Handle(lfs[c], req[c]) :
          Register(c, FALSE, o.resp) /\ Reply(c, Wrap(c, o.resp), o.fs)
    BY <1>1 DEF ServeLocal
  <2>2. o.resp \in Response /\ IsService(o.fs)
    BY <1>1, <1>r, <1>s, HandleOutcome DEF ServeLocal
  <2>3. Wrap(c, o.resp) \in Response
    BY <1>t, <2>2, WrapType
  <2>4. /\ pc' \in [Conns -> {"none", "read", "rpc", "wait", "ended"}]
        /\ strm' \in [Conns -> {"none", "up", "cut"}]
        /\ rsp' \in [Conns -> Response \cup {None}]
        /\ lfs' = [d \in Conns |-> lfs'[d]] /\ \A d \in Conns : IsService(lfs'[d])
    BY <1>t, <2>1, <2>2, <2>3, ReplyEffect
  <2>5. /\ next' \in [Conns -> Nat]
        /\ handles' = [d \in Conns |-> handles'[d]]
        /\ \A d \in Conns : IsTable(handles'[d], HandleRef)
    BY <1>t, <2>1, <2>2, RegisterEffect
  <2>6. /\ req' \in [Conns -> Request \cup {None}]
        /\ UNCHANGED <<clientVars, holders, job, xreq, execVars>>
    BY <1>1, <1>t DEF ServeLocal, TypeOK
  <2>. QED BY <1>t, <2>4, <2>5, <2>6, <1>1 DEF ServeLocal, TypeOK
<1>2. CASE ServeLocalHandle(c)
  <2> DEFINE m == Rewrite(req[c], handles[c][req[c].h])
  <2>1. PICK o \in Handle(lfs[c], m) : Reply(c, o.resp, o.fs)
    BY <1>2 DEF ServeLocalHandle
  <2>2. m \in Request
    BY <1>2, <1>r, <1>w, <1>h DEF ServeLocalHandle
  <2>. HIDE DEF m
  <2>3. o.resp \in Response /\ IsService(o.fs)
    BY <2>2, <1>s, HandleOutcome
  <2>4. Forget(c)
    BY <1>2 DEF ServeLocalHandle
  <2>. QED BY <1>2, <1>t, <2>1, <2>3, <2>4, ReplyEffect, ForgetEffect
           DEF ServeLocalHandle, TypeOK
<1>3. CASE Refuse(c)
  <2>1. Fail(req[c]) \in Response
    BY <1>3, <1>r, FailType DEF Refuse
  <2>. QED BY <1>3, <1>t, <1>s, <2>1, ReplyEffect DEF Refuse, TypeOK
<1>4. CASE Relay(c)
  <2>1. job' \in [Conns -> Request \cup {None}]
    <3>1. \E m \in Request : job' = [job EXCEPT ![c] = m]
      BY <1>4, <1>r, <1>w, <1>h DEF Relay
    <3>. QED BY <3>1, <1>t DEF TypeOK
  <2>2. UNCHANGED handles \/ Forget(c)
    BY <1>4 DEF Relay
  <2>3. /\ handles' = [d \in Conns |-> handles'[d]]
        /\ \A d \in Conns : IsTable(handles'[d], HandleRef)
    BY <2>2, <1>t, ForgetEffect DEF TypeOK
  <2>. QED BY <1>4, <1>t, <2>1, <2>3 DEF Relay, TypeOK
<1>5. CASE ReadFails(c)
  BY <1>5, <1>t, <1>s, CloseEffect DEF ReadFails, TypeOK
<1>6. CASE RemoteDial(c)
  BY <1>6, <1>t DEF RemoteDial, TypeOK
<1>7. CASE RemoteSend(c)
  BY <1>7, <1>t, <1>j DEF RemoteSend, TypeOK
<1>8. CASE RemoteFails(c)
  <2>1. Fail(job[c]) \in Response
    BY <1>8, <1>j, FailType DEF RemoteFails
  <2>. QED BY <1>8, <1>t, <1>s, <2>1, ReplyEffect DEF RemoteFails, TypeOK
<1>9. CASE RemoteRecv(c)
  <2>1. xrsp[c] \in Response
    BY <1>9, <1>t DEF RemoteRecv, TypeOK
  <2>2. Wrap(c, xrsp[c]) \in Response
    BY <1>t, <2>1, WrapType
  <2>3. /\ Register(c, TRUE, xrsp[c])
        /\ Reply(c, Wrap(c, xrsp[c]), lfs[c])
    BY <1>9 DEF RemoteRecv
  <2>4. /\ pc' \in [Conns -> {"none", "read", "rpc", "wait", "ended"}]
        /\ strm' \in [Conns -> {"none", "up", "cut"}]
        /\ rsp' \in [Conns -> Response \cup {None}]
        /\ lfs' = [d \in Conns |-> lfs'[d]] /\ \A d \in Conns : IsService(lfs'[d])
    BY <1>t, <1>s, <2>2, <2>3, ReplyEffect
  <2>5. /\ next' \in [Conns -> Nat]
        /\ handles' = [d \in Conns |-> handles'[d]]
        /\ \A d \in Conns : IsTable(handles'[d], HandleRef)
    BY <1>t, <2>1, <2>3, RegisterEffect
  <2>. QED BY <1>t, <2>4, <2>5, <1>9 DEF RemoteRecv, TypeOK
<1>10. CASE RemoteRecvFails(c)
  <2>1. Fail(job[c]) \in Response
    BY <1>10, <1>j, FailType DEF RemoteRecvFails
  <2>. QED BY <1>10, <1>t, <1>s, <2>1, ReplyEffect DEF RemoteRecvFails, TypeOK
<1>. QED BY <1>1, <1>2, <1>3, <1>4, <1>5, <1>6, <1>7, <1>8, <1>9, <1>10
         DEF SessionStep

\* The types are preserved by every step of the executor and the environment.
LEMMA OtherTypes ==
  ASSUME IInv, NEW c \in Conns, ExecStep(c) \/ HeirExits(c) \/ Cut(c)
  PROVE  TypeOK'
<1> USE DEF clientVars, legVars, sessionVars, remoteVars, execVars
<1>t. TypeOK
  BY DEF IInv
<1>s. IsService(xfs[c]) /\ xfs = [d \in Conns |-> xfs[d]] /\ \A d \in Conns : IsService(xfs[d])
  BY <1>t DEF TypeOK
<1>e. ASSUME NEW fs, IsService(fs), ExecEnd(c, fs)
      PROVE  /\ xpc' \in [Conns -> {"none", "serving", "ended"}]
             /\ strm' \in [Conns -> {"none", "up", "cut"}]
             /\ xfs' = [d \in Conns |-> xfs'[d]] /\ \A d \in Conns : IsService(xfs'[d])
  BY <1>e, <1>s, <1>t, CloseAllService, ServiceUpdate DEF ExecEnd, TypeOK
<1>1. CASE ExecServe(c)
  <2>1. xreq[c] \in Request
    BY <1>1, <1>t DEF ExecServe, TypeOK
  <2>2. PICK o \in Handle(xfs[c], xreq[c]) :
          \/ /\ xrsp' = [xrsp EXCEPT ![c] = o.resp]
             /\ xfs' = [xfs EXCEPT ![c] = o.fs]
             /\ UNCHANGED <<strm, xpc>>
          \/ ExecEnd(c, o.fs) /\ UNCHANGED xrsp
    BY <1>1 DEF ExecServe
  <2>3. o.resp \in Response /\ IsService(o.fs)
    BY <2>1, <1>s, HandleOutcome
  <2>4. CASE ExecEnd(c, o.fs) /\ UNCHANGED xrsp
    BY <2>4, <2>3, <1>e, <1>1, <1>t DEF ExecServe, TypeOK
  <2>5. CASE /\ xrsp' = [xrsp EXCEPT ![c] = o.resp]
             /\ xfs' = [xfs EXCEPT ![c] = o.fs]
             /\ UNCHANGED <<strm, xpc>>
    <3>1. xfs' = [d \in Conns |-> xfs'[d]] /\ \A d \in Conns : IsService(xfs'[d])
      BY <2>5, <2>3, <1>s, ServiceUpdate
    <3>. QED BY <3>1, <2>5, <2>3, <1>1, <1>t DEF ExecServe, TypeOK
  <2>. QED BY <2>2, <2>4, <2>5
<1>2. CASE ExecReadFails(c)
  BY <1>2, <1>s, <1>e, <1>t DEF ExecReadFails, TypeOK
<1>3. CASE HeirExits(c)
  BY <1>3, <1>t DEF HeirExits, TypeOK
<1>4. CASE Cut(c)
  BY <1>4, <1>t DEF Cut, TypeOK
<1>. QED BY <1>1, <1>2, <1>3, <1>4 DEF ExecStep

----------------------------------------------------------------------------
(* Frames.                                                                 *)

\* A session's step leaves the client and every other connection alone.
LEMMA SessionFrame ==
  ASSUME IInv, NEW c \in Conns, SessionStep(c)
  PROVE  /\ UNCHANGED clientVars /\ holders' = holders /\ xfs' = xfs
         /\ xpc' \in {xpc, [xpc EXCEPT ![c] = "serving"]}
         /\ \A d \in Conns \ {c} :
              /\ pc'[d] = pc[d] /\ job'[d] = job[d] /\ req'[d] = req[d] /\ rsp'[d] = rsp[d]
              /\ handles'[d] = handles[d] /\ next'[d] = next[d] /\ lfs'[d] = lfs[d]
              /\ strm'[d] = strm[d] /\ xreq'[d] = xreq[d] /\ xrsp'[d] = xrsp[d]
<1> USE DEF clientVars, legVars, sessionVars, remoteVars, execVars
<1>t. TypeOK
  BY DEF IInv
<1>f. /\ rsp \in [Conns -> Response \cup {None}]
      /\ pc \in [Conns -> {"none", "read", "rpc", "wait", "ended"}]
      /\ req \in [Conns -> Request \cup {None}] /\ job \in [Conns -> Request \cup {None}]
      /\ strm \in [Conns -> {"none", "up", "cut"}] /\ next \in [Conns -> Nat]
      /\ xreq \in [Conns -> Request \cup {None}] /\ xrsp \in [Conns -> Response \cup {None}]
      /\ lfs = [d \in Conns |-> lfs[d]] /\ handles = [d \in Conns |-> handles[d]]
  BY <1>t DEF TypeOK
<1>o. \A r, fs : Reply(c, r, fs) => \A d \in Conns \ {c} :
        pc'[d] = pc[d] /\ rsp'[d] = rsp[d] /\ lfs'[d] = lfs[d] /\ strm'[d] = strm[d]
  BY <1>f DEF Reply, Close
<1>g. \A remote, r : Register(c, remote, r) => \A d \in Conns \ {c} :
        handles'[d] = handles[d] /\ next'[d] = next[d]
  BY <1>f DEF Register
<1>k. Forget(c) => \A d \in Conns \ {c} : handles'[d] = handles[d]
  BY <1>f DEF Forget
<1>1. CASE ServeLocal(c)
  BY <1>1, <1>f, <1>o, <1>g DEF ServeLocal
<1>2. CASE ServeLocalHandle(c)
  BY <1>2, <1>f, <1>o, <1>k DEF ServeLocalHandle
<1>3. CASE Refuse(c)
  BY <1>3, <1>f, <1>o DEF Refuse
<1>4. CASE Relay(c)
  BY <1>4, <1>f, <1>k DEF Relay
<1>5. CASE ReadFails(c)
  BY <1>5, <1>f DEF ReadFails, Close
<1>6. CASE RemoteDial(c)
  BY <1>6, <1>f DEF RemoteDial
<1>7. CASE RemoteSend(c)
  BY <1>7, <1>f DEF RemoteSend
<1>8. CASE RemoteFails(c)
  BY <1>8, <1>f, <1>o DEF RemoteFails
<1>9. CASE RemoteRecv(c)
  BY <1>9, <1>f, <1>o, <1>g DEF RemoteRecv
<1>10. CASE RemoteRecvFails(c)
  BY <1>10, <1>f, <1>o DEF RemoteRecvFails
<1>. QED BY <1>1, <1>2, <1>3, <1>4, <1>5, <1>6, <1>7, <1>8, <1>9, <1>10
         DEF SessionStep

\* The response of the session of c, if it gives one in this step: it answers
\* the request read from the connection, or the one relayed.
Answers(c, m) ==
  \/ /\ pc'[c] = "read" /\ rsp'[c] # None
     /\ rsp'[c].req.op = m.op /\ rsp'[c].req.file = m.file
  \/ pc'[c] = "ended" /\ rsp'[c] = rsp[c]

\* The shapes of a session's step, as far as tokens go.
LEMMA SessionTokens ==
  ASSUME IInv, NEW c \in Conns, SessionStep(c)
  PROVE  \/ /\ pc[c] = "read" /\ req[c] # None /\ req'[c] = None /\ Answers(c, req[c])
         \/ /\ pc[c] = "read" /\ req[c] # None /\ req'[c] = None
            /\ pc'[c] = "rpc" /\ rsp'[c] = rsp[c] /\ SameCall(job'[c], req[c])
         \/ /\ pc[c] = "read" /\ req'[c] = None /\ pc'[c] = "ended" /\ rsp'[c] = rsp[c]
         \/ /\ pc[c] = "rpc" /\ pc'[c] \in {"rpc", "wait"} /\ job'[c] = job[c]
            /\ req'[c] = req[c] /\ rsp'[c] = rsp[c]
         \/ /\ pc[c] \in {"rpc", "wait"} /\ req'[c] = req[c] /\ Answers(c, job[c])
<1> USE DEF legVars, sessionVars
<1>t. TypeOK
  BY DEF IInv
<1>s. IsService(lfs[c])
  BY <1>t DEF TypeOK
<1>r. Readable(c) => req[c] \in Request
  BY <1>t DEF Readable, TypeOK
<1>j. /\ pc[c] \in {"rpc", "wait"} => job[c] \in Request
      /\ xrsp[c] # None => xrsp[c].req = job[c]
  BY <1>t DEF TypeOK, IInv, OneRelayed, RelayedOn
<1>w. \A ref : \A m \in Request : SameCall(Rewrite(m, ref), m) /\ Rewrite(m, ref).op = m.op
  BY DEF Rewrite, Request, SameCall
<1>q. /\ req \in [Conns -> Request \cup {None}] /\ job \in [Conns -> Request \cup {None}]
      /\ pc \in [Conns -> {"none", "read", "rpc", "wait", "ended"}]
  BY <1>t DEF TypeOK
<1>a. ASSUME NEW r \in Response, NEW m \in Request, NEW fs, IsService(fs),
             Reply(c, r, fs), SameCall(r.req, m)
      PROVE  Answers(c, m)
  BY <1>a, <1>t, ReplyEffect, NoneAssumption DEF Answers, SameCall
<1>1. CASE ServeLocal(c)
  <2>1. PICK o \in Handle(lfs[c], req[c]) : Reply(c, Wrap(c, o.resp), o.fs)
    BY <1>1 DEF ServeLocal
  <2>2. o.resp \in Response /\ IsService(o.fs) /\ o.resp.req = req[c]
    BY <1>1, <1>r, <1>s, HandleOutcome DEF ServeLocal
  <2>3. Wrap(c, o.resp) \in Response /\ Wrap(c, o.resp).req = req[c]
    BY <2>2, <1>t, WrapType
  <2>4. Answers(c, req[c])
    BY <1>1, <2>1, <2>2, <2>3, <1>a, <1>r DEF ServeLocal, SameCall
  <2>. QED BY <1>1, <1>q, <2>4 DEF ServeLocal, Readable
<1>2. CASE ServeLocalHandle(c)
  <2> DEFINE m == Rewrite(req[c], handles[c][req[c].h])
  <2>1. PICK o \in Handle(lfs[c], m) : Reply(c, o.resp, o.fs)
    BY <1>2 DEF ServeLocalHandle
  <2>2. m \in Request /\ SameCall(m, req[c])
    BY <1>2, <1>r, <1>w, <1>t DEF ServeLocalHandle, Rewrite, Request, HandleRef, TypeOK, IsTable
  <2>. HIDE DEF m
  <2>3. o.resp \in Response /\ IsService(o.fs) /\ o.resp.req = m
    BY <2>2, <1>s, HandleOutcome
  <2>4. Answers(c, req[c])
    BY <1>2, <2>1, <2>2, <2>3, <1>a, <1>r DEF ServeLocalHandle, SameCall
  <2>. QED BY <1>2, <1>q, <2>4 DEF ServeLocalHandle, Readable
<1>3. CASE Refuse(c)
  <2>1. Fail(req[c]) \in Response /\ Fail(req[c]).req = req[c]
    BY <1>3, <1>r, FailType DEF Refuse
  <2>2. Answers(c, req[c])
    BY <1>3, <2>1, <1>a, <1>r, <1>s DEF Refuse, SameCall
  <2>. QED BY <1>3, <1>q, <2>2 DEF Refuse, Readable
<1>4. CASE Relay(c)
  BY <1>4, <1>q, <1>r, <1>w DEF Relay, Readable, SameCall
<1>5. CASE ReadFails(c)
  BY <1>5, <1>q DEF ReadFails, Close
<1>6. CASE RemoteDial(c)
  BY <1>6 DEF RemoteDial
<1>7. CASE RemoteSend(c)
  BY <1>7, <1>q DEF RemoteSend
<1>8. CASE RemoteFails(c)
  <2>1. Fail(job[c]) \in Response /\ Fail(job[c]).req = job[c]
    BY <1>8, <1>j, FailType DEF RemoteFails
  <2>. QED BY <1>8, <2>1, <1>a, <1>j, <1>s DEF RemoteFails, SameCall
<1>9. CASE RemoteRecv(c)
  <2>1. xrsp[c] \in Response /\ xrsp[c].req = job[c]
    BY <1>9, <1>t, <1>j DEF RemoteRecv, TypeOK
  <2>2. Wrap(c, xrsp[c]) \in Response /\ Wrap(c, xrsp[c]).req = job[c]
    BY <2>1, <1>t, WrapType
  <2>. QED BY <1>9, <2>2, <1>a, <1>j, <1>s DEF RemoteRecv, SameCall
<1>10. CASE RemoteRecvFails(c)
  <2>1. Fail(job[c]) \in Response /\ Fail(job[c]).req = job[c]
    BY <1>10, <1>j, FailType DEF RemoteRecvFails
  <2>. QED BY <1>10, <2>1, <1>a, <1>j, <1>s DEF RemoteRecvFails, SameCall
<1>. QED BY <1>1, <1>2, <1>3, <1>4, <1>5, <1>6, <1>7, <1>8, <1>9, <1>10
         DEF SessionStep

----------------------------------------------------------------------------
(* One token, one relayed request.                                         *)

\* Whatever happens, the call in flight is represented at most once.
LEMMA TokenStep ==
  ASSUME IInv, TypeOK', Next
  PROVE  OneToken'
<1> USE DEF clientVars, legVars, sessionVars, remoteVars, execVars
<1>t. TypeOK /\ OneToken
  BY DEF IInv
<1>q. /\ conn \in Conns \cup {None} /\ call \in Outstanding \cup {None}
      /\ req \in [Conns -> Request \cup {None}] /\ job \in [Conns -> Request \cup {None}]
      /\ rsp \in [Conns -> Response \cup {None}]
      /\ pc \in [Conns -> {"none", "read", "rpc", "wait", "ended"}]
  BY <1>t DEF TypeOK
<1>n. None \notin Conns /\ None \notin Request /\ None \notin Outstanding
  BY ConstantsAssumption, NoneAssumption
<1>1. CASE \E f \in Files, op \in Ops, over \in BOOLEAN : Call(f, op, over)
  BY <1>1, <1>t DEF Call, OneToken, TokenOn, Calling
<1>2. ASSUME NEW c \in Conns, Dial(c) PROVE OneToken'
  BY <1>2, <1>t, <1>q, <1>n DEF Dial, OneToken, TokenOn, Calling
<1>3. CASE DialFails
  BY <1>3, <1>t, <1>q, <1>n DEF DialFails, Complete, OneToken, TokenOn, Calling
<1>4. CASE Send
  <2>1. call'.m = call.m /\ call'.sent /\ call' # None
    BY <1>4, <1>q, <1>n DEF Send, Outstanding
  <2>. QED BY <1>4, <2>1, <1>t, <1>q, <1>n DEF Send, OneToken, TokenOn, Calling
<1>5. CASE SendFails
  BY <1>5, <1>t, <1>q, <1>n DEF SendFails, Complete, Reset, OneToken, TokenOn, Calling
<1>6. CASE Recv
  BY <1>6, <1>t, <1>q, <1>n DEF Recv, Complete, OneToken, TokenOn, Calling
<1>7. CASE RecvFails
  BY <1>7, <1>t, <1>q, <1>n DEF RecvFails, Complete, Reset, OneToken, TokenOn, Calling
<1>8. CASE Spawn
  BY <1>8, <1>t DEF Spawn, OneToken, TokenOn, Calling
<1>9. CASE Exit
  BY <1>9, <1>t, <1>n DEF Exit, OneToken, TokenOn, Calling
<1>10. ASSUME NEW c \in Conns, SessionStep(c) PROVE OneToken'
  <2>1. /\ UNCHANGED clientVars
        /\ \A d \in Conns \ {c} :
             pc'[d] = pc[d] /\ job'[d] = job[d] /\ req'[d] = req[d] /\ rsp'[d] = rsp[d]
    BY <1>10, SessionFrame
  <2>2. \A d \in Conns \ {c} : TokenOn(d)'
    BY <2>1, <1>t DEF OneToken, TokenOn, Calling
  <2>3. TokenOn(c)
    BY <1>t DEF OneToken
  <2>4. TokenOn(c)'
    BY <2>1, <2>3, <1>10, SessionTokens DEF TokenOn, Calling, Answers, SameCall
  <2>. QED BY <2>1, <2>2, <2>4, <1>t DEF OneToken
<1>11. ASSUME NEW c \in Conns, ExecStep(c) \/ HeirExits(c) \/ Cut(c) PROVE OneToken'
  BY <1>11, <1>t DEF ExecStep, ExecServe, ExecReadFails, HeirExits, Cut, OneToken, TokenOn,
                     Calling
<1>. QED BY <1>1, <1>2, <1>3, <1>4, <1>5, <1>6, <1>7, <1>8, <1>9, <1>10, <1>11
         DEF Next, ClientStep

\* Whatever happens, a stream that can answer carries at most the one request
\* its session waits for.
LEMMA RelayedStep ==
  ASSUME IInv, TypeOK', Next
  PROVE  OneRelayed'
<1> USE DEF clientVars, legVars, sessionVars, remoteVars, execVars
<1>t. TypeOK /\ OneRelayed
  BY DEF IInv
<1>q. /\ req \in [Conns -> Request \cup {None}] /\ job \in [Conns -> Request \cup {None}]
      /\ xreq \in [Conns -> Request \cup {None}] /\ xrsp \in [Conns -> Response \cup {None}]
      /\ pc \in [Conns -> {"none", "read", "rpc", "wait", "ended"}]
      /\ strm \in [Conns -> {"none", "up", "cut"}]
      /\ xpc \in [Conns -> {"none", "serving", "ended"}]
  BY <1>t DEF TypeOK
<1>s. \A c \in Conns : IsService(lfs[c]) /\ IsService(xfs[c])
  BY <1>t DEF TypeOK
<1>n. None \notin Request
  BY NoneAssumption
<1>1. CASE \/ \E f \in Files, op \in Ops, over \in BOOLEAN : Call(f, op, over)
           \/ DialFails \/ Send \/ SendFails \/ Recv \/ RecvFails \/ Spawn \/ Exit
  BY <1>1, <1>t DEF Call, DialFails, Send, SendFails, Recv, RecvFails, Spawn, Exit,
                    OneRelayed, RelayedOn
<1>2. ASSUME NEW c \in Conns, Dial(c) PROVE OneRelayed'
  BY <1>2, <1>t, <1>q DEF Dial, OneRelayed, RelayedOn
<1>3. ASSUME NEW c \in Conns, SessionStep(c) PROVE OneRelayed'
  <2>1. /\ xfs' = xfs /\ xpc' \in {xpc, [xpc EXCEPT ![c] = "serving"]}
        /\ \A d \in Conns \ {c} :
             /\ pc'[d] = pc[d] /\ job'[d] = job[d] /\ strm'[d] = strm[d]
             /\ xreq'[d] = xreq[d] /\ xrsp'[d] = xrsp[d]
    BY <1>3, SessionFrame
  <2>2. \A d \in Conns \ {c} : RelayedOn(d)'
    BY <2>1, <1>t, <1>q DEF OneRelayed, RelayedOn
  <2>3. RelayedOn(c)
    BY <1>t DEF OneRelayed
  <2>r. \A r, fs : Reply(c, r, fs) =>
          /\ pc'[c] \in {"read", "ended"}
          /\ strm'[c] \in {strm[c], "cut"} /\ (strm'[c] = "none" <=> strm[c] = "none")
    BY <1>q DEF Reply, Close
  <2>a. CASE ServeLocal(c) \/ ServeLocalHandle(c) \/ Refuse(c)
    <3>1. \E r, fs : Reply(c, r, fs)
      BY <2>a DEF ServeLocal, ServeLocalHandle, Refuse
    <3>2. pc[c] = "read" /\ UNCHANGED <<xreq, xrsp, xpc, job>>
      BY <2>a DEF ServeLocal, ServeLocalHandle, Refuse, Readable
    <3>3. RelayedOn(c)'
      BY <3>1, <3>2, <2>r, <2>3 DEF RelayedOn
    <3>. QED BY <2>2, <3>3 DEF OneRelayed
  <2>b. CASE Relay(c)
    <3>1. pc[c] = "read" /\ pc'[c] = "rpc" /\ job'[c] # None
          /\ UNCHANGED <<strm, xreq, xrsp, xpc>>
      <4>1. req[c] \in Request
        BY <2>b, <1>q DEF Relay, Readable
      <4>3. \A ref \in HandleRef : Rewrite(req[c], ref) \in Request
        BY <4>1 DEF Rewrite, Request, HandleRef
      <4>4. \A h \in DOMAIN handles[c] : handles[c][h] \in HandleRef
        BY <1>t DEF TypeOK, IsTable
      <4>2. \A h \in DOMAIN handles[c] : Rewrite(req[c], handles[c][h]) \in Request
        BY <4>3, <4>4
      <4>. QED BY <2>b, <4>1, <4>2, <1>q, <1>n DEF Relay, Readable
    <3>2. RelayedOn(c)'
      BY <3>1, <2>3 DEF RelayedOn
    <3>. QED BY <2>2, <3>2 DEF OneRelayed
  <2>c. CASE ReadFails(c)
    <3>2. RelayedOn(c)'
      BY <2>c, <2>3, <1>q DEF ReadFails, Close, RelayedOn
    <3>. QED BY <2>2, <3>2 DEF OneRelayed
  <2>d. CASE RemoteDial(c) \/ RemoteSend(c)
    <3>2. RelayedOn(c)'
      BY <2>d, <2>3, <1>q DEF RemoteDial, RemoteSend, RelayedOn
    <3>. QED BY <2>2, <3>2 DEF OneRelayed
  <2>e. CASE RemoteFails(c) \/ RemoteRecv(c) \/ RemoteRecvFails(c)
    <3>1. \E r, fs : Reply(c, r, fs)
      BY <2>e DEF RemoteFails, RemoteRecv, RemoteRecvFails
    <3>2. /\ pc[c] \in {"rpc", "wait"} /\ UNCHANGED <<xreq, xpc>>
          /\ pc[c] = "rpc" => xrsp'[c] = xrsp[c] /\ strm[c] # "up"
          /\ pc[c] = "wait" => /\ xrsp'[c] = None
                               /\ xrsp[c] # None \/ strm[c] = "cut"
      BY <2>e, <1>q DEF RemoteFails, RemoteRecv, RemoteRecvFails
    <3>3. RelayedOn(c)'
      BY <3>1, <3>2, <2>r, <2>3 DEF RelayedOn
    <3>. QED BY <2>2, <3>3 DEF OneRelayed
  <2>. QED BY <1>3, <2>a, <2>b, <2>c, <2>d, <2>e DEF SessionStep
<1>4. ASSUME NEW c \in Conns, ExecServe(c) PROVE OneRelayed'
  <2>1. xreq[c] \in Request
    BY <1>4, <1>q DEF ExecServe
  <2>2. PICK o \in Handle(xfs[c], xreq[c]) :
          \/ /\ strm[c] = "up" /\ xrsp' = [xrsp EXCEPT ![c] = o.resp] /\ UNCHANGED <<strm, xpc>>
          \/ ExecEnd(c, o.fs) /\ UNCHANGED xrsp
    BY <1>4 DEF ExecServe
  <2>3. o.resp.req = xreq[c]
    BY <2>1, <1>s, HandleOutcome
  <2>4. RelayedOn(c)'
    BY <1>4, <2>2, <2>3, <1>t, <1>q DEF ExecServe, ExecEnd, OneRelayed, RelayedOn
  <2>5. \A d \in Conns \ {c} : RelayedOn(d)'
    BY <1>4, <2>2, <1>t, <1>q DEF ExecServe, ExecEnd, OneRelayed, RelayedOn
  <2>. QED BY <2>4, <2>5 DEF OneRelayed
<1>5. ASSUME NEW c \in Conns, ExecReadFails(c) \/ HeirExits(c) \/ Cut(c) PROVE OneRelayed'
  BY <1>5, <1>t, <1>q DEF ExecReadFails, ExecEnd, HeirExits, Cut, OneRelayed, RelayedOn
<1>. QED BY <1>1, <1>2, <1>3, <1>4, <1>5 DEF Next, ClientStep, ExecStep

----------------------------------------------------------------------------
(* Handles keep their meaning.                                             *)

\* Evolution is transitive.
LEMMA EvolvesTrans ==
  ASSUME NEW s, NEW t, NEW u, IsService(s), IsService(t), IsService(u),
         SvcEvolves(s, t), SvcEvolves(t, u)
  PROVE  SvcEvolves(s, u)
<1>1. /\ s.next \in Nat /\ t.next \in Nat /\ u.next \in Nat
      /\ DOMAIN s.open \subseteq Nat /\ DOMAIN t.open \subseteq Nat /\ DOMAIN u.open \subseteq Nat
  BY DEF IsService, IsTable
<1>. QED BY <1>1 DEF SvcEvolves

\* Every handle a step leaves in a session's table was there before, or has the
\* next number and stands for a real handle its side has issued.
NewOrOld(c) ==
  \A h \in DOMAIN handles'[c] :
    \/ h \in DOMAIN handles[c] /\ handles'[c][h] = handles[c][h]
    \/ /\ h = next[c] /\ next'[c] = next[c] + 1
       /\ handles'[c][h].real <
            (IF handles'[c][h].remote THEN xfs'[c].next ELSE lfs'[c].next)

TablesEvolve(c) ==
  /\ next'[c] >= next[c] /\ NewOrOld(c)
  /\ SvcEvolves(lfs[c], lfs'[c]) /\ SvcEvolves(xfs[c], xfs'[c])

\* A session's step keeps the meaning of handles.
LEMMA SessionTables ==
  ASSUME IInv, TypeOK', NEW c \in Conns, SessionStep(c)
  PROVE  TablesEvolve(c)
<1> USE DEF clientVars, legVars, sessionVars, remoteVars, execVars
<1>t. TypeOK
  BY DEF IInv
<1>s. /\ IsService(lfs[c]) /\ IsService(xfs[c]) /\ next[c] \in Nat
      /\ IsService(lfs'[c]) /\ next'[c] \in Nat
  BY <1>t DEF TypeOK
<1>x. xfs' = xfs /\ SvcEvolves(xfs[c], xfs'[c]) /\ SvcEvolves(lfs[c], lfs[c])
  <2>1. xfs' = xfs
    BY SessionFrame
  <2>. QED BY <2>1, <1>s DEF SvcEvolves, IsService
<1>r. Readable(c) => req[c] \in Request
  BY <1>t DEF Readable, TypeOK
<1>j. /\ pc[c] \in {"rpc", "wait"} => job[c] \in Request
      /\ xrsp[c] # None => xrsp[c] \in Response /\ xrsp[c].req = job[c]
  BY <1>t DEF TypeOK, IInv, OneRelayed, RelayedOn
<1>i. \A h \in DOMAIN handles[c] : h < next[c]
  BY DEF IInv, HandlesIssued
<1>same. handles' = handles /\ next' = next => next'[c] >= next[c] /\ NewOrOld(c)
  BY <1>s DEF NewOrOld
<1>reply. ASSUME NEW r \in Response, NEW fs, IsService(fs), Reply(c, r, fs),
                 SvcEvolves(lfs[c], fs)
          PROVE  SvcEvolves(lfs[c], lfs'[c]) /\ SvcEvolves(fs, lfs'[c])
  BY <1>reply, <1>t, <1>s, ReplyEffect, EvolvesTrans
<1>1. CASE ServeLocal(c)
  <2>1. PICK o \in Handle(lfs[c], req[c]) :
          Register(c, FALSE, o.resp) /\ Reply(c, Wrap(c, o.resp), o.fs)
    BY <1>1 DEF ServeLocal
  <2>2. /\ o.resp \in Response /\ IsService(o.fs) /\ SvcEvolves(lfs[c], o.fs)
        /\ o.resp.req = req[c]
        /\ o.resp.ok /\ req[c].op = "open" => o.resp.h < o.fs.next
    <3>1. req[c] \in Request
      BY <1>1, <1>r DEF ServeLocal
    <3>. QED BY <3>1, <1>s, HandleOutcome DEF IsService
  <2>3. Wrap(c, o.resp) \in Response
    BY <2>2, <1>t, WrapType
  <2>4. SvcEvolves(lfs[c], lfs'[c]) /\ SvcEvolves(o.fs, lfs'[c])
    BY <2>1, <2>2, <2>3, <1>reply
  <2>5. CASE o.resp.req.op = "open" /\ o.resp.ok
    <3>1. /\ next'[c] = next[c] + 1
          /\ DOMAIN handles'[c] = DOMAIN handles[c] \cup {next[c]}
          /\ handles'[c][next[c]] = [remote |-> FALSE, real |-> o.resp.h]
          /\ \A h \in DOMAIN handles[c] : h # next[c] => handles'[c][h] = handles[c][h]
      BY <2>1, <2>2, <2>5, <1>t, RegisterEffect
    <3>2. o.resp.h < lfs'[c].next
      BY <2>2, <2>4, <2>5, <1>s DEF SvcEvolves, IsService, Response
    <3>3. NewOrOld(c)
      BY <3>1, <3>2, <1>i, <1>s DEF NewOrOld
    <3>. QED BY <3>1, <3>3, <2>4, <1>x, <1>s DEF TablesEvolve
  <2>6. CASE ~(o.resp.req.op = "open" /\ o.resp.ok)
    <3>1. handles' = handles /\ next' = next
      BY <2>1, <2>6 DEF Register
    <3>. QED BY <3>1, <2>4, <1>x, <1>same DEF TablesEvolve
  <2>. QED BY <2>5, <2>6
<1>2. CASE ServeLocalHandle(c)
  <2> DEFINE m == Rewrite(req[c], handles[c][req[c].h])
  <2>1. PICK o \in Handle(lfs[c], m) : Reply(c, o.resp, o.fs)
    BY <1>2 DEF ServeLocalHandle
  <2>2. m \in Request
    <3>1. \A mm \in Request, ref \in HandleRef : Rewrite(mm, ref) \in Request
      BY DEF Rewrite, Request, HandleRef
    <3>2. \A h \in DOMAIN handles[c] : handles[c][h] \in HandleRef
      BY <1>t DEF TypeOK, IsTable
    <3>. QED BY <1>2, <1>r, <3>1, <3>2 DEF ServeLocalHandle
  <2>. HIDE DEF m
  <2>3. o.resp \in Response /\ IsService(o.fs) /\ SvcEvolves(lfs[c], o.fs)
    BY <2>2, <1>s, HandleOutcome
  <2>4. SvcEvolves(lfs[c], lfs'[c])
    BY <2>1, <2>3, <1>reply
  <2>5. Forget(c) /\ next' = next
    BY <1>2 DEF ServeLocalHandle
  <2>6. next'[c] >= next[c] /\ NewOrOld(c)
    BY <2>5, <1>t, <1>s, ForgetEffect DEF NewOrOld
  <2>. QED BY <2>4, <2>6, <1>x DEF TablesEvolve
<1>3. CASE Refuse(c)
  <2>1. Fail(req[c]) \in Response
    BY <1>3, <1>r, FailType DEF Refuse
  <2>2. SvcEvolves(lfs[c], lfs'[c])
    BY <1>3, <2>1, <1>reply, <1>s, <1>x DEF Refuse
  <2>. QED BY <1>3, <2>2, <1>x, <1>same DEF Refuse, TablesEvolve
<1>4. CASE Relay(c)
  <2>1. next' = next /\ lfs' = lfs /\ (handles' = handles \/ Forget(c))
    BY <1>4 DEF Relay
  <2>2. next'[c] >= next[c] /\ NewOrOld(c)
    BY <2>1, <1>t, <1>s, <1>same, ForgetEffect DEF NewOrOld
  <2>. QED BY <2>1, <2>2, <1>x DEF TablesEvolve
<1>5. CASE ReadFails(c)
  <2>1. SvcEvolves(lfs[c], lfs'[c])
    BY <1>5, <1>t, <1>s, CloseEffect DEF ReadFails
  <2>. QED BY <1>5, <2>1, <1>x, <1>same DEF ReadFails, TablesEvolve
<1>6. CASE RemoteDial(c)
  BY <1>6, <1>x, <1>same DEF RemoteDial, TablesEvolve
<1>7. CASE RemoteSend(c)
  BY <1>7, <1>x, <1>same DEF RemoteSend, TablesEvolve
<1>8. CASE RemoteFails(c)
  <2>1. Fail(job[c]) \in Response
    BY <1>8, <1>j, FailType DEF RemoteFails
  <2>2. SvcEvolves(lfs[c], lfs'[c])
    BY <1>8, <2>1, <1>reply, <1>s, <1>x DEF RemoteFails
  <2>. QED BY <1>8, <2>2, <1>x, <1>same DEF RemoteFails, TablesEvolve
<1>9. CASE RemoteRecv(c)
  <2>1. /\ xrsp[c] \in Response
        /\ Register(c, TRUE, xrsp[c]) /\ Reply(c, Wrap(c, xrsp[c]), lfs[c])
    BY <1>9, <1>j DEF RemoteRecv
  <2>2. Wrap(c, xrsp[c]) \in Response
    BY <2>1, <1>t, WrapType
  <2>3. SvcEvolves(lfs[c], lfs'[c])
    BY <2>1, <2>2, <1>reply, <1>s, <1>x
  <2>5. CASE xrsp[c].req.op = "open" /\ xrsp[c].ok
    <3>1. /\ next'[c] = next[c] + 1
          /\ DOMAIN handles'[c] = DOMAIN handles[c] \cup {next[c]}
          /\ handles'[c][next[c]] = [remote |-> TRUE, real |-> xrsp[c].h]
          /\ \A h \in DOMAIN handles[c] : h # next[c] => handles'[c][h] = handles[c][h]
      BY <2>1, <2>5, <1>t, RegisterEffect
    <3>2. xrsp[c].h < xfs'[c].next
      BY <1>9, <2>5, <1>x DEF RemoteRecv, IInv, OwnersKept, RealMeans
    <3>3. NewOrOld(c)
      BY <3>1, <3>2, <1>i, <1>s DEF NewOrOld
    <3>. QED BY <3>1, <3>3, <2>3, <1>x, <1>s DEF TablesEvolve
  <2>6. CASE ~(xrsp[c].req.op = "open" /\ xrsp[c].ok)
    <3>1. handles' = handles /\ next' = next
      BY <2>1, <2>6 DEF Register
    <3>. QED BY <3>1, <2>3, <1>x, <1>same DEF TablesEvolve
  <2>. QED BY <2>5, <2>6
<1>10. CASE RemoteRecvFails(c)
  <2>1. Fail(job[c]) \in Response
    BY <1>10, <1>j, FailType DEF RemoteRecvFails
  <2>2. SvcEvolves(lfs[c], lfs'[c])
    BY <1>10, <2>1, <1>reply, <1>s, <1>x DEF RemoteRecvFails
  <2>. QED BY <1>10, <2>2, <1>x, <1>same DEF RemoteRecvFails, TablesEvolve
<1>. QED BY <1>1, <1>2, <1>3, <1>4, <1>5, <1>6, <1>7, <1>8, <1>9, <1>10
         DEF SessionStep

\* What the executor does with a request or a broken stream keeps the meaning
\* of its handles, and touches no other stream.
LEMMA ExecTables ==
  ASSUME IInv, NEW c \in Conns, ExecStep(c)
  PROVE  \A d \in Conns : SvcEvolves(xfs[d], xfs'[d])
<1>t. TypeOK
  BY DEF IInv
<1>s. xfs = [d \in Conns |-> xfs[d]] /\ \A d \in Conns : IsService(xfs[d])
  BY <1>t DEF TypeOK
<1>same. \A d \in Conns : xfs'[d] = xfs[d] => SvcEvolves(xfs[d], xfs'[d])
  BY <1>s DEF SvcEvolves, IsService
<1>end. ASSUME NEW fs, IsService(fs), SvcEvolves(xfs[c], fs), ExecEnd(c, fs)
        PROVE  \A d \in Conns : SvcEvolves(xfs[d], xfs'[d])
  <2>1. xfs'[c] = CloseAll(fs) /\ \A d \in Conns \ {c} : xfs'[d] = xfs[d]
    BY <1>end, <1>s DEF ExecEnd
  <2>2. SvcEvolves(xfs[c], xfs'[c])
    BY <2>1, <1>end, <1>s, CloseAllService, EvolvesTrans
  <2>. QED BY <2>1, <2>2, <1>same
<1>1. CASE ExecServe(c)
  <2>1. xreq[c] \in Request
    BY <1>1, <1>t DEF ExecServe, TypeOK
  <2>2. PICK o \in Handle(xfs[c], xreq[c]) :
          xfs' = [xfs EXCEPT ![c] = o.fs] \/ ExecEnd(c, o.fs)
    BY <1>1 DEF ExecServe
  <2>3. IsService(o.fs) /\ SvcEvolves(xfs[c], o.fs)
    BY <2>1, <1>s, HandleOutcome
  <2>4. CASE xfs' = [xfs EXCEPT ![c] = o.fs]
    BY <2>4, <2>3, <1>s, <1>same
  <2>. QED BY <2>2, <2>3, <2>4, <1>end
<1>2. CASE ExecReadFails(c)
  <2>1. ExecEnd(c, xfs[c]) /\ IsService(xfs[c])
    BY <1>2, <1>s DEF ExecReadFails
  <2>2. SvcEvolves(xfs[c], xfs[c])
    BY <1>s DEF SvcEvolves, IsService
  <2>. QED BY <2>1, <2>2, <1>end
<1>. QED BY <1>1, <1>2 DEF ExecStep

\* Every step keeps the meaning of handles.
LEMMA TablesStep ==
  ASSUME IInv, TypeOK', Next, NEW c \in Conns
  PROVE  TablesEvolve(c)
<1> USE DEF clientVars, legVars, sessionVars, remoteVars, execVars
<1>t. TypeOK
  BY DEF IInv
<1>s. next[c] \in Nat /\ IsService(lfs[c]) /\ IsService(xfs[c])
  BY <1>t DEF TypeOK
<1>x. SvcEvolves(lfs[c], lfs[c]) /\ SvcEvolves(xfs[c], xfs[c])
  BY <1>s DEF SvcEvolves, IsService
<1>same. ASSUME handles'[c] = handles[c], next'[c] = next[c], lfs'[c] = lfs[c],
                SvcEvolves(xfs[c], xfs'[c])
         PROVE  TablesEvolve(c)
  BY <1>same, <1>s, <1>x DEF TablesEvolve, NewOrOld
<1>1. CASE \/ \E f \in Files, op \in Ops, over \in BOOLEAN : Call(f, op, over)
           \/ DialFails \/ Send \/ SendFails \/ Recv \/ RecvFails \/ Spawn \/ Exit
           \/ \E d \in Conns : Dial(d) \/ HeirExits(d) \/ Cut(d)
  <2>1. handles' = handles /\ next' = next /\ lfs' = lfs /\ xfs' = xfs
    BY <1>1 DEF Call, DialFails, Send, SendFails, Recv, RecvFails, Spawn, Exit, Dial,
                HeirExits, Cut
  <2>. QED BY <2>1, <1>x, <1>same
<1>2. ASSUME NEW d \in Conns, SessionStep(d) PROVE TablesEvolve(c)
  <2>1. CASE d = c
    BY <1>2, <2>1, SessionTables
  <2>2. CASE d # c
    BY <1>2, <2>2, <1>x, <1>same, SessionFrame
  <2>. QED BY <2>1, <2>2
<1>3. ASSUME NEW d \in Conns, ExecStep(d) PROVE TablesEvolve(c)
  <2>1. handles' = handles /\ next' = next /\ lfs' = lfs
    BY <1>3 DEF ExecStep, ExecServe, ExecReadFails
  <2>. QED BY <1>3, <2>1, <1>same, ExecTables
<1>. QED BY <1>1, <1>2, <1>3 DEF Next, ClientStep

\* Handles are always numbers already issued.
LEMMA IssuedStep ==
  ASSUME IInv, TypeOK', Next
  PROVE  HandlesIssued'
<1> SUFFICES ASSUME NEW c \in Conns, NEW h \in DOMAIN handles'[c]
             PROVE  /\ h < next'[c]
                    /\ handles'[c][h].real <
                         (IF handles'[c][h].remote THEN xfs'[c].next ELSE lfs'[c].next)
  BY DEF HandlesIssued
<1>t. TypeOK
  BY DEF IInv
<1>1. TablesEvolve(c)
  BY TablesStep
<1>2. /\ next[c] \in Nat /\ next'[c] \in Nat
      /\ lfs[c].next \in Nat /\ lfs'[c].next \in Nat
      /\ xfs[c].next \in Nat /\ xfs'[c].next \in Nat
      /\ IsTable(handles[c], HandleRef)
  BY <1>t DEF TypeOK, IsService
<1>3. CASE h \in DOMAIN handles[c] /\ handles'[c][h] = handles[c][h]
  <2>1. /\ h < next[c]
        /\ handles[c][h].real <
             (IF handles[c][h].remote THEN xfs[c].next ELSE lfs[c].next)
    BY <1>3 DEF IInv, HandlesIssued
  <2>2. h \in Nat /\ handles[c][h].real \in Nat
    BY <1>3, <1>2 DEF IsTable, HandleRef
  <2>3. next'[c] >= next[c] /\ lfs'[c].next >= lfs[c].next /\ xfs'[c].next >= xfs[c].next
    BY <1>1 DEF TablesEvolve, SvcEvolves
  <2>. QED BY <1>3, <1>2, <2>1, <2>2, <2>3
<1>4. CASE /\ h = next[c] /\ next'[c] = next[c] + 1
           /\ handles'[c][h].real <
                (IF handles'[c][h].remote THEN xfs'[c].next ELSE lfs'[c].next)
  BY <1>4, <1>2
<1>. QED BY <1>1, <1>3, <1>4 DEF TablesEvolve, NewOrOld

\* What a handle means outlives every step.
LEMMA MeansStable ==
  ASSUME IInv, TypeOK', NEW c \in Conns, TablesEvolve(c), NEW h \in Nat, NEW f \in Files,
         Means(c, h, f)
  PROVE  Means(c, h, f)'
<1>t. TypeOK
  BY DEF IInv
<1>1. /\ next[c] \in Nat /\ next'[c] \in Nat
      /\ IsTable(lfs[c].open, Files) /\ IsTable(xfs[c].open, Files)
      /\ lfs[c].next \in Nat /\ xfs[c].next \in Nat
      /\ IsTable(handles[c], HandleRef)
  BY <1>t DEF TypeOK, IsService
<1>2. h < next[c] /\ h < next'[c]
  BY <1>1 DEF Means, TablesEvolve
<1>3. ASSUME h \in DOMAIN handles'[c] PROVE Resolve(c, h)' \in {f, None}
  <2>1. h \in DOMAIN handles[c] /\ handles'[c][h] = handles[c][h]
    BY <1>1, <1>2, <1>3 DEF TablesEvolve, NewOrOld
  <2>2. Resolve(c, h) \in {f, None}
    BY <2>1 DEF Means
  <2>3. handles[c][h].real <
          (IF handles[c][h].remote THEN xfs[c].next ELSE lfs[c].next)
    BY <2>1 DEF IInv, HandlesIssued
  <2>4. handles[c][h].real \in Nat
    BY <2>1, <1>1 DEF IsTable, HandleRef
  <2>5. /\ \A r \in DOMAIN xfs[c].open : xfs[c].open[r] # None
        /\ \A r \in DOMAIN lfs[c].open : lfs[c].open[r] # None
    BY <1>1, ConstantsAssumption DEF IsTable
  <2>6. CASE handles[c][h].remote
    BY <2>1, <2>2, <2>3, <2>4, <2>5, <2>6 DEF TablesEvolve, SvcEvolves, Resolve
  <2>7. CASE ~handles[c][h].remote
    BY <2>1, <2>2, <2>3, <2>4, <2>5, <2>7 DEF TablesEvolve, SvcEvolves, Resolve
  <2>. QED BY <2>6, <2>7
<1>. QED BY <1>2, <1>3 DEF Means

\* The same of the executor's handles.
LEMMA RealMeansStable ==
  ASSUME IInv, TypeOK', NEW c \in Conns, TablesEvolve(c), NEW r \in Nat, NEW f \in Files,
         RealMeans(c, r, f)
  PROVE  RealMeans(c, r, f)'
<1>1. xfs[c].next \in Nat /\ xfs'[c].next \in Nat
  BY DEF IInv, TypeOK, IsService
<1>. QED BY <1>1 DEF RealMeans, TablesEvolve, SvcEvolves

\* The open a session's answer reports is the file it was asked for.
LEMMA AnsweredOpen ==
  ASSUME IInv, TypeOK', NEW c \in Conns, SessionStep(c),
         rsp'[c] # None, rsp'[c].ok, rsp'[c].req.op = "open"
  PROVE  rsp'[c] = rsp[c] \/ Means(c, rsp[c].h, rsp[c].req.file)'
<1> USE DEF clientVars, legVars, sessionVars, remoteVars, execVars
<1>t. TypeOK
  BY DEF IInv
<1>s. /\ IsService(lfs[c]) /\ next[c] \in Nat
      /\ IsService(lfs'[c]) /\ IsService(xfs'[c]) /\ next'[c] \in Nat
  BY <1>t DEF TypeOK
<1>x. xfs' = xfs
  BY SessionFrame
<1>r. Readable(c) => req[c] \in Request
  BY <1>t DEF Readable, TypeOK
<1>j. /\ pc[c] \in {"rpc", "wait"} => job[c] \in Request
      /\ xrsp[c] # None => xrsp[c] \in Response
  BY <1>t DEF TypeOK, IInv, OneRelayed, RelayedOn
<1>a. ASSUME NEW r \in Response, NEW fs, IsService(fs), Reply(c, r, fs)
      PROVE  /\ rsp'[c] = rsp[c] \/ rsp'[c] = r
             /\ SvcEvolves(fs, lfs'[c])
  BY <1>a, <1>t, ReplyEffect
<1>fail. ASSUME NEW m \in Request, NEW fs, IsService(fs), Reply(c, Fail(m), fs)
         PROVE  rsp'[c] = rsp[c]
  BY <1>fail, <1>a, FailType
<1>1. CASE ServeLocal(c)
  <2>1. PICK o \in Handle(lfs[c], req[c]) :
          Register(c, FALSE, o.resp) /\ Reply(c, Wrap(c, o.resp), o.fs)
    BY <1>1 DEF ServeLocal
  <2>2. /\ o.resp \in Response /\ IsService(o.fs) /\ o.resp.req = req[c]
        /\ o.resp.ok /\ req[c].op = "open" =>
              /\ o.resp.h = lfs[c].next /\ o.fs.next = lfs[c].next + 1
              /\ o.resp.h \in DOMAIN o.fs.open => o.fs.open[o.resp.h] = req[c].file
    <3>1. req[c] \in Request
      BY <1>1, <1>r DEF ServeLocal
    <3>. QED BY <3>1, <1>s, HandleOutcome
  <2>3. /\ Wrap(c, o.resp) \in Response
        /\ Wrap(c, o.resp).req = o.resp.req /\ Wrap(c, o.resp).ok = o.resp.ok
        /\ o.resp.req.op = "open" /\ o.resp.ok => Wrap(c, o.resp).h = next[c]
    BY <2>2, <1>t, WrapType
  <2>4. /\ rsp'[c] = rsp[c] \/ rsp'[c] = Wrap(c, o.resp)
        /\ SvcEvolves(o.fs, lfs'[c])
    BY <2>1, <2>2, <2>3, <1>a
  <2>5. CASE rsp'[c] = Wrap(c, o.resp)
    <3>1. o.resp.req.op = "open" /\ o.resp.ok
      BY <2>3, <2>5
    <3>2. /\ next'[c] = next[c] + 1
          /\ handles'[c][next[c]] = [remote |-> FALSE, real |-> o.resp.h]
      BY <2>1, <2>2, <3>1, <1>t, RegisterEffect
    <3>3. o.resp.h \in DOMAIN lfs'[c].open => lfs'[c].open[o.resp.h] = req[c].file
      BY <2>2, <2>4, <3>1, <1>s DEF SvcEvolves, IsService
    <3>4. rsp'[c].h = next[c] /\ rsp'[c].req.file = req[c].file
      BY <2>2, <2>3, <2>5, <3>1
    <3>5. ~handles'[c][rsp'[c].h].remote /\ handles'[c][rsp'[c].h].real = o.resp.h
      BY <3>2, <3>4
    <3>6. Resolve(c, rsp[c].h)' \in {req[c].file, None}
      BY <3>3, <3>5 DEF Resolve
    <3>. QED BY <3>2, <3>4, <3>6, <1>s DEF Means
  <2>. QED BY <2>4, <2>5
<1>2. CASE ServeLocalHandle(c)
  <2> DEFINE m == Rewrite(req[c], handles[c][req[c].h])
  <2>1. PICK o \in Handle(lfs[c], m) : Reply(c, o.resp, o.fs)
    BY <1>2 DEF ServeLocalHandle
  <2>2. m \in Request /\ m.op # "open"
    <3>1. \A mm \in Request, ref \in HandleRef :
            Rewrite(mm, ref) \in Request /\ Rewrite(mm, ref).op = mm.op
      BY DEF Rewrite, Request, HandleRef
    <3>2. \A h \in DOMAIN handles[c] : handles[c][h] \in HandleRef
      BY <1>t DEF TypeOK, IsTable
    <3>. QED BY <1>2, <1>r, <3>1, <3>2 DEF ServeLocalHandle, ByHandle
  <2>. HIDE DEF m
  <2>3. o.resp \in Response /\ IsService(o.fs) /\ o.resp.req = m
    BY <2>2, <1>s, HandleOutcome
  <2>. QED BY <2>1, <2>2, <2>3, <1>a
<1>3. CASE Refuse(c)
  BY <1>3, <1>r, <1>s, <1>fail DEF Refuse
<1>4. CASE Relay(c) \/ ReadFails(c) \/ RemoteDial(c) \/ RemoteSend(c)
  BY <1>4 DEF Relay, ReadFails, Close, RemoteDial, RemoteSend
<1>5. CASE RemoteFails(c)
  BY <1>5, <1>j, <1>s, <1>fail DEF RemoteFails
<1>6. CASE RemoteRecv(c)
  <2>1. /\ xrsp[c] \in Response
        /\ Register(c, TRUE, xrsp[c]) /\ Reply(c, Wrap(c, xrsp[c]), lfs[c])
    BY <1>6, <1>j DEF RemoteRecv
  <2>2. /\ Wrap(c, xrsp[c]) \in Response
        /\ Wrap(c, xrsp[c]).req = xrsp[c].req /\ Wrap(c, xrsp[c]).ok = xrsp[c].ok
        /\ xrsp[c].req.op = "open" /\ xrsp[c].ok => Wrap(c, xrsp[c]).h = next[c]
    BY <2>1, <1>t, WrapType
  <2>3. rsp'[c] = rsp[c] \/ rsp'[c] = Wrap(c, xrsp[c])
    BY <2>1, <2>2, <1>a, <1>s
  <2>4. CASE rsp'[c] = Wrap(c, xrsp[c])
    <3>1. xrsp[c].req.op = "open" /\ xrsp[c].ok
      BY <2>2, <2>4
    <3>2. /\ next'[c] = next[c] + 1
          /\ handles'[c][next[c]] = [remote |-> TRUE, real |-> xrsp[c].h]
      BY <2>1, <3>1, <1>t, RegisterEffect
    <3>3. RealMeans(c, xrsp[c].h, xrsp[c].req.file)
      BY <3>1, <1>6 DEF IInv, OwnersKept, RemoteRecv
    <3>4. rsp'[c].h = next[c] /\ rsp'[c].req.file = xrsp[c].req.file
      BY <2>2, <2>4, <3>1
    <3>5. handles'[c][rsp'[c].h].remote /\ handles'[c][rsp'[c].h].real = xrsp[c].h
      BY <3>2, <3>4
    <3>6. Resolve(c, rsp[c].h)' \in {xrsp[c].req.file, None}
      BY <3>3, <3>5, <1>x DEF Resolve, RealMeans
    <3>. QED BY <3>2, <3>4, <3>6, <1>s DEF Means
  <2>. QED BY <2>3, <2>4
<1>7. CASE RemoteRecvFails(c)
  BY <1>7, <1>j, <1>s, <1>fail DEF RemoteRecvFails
<1>. QED BY <1>1, <1>2, <1>3, <1>4, <1>5, <1>6, <1>7 DEF SessionStep

\* A call that fails, or that opens nothing, changes no file's handle.
LEMMA CompleteKeeps ==
  ASSUME TypeOK, NEW ok \in BOOLEAN, NEW h \in Nat, call # None, Complete(ok, h),
         NEW f \in Files
  PROVE  \/ fd'[f].h = fd[f].h /\ fd'[f].via = fd[f].via
         \/ /\ ok /\ call.m.op = "open" /\ f = call.m.file
            /\ fd'[f].h = h /\ fd'[f].via = conn
<1>1. fd \in [Files -> [st : {"fresh", "open", "closed"}, h : Nat,
                         via : Conns \cup {None}]]
  BY DEF TypeOK
<1>. QED BY <1>1 DEF Complete

\* Files change owner only when the answer to an open is received.
LEMMA OwnerChange ==
  ASSUME IInv, Next, NEW f \in Files
  PROVE  \/ fd'[f].h = fd[f].h /\ fd'[f].via = fd[f].via
         \/ /\ conn \in Conns /\ rsp[conn] # None /\ rsp[conn].ok
            /\ rsp[conn].req.op = "open" /\ rsp[conn].req.file = f
            /\ fd'[f].h = rsp[conn].h /\ fd'[f].via = conn
<1> USE DEF clientVars, legVars, sessionVars, remoteVars, execVars
<1>t. TypeOK
  BY DEF IInv
<1>1. CASE DialFails \/ SendFails \/ RecvFails
  <2>1. call # None /\ Complete(FALSE, 0)
    BY <1>1 DEF DialFails, SendFails, RecvFails
  <2>. QED BY <2>1, <1>t, CompleteKeeps
<1>2. CASE Recv
  <2>1. call # None /\ conn \in Conns /\ rsp[conn] \in Response
        /\ Complete(rsp[conn].ok, rsp[conn].h)
    BY <1>2, <1>t DEF Recv, IInv, OneToken, TypeOK
  <2>2. SameCall(rsp[conn].req, call.m) /\ rsp[conn] # None
    BY <1>2, <2>1 DEF Recv, IInv, OneToken, TokenOn
  <2>3. rsp[conn].ok \in BOOLEAN /\ rsp[conn].h \in Nat
    BY <2>1 DEF Response
  <2>. QED BY <2>1, <2>2, <2>3, <1>t, CompleteKeeps DEF SameCall
<1>3. CASE Exit
  <2>1. fd \in [Files -> [st : {"fresh", "open", "closed"}, h : Nat,
                           via : Conns \cup {None}]]
    BY <1>t DEF TypeOK
  <2>. QED BY <1>3, <2>1 DEF Exit
<1>4. CASE \/ \E g \in Files, op \in Ops, over \in BOOLEAN : Call(g, op, over)
           \/ Send \/ Spawn
           \/ \E c \in Conns : Dial(c) \/ HeirExits(c) \/ Cut(c) \/ ExecStep(c)
  BY <1>4 DEF Call, Send, Spawn, Dial, HeirExits, Cut, ExecStep, ExecServe, ExecReadFails
<1>5. ASSUME NEW c \in Conns, SessionStep(c) PROVE fd' = fd
  BY <1>5, SessionFrame
<1>. QED BY <1>1, <1>2, <1>3, <1>4, <1>5 DEF Next, ClientStep

\* What the executor answers, if it answers in this step.
LEMMA ExecAnswers ==
  ASSUME IInv, TypeOK', NEW d \in Conns, ExecStep(d), NEW c \in Conns, xrsp'[c] # xrsp[c]
  PROVE  /\ d = c /\ pc[c] = "wait" /\ xrsp'[c] \in Response /\ xrsp'[c].req = job[c]
         /\ xrsp'[c].ok /\ job[c].op = "open" =>
              RealMeans(c, xrsp[c].h, job[c].file)'
         /\ xrsp'[c].ok /\ ByHandle(job[c]) =>
              /\ job[c].h \in DOMAIN xfs[c].open
              /\ xrsp'[c].hit = xfs[c].open[job[c].h]
<1> USE DEF clientVars, legVars, sessionVars
<1>t. TypeOK /\ OneRelayed
  BY DEF IInv
<1>1. ExecServe(d)
  BY DEF ExecStep, ExecReadFails
<1>2. PICK o \in Handle(xfs[d], xreq[d]) :
        \/ strm[d] = "up" /\ xrsp' = [xrsp EXCEPT ![d] = o.resp] /\ xfs' = [xfs EXCEPT ![d] = o.fs]
        \/ UNCHANGED xrsp
  BY <1>1 DEF ExecServe
<1>3. /\ d = c /\ strm[c] = "up" /\ xrsp'[c] = o.resp /\ xfs'[c] = o.fs
      /\ xreq[c] \in Request
  BY <1>1, <1>2, <1>t DEF ExecServe, TypeOK
<1>4. pc[c] = "wait" /\ xreq[c] = job[c]
  BY <1>1, <1>3, <1>t DEF ExecServe, OneRelayed, RelayedOn
<1>5. IsService(xfs[c])
  BY <1>t DEF TypeOK
<1>6. /\ o.resp \in Response /\ o.resp.req = xreq[c]
      /\ o.resp.ok /\ xreq[c].op = "open" =>
           /\ o.resp.h = xfs[c].next /\ o.fs.next = xfs[c].next + 1
           /\ o.resp.h \in DOMAIN o.fs.open => o.fs.open[o.resp.h] = xreq[c].file
      /\ o.resp.ok /\ ByHandle(xreq[c]) =>
           xreq[c].h \in DOMAIN xfs[c].open /\ o.resp.hit = xfs[c].open[xreq[c].h]
  BY <1>2, <1>3, <1>5, HandleOutcome
<1>7. job'= job /\ xfs[c].next \in Nat
  BY <1>1, <1>5 DEF ExecServe, IsService
<1>. QED BY <1>3, <1>4, <1>6, <1>7 DEF RealMeans

\* Who writes the responses: the executor's only its own goroutine, the
\* session's only the session, and a connection changes hands while empty.
LEMMA Writers ==
  ASSUME IInv, TypeOK', Next, NEW c \in Conns
  PROVE  /\ \/ xrsp'[c] \in {xrsp[c], None}
            \/ ExecStep(c) /\ xrsp'[c] # xrsp[c]
         /\ \/ rsp'[c] \in {rsp[c], None}
            \/ SessionStep(c)
         /\ \/ conn' \in {conn, None} \/ conn' # c
            \/ pc[c] = "none" /\ rsp'[c] = None
<1> USE DEF clientVars, legVars, sessionVars, remoteVars, execVars
<1>t. TypeOK
  BY DEF IInv
<1>q. /\ rsp \in [Conns -> Response \cup {None}] /\ xrsp \in [Conns -> Response \cup {None}]
      /\ conn \in Conns \cup {None}
  BY <1>t DEF TypeOK
<1>1. CASE \/ \E f \in Files, op \in Ops, over \in BOOLEAN : Call(f, op, over)
           \/ DialFails \/ Send \/ SendFails \/ Recv \/ RecvFails \/ Spawn \/ Exit
           \/ \E d \in Conns : HeirExits(d) \/ Cut(d)
  <2>1. /\ xrsp' = xrsp /\ conn' \in {conn, None}
        /\ rsp' = rsp \/ rsp' = [rsp EXCEPT ![conn] = None]
    BY <1>1 DEF Call, DialFails, Send, SendFails, Recv, RecvFails, Reset, Spawn, Exit,
                HeirExits, Cut
  <2>. QED BY <2>1, <1>q
<1>2. ASSUME NEW d \in Conns, Dial(d)
      PROVE  /\ xrsp' = xrsp /\ rsp' = rsp
             /\ conn' = c => pc[c] = "none" /\ rsp'[c] = None
  BY <1>2 DEF Dial, IInv, OneToken, TokenOn
<1>3. ASSUME NEW d \in Conns, SessionStep(d)
      PROVE  /\ xrsp'[c] \in {xrsp[c], None} /\ conn' = conn
             /\ rsp'[c] = rsp[c] \/ d = c
  <2>1. conn' = conn /\ (d # c => xrsp'[c] = xrsp[c] /\ rsp'[c] = rsp[c])
    BY <1>3, SessionFrame
  <2>2. xrsp'[d] \in {xrsp[d], None}
    BY <1>3, <1>q DEF SessionStep, ServeLocal, ServeLocalHandle, Refuse, Relay, ReadFails,
                      RemoteDial, RemoteSend, RemoteFails, RemoteRecv, RemoteRecvFails
  <2>. QED BY <2>1, <2>2
<1>4. ASSUME NEW d \in Conns, ExecStep(d)
      PROVE  /\ xrsp'[c] = xrsp[c] \/ d = c
             /\ rsp' = rsp /\ conn' = conn
  BY <1>4, ExecAnswers DEF ExecStep, ExecServe, ExecReadFails
<1>. QED BY <1>1, <1>2, <1>3, <1>4 DEF Next, ClientStep

\* The handles a process holds, and those about to reach it, stay the handles
\* of the files they were issued for.
LEMMA OwnersStep ==
  ASSUME IInv, TypeOK', Next
  PROVE  OwnersKept'
<1> SUFFICES ASSUME NEW c \in Conns
    PROVE  /\ \A f \in Files : fd'[f].via = c => Means(c, fd[f].h, f)'
           /\ xrsp'[c] # None /\ xrsp'[c].ok /\ xrsp'[c].req.op = "open" =>
                RealMeans(c, xrsp[c].h, xrsp[c].req.file)'
           /\ conn' = c /\ rsp'[c] # None /\ rsp'[c].ok /\ rsp'[c].req.op = "open" =>
                Means(c, rsp[c].h, rsp[c].req.file)'
  BY DEF OwnersKept, Issued
<1>t. TypeOK /\ OwnersKept
  BY DEF IInv
<1>e. TablesEvolve(c)
  BY TablesStep
<1>m. ASSUME NEW h \in Nat, NEW f \in Files, Means(c, h, f) PROVE Means(c, h, f)'
  BY <1>m, <1>e, MeansStable
<1>q. /\ \A f \in Files : fd[f].h \in Nat
      /\ rsp[c] # None => rsp[c].h \in Nat /\ rsp[c].req.file \in Files
      /\ xrsp[c] # None => xrsp[c].h \in Nat /\ xrsp[c].req.file \in Files
  BY <1>t DEF TypeOK, Response, Request
<1>n. None # c
  BY ConstantsAssumption
<1>1. ASSUME NEW f \in Files, fd'[f].via = c PROVE Means(c, fd[f].h, f)'
  <2>1. CASE fd'[f].h = fd[f].h /\ fd'[f].via = fd[f].via
    <3>1. Means(c, fd[f].h, f)
      BY <1>1, <2>1, <1>t DEF OwnersKept, Issued
    <3>2. \A h \in Nat : Means(c, h, f) => Means(c, h, f)'
      BY <1>m
    <3>3. fd[f].h \in Nat /\ fd'[f].h = fd[f].h
      BY <1>q, <2>1
    <3>. QED BY <3>1, <3>2, <3>3 DEF Means, Resolve
  <2>2. CASE /\ conn \in Conns /\ rsp[conn] # None /\ rsp[conn].ok
             /\ rsp[conn].req.op = "open" /\ rsp[conn].req.file = f
             /\ fd'[f].h = rsp[conn].h /\ fd'[f].via = conn
    <3>1. Means(c, rsp[c].h, f) /\ conn = c
      BY <1>1, <2>2, <1>t DEF OwnersKept
    <3>2. \A h \in Nat : Means(c, h, f) => Means(c, h, f)'
      BY <1>m
    <3>3. rsp[c].h \in Nat /\ fd'[f].h = rsp[c].h
      BY <1>q, <2>2, <3>1
    <3>. QED BY <3>1, <3>2, <3>3 DEF Means, Resolve
  <2>. QED BY <2>1, <2>2, OwnerChange
<1>2. ASSUME xrsp'[c] # None, xrsp'[c].ok, xrsp'[c].req.op = "open"
      PROVE  RealMeans(c, xrsp[c].h, xrsp[c].req.file)'
  <2>1. CASE ExecStep(c) /\ xrsp'[c] # xrsp[c]
    <3>1. /\ xrsp'[c].req = job[c] /\ job' = job
          /\ job[c].op = "open" => RealMeans(c, xrsp[c].h, job[c].file)'
      BY <1>2, <2>1, ExecAnswers DEF ExecStep, ExecServe, ExecReadFails, sessionVars
    <3>. QED BY <1>2, <3>1
  <2>2. CASE xrsp'[c] = xrsp[c]
    <3>1. RealMeans(c, xrsp[c].h, xrsp[c].req.file)
      BY <1>2, <2>2, <1>t DEF OwnersKept
    <3>2. \A r \in Nat, f \in Files : RealMeans(c, r, f) => RealMeans(c, r, f)'
      BY <1>e, RealMeansStable
    <3>. QED BY <1>2, <2>2, <1>q, <3>1, <3>2 DEF RealMeans
  <2>. QED BY <1>2, <2>1, <2>2, Writers
<1>3. ASSUME conn' = c, rsp'[c] # None, rsp'[c].ok, rsp'[c].req.op = "open"
      PROVE  Means(c, rsp[c].h, rsp[c].req.file)'
  <2>1. conn = c
    BY <1>3, <1>n, Writers
  <2>2. CASE rsp'[c] = rsp[c]
    <3>1. Means(c, rsp[c].h, rsp[c].req.file)
      BY <1>3, <2>1, <2>2, <1>t DEF OwnersKept
    <3>2. \A h \in Nat, f \in Files : Means(c, h, f) => Means(c, h, f)'
      BY <1>m
    <3>. QED BY <1>3, <2>2, <1>q, <3>1, <3>2 DEF Means, Resolve
  <2>3. CASE SessionStep(c) /\ rsp'[c] # rsp[c]
    BY <1>3, <2>3, AnsweredOpen
  <2>. QED BY <1>3, <2>2, <2>3, Writers
<1>. QED BY <1>1, <1>2, <1>3

\* What a session on the client's connection does with a call by handle: it
\* relays the executor's handle of the file, or answers from the file itself.
LEMMA SessionFlight ==
  ASSUME IInv, TypeOK', NEW c \in Conns, SessionStep(c), conn = c, call # None,
         ByHandle(call.m), Issued(call.m.file, c)
  PROVE  /\ pc'[c] \in {"rpc", "wait"} =>
              \/ pc[c] \in {"rpc", "wait"} /\ job'[c] = job[c]
              \/ RealMeans(c, job'[c].h, call.m.file)
         /\ rsp'[c] # None /\ rsp'[c].ok =>
              rsp'[c] = rsp[c] \/ rsp'[c].hit = call.m.file
<1> USE DEF clientVars, legVars, sessionVars, remoteVars, execVars
<1>t. TypeOK
  BY DEF IInv
<1>s. IsService(lfs[c])
  BY <1>t DEF TypeOK
<1>f. call.m.file \in Files
  BY <1>t DEF TypeOK, Outstanding, Request
<1>q. pc \in [Conns -> {"none", "read", "rpc", "wait", "ended"}]
  BY <1>t DEF TypeOK
<1>r. Readable(c) => req[c] \in Request /\ req[c] = call.m
  BY <1>t DEF Readable, TypeOK, IInv, OneToken, TokenOn
<1>j. /\ pc[c] \in {"rpc", "wait"} => job[c] \in Request
      /\ xrsp[c] # None => xrsp[c] \in Response
  BY <1>t DEF TypeOK, IInv, OneRelayed, RelayedOn
<1>h. /\ call.m.h = fd[call.m.file].h
      /\ Means(c, call.m.h, call.m.file)
  BY <1>f DEF IInv, InFlightByHandle, OwnersKept
<1>a. ASSUME NEW r \in Response, NEW fs, IsService(fs), Reply(c, r, fs)
      PROVE  /\ pc'[c] \in {"read", "ended"}
             /\ rsp'[c] = rsp[c] \/ rsp'[c] = r
  BY <1>a, <1>t, ReplyEffect
<1>fail. ASSUME NEW m \in Request, NEW fs, IsService(fs), Reply(c, Fail(m), fs)
         PROVE  /\ pc'[c] \in {"read", "ended"}
                /\ rsp'[c] = rsp[c] \/ ~rsp'[c].ok
  BY <1>fail, <1>a, FailType
<1>w. \A m \in Request, ref \in HandleRef :
        Rewrite(m, ref) \in Request /\ Rewrite(m, ref).op = m.op /\ Rewrite(m, ref).h = ref.real
  BY DEF Rewrite, Request, HandleRef
<1>ref. \A h \in DOMAIN handles[c] : handles[c][h] \in HandleRef
  BY <1>t DEF TypeOK, IsTable
<1>1. CASE ServeLocal(c)
  BY <1>1, <1>r DEF ServeLocal
<1>2. CASE ServeLocalHandle(c)
  <2> DEFINE ref == handles[c][req[c].h]
             m == Rewrite(req[c], ref)
  <2>1. PICK o \in Handle(lfs[c], m) : Reply(c, o.resp, o.fs)
    BY <1>2 DEF ServeLocalHandle
  <2>2. m \in Request /\ ByHandle(m) /\ m.h = ref.real
    BY <1>2, <1>r, <1>w, <1>ref DEF ServeLocalHandle, ByHandle
  <2>3. ref.real \in DOMAIN lfs[c].open => lfs[c].open[ref.real] = call.m.file
    <3>1. Resolve(c, req[c].h) \in {call.m.file, None}
      BY <1>2, <1>r, <1>h DEF ServeLocalHandle, Means
    <3>2. \A r \in DOMAIN lfs[c].open : lfs[c].open[r] # None
      BY <1>s, ConstantsAssumption DEF IsService, IsTable
    <3>. QED BY <1>2, <3>1, <3>2 DEF ServeLocalHandle, Resolve
  <2>. HIDE DEF m, ref
  <2>4. /\ o.resp \in Response /\ IsService(o.fs)
        /\ o.resp.ok => m.h \in DOMAIN lfs[c].open /\ o.resp.hit = lfs[c].open[m.h]
    BY <2>2, <1>s, HandleOutcome
  <2>. QED BY <2>1, <2>2, <2>3, <2>4, <1>a
<1>3. CASE Refuse(c)
  BY <1>3, <1>r, <1>s, <1>fail DEF Refuse
<1>4. CASE Relay(c)
  <2> DEFINE ref == handles[c][req[c].h]
  <2>1. /\ req[c].h \in DOMAIN handles[c] /\ ref.remote
        /\ job' = [job EXCEPT ![c] = Rewrite(req[c], ref)]
        /\ rsp' = rsp /\ req[c] = call.m /\ req[c] \in Request
    BY <1>4, <1>r DEF Relay
  <2>2. job'[c].h = ref.real /\ ref.real \in Nat
    BY <2>1, <1>t, <1>w, <1>ref DEF TypeOK, HandleRef
  <2>3. ref.real < xfs[c].next
    BY <2>1 DEF IInv, HandlesIssued
  <2>4. ref.real \in DOMAIN xfs[c].open => xfs[c].open[ref.real] = call.m.file
    <3>1. Resolve(c, req[c].h) \in {call.m.file, None}
      BY <2>1, <1>h DEF Means
    <3>2. \A r \in DOMAIN xfs[c].open : xfs[c].open[r] # None
      BY <1>t, ConstantsAssumption DEF TypeOK, IsService, IsTable
    <3>. QED BY <2>1, <3>1, <3>2 DEF Resolve
  <2>. QED BY <2>1, <2>2, <2>3, <2>4 DEF RealMeans
<1>5. CASE ReadFails(c) \/ RemoteDial(c) \/ RemoteSend(c)
  BY <1>5, <1>q DEF ReadFails, Close, RemoteDial, RemoteSend
<1>6. CASE RemoteFails(c)
  BY <1>6, <1>j, <1>s, <1>fail DEF RemoteFails
<1>7. CASE RemoteRecv(c)
  <2>1. xrsp[c] \in Response /\ Reply(c, Wrap(c, xrsp[c]), lfs[c])
    BY <1>7, <1>j DEF RemoteRecv
  <2>2. /\ Wrap(c, xrsp[c]) \in Response
        /\ Wrap(c, xrsp[c]).ok = xrsp[c].ok /\ Wrap(c, xrsp[c]).hit = xrsp[c].hit
    BY <2>1, <1>t, WrapType
  <2>3. xrsp[c].ok => xrsp[c].hit = call.m.file
    BY <1>7 DEF RemoteRecv, IInv, InFlightByHandle
  <2>. QED BY <2>1, <2>2, <2>3, <1>a, <1>s
<1>8. CASE RemoteRecvFails(c)
  BY <1>8, <1>j, <1>s, <1>fail DEF RemoteRecvFails
<1>. QED BY <1>1, <1>2, <1>3, <1>4, <1>5, <1>6, <1>7, <1>8 DEF SessionStep

\* Only a session moves its own control, once its connection is dialled.
LEMMA Workers ==
  ASSUME IInv, Next, NEW c \in Conns
  PROVE  \/ pc'[c] = pc[c] /\ job'[c] = job[c]
         \/ pc'[c] = "read"
         \/ SessionStep(c)
<1> USE DEF clientVars, legVars, sessionVars, remoteVars, execVars
<1>q. pc \in [Conns -> {"none", "read", "rpc", "wait", "ended"}]
  BY DEF IInv, TypeOK
<1>1. CASE \/ \E f \in Files, op \in Ops, over \in BOOLEAN : Call(f, op, over)
           \/ DialFails \/ Send \/ SendFails \/ Recv \/ RecvFails \/ Spawn \/ Exit
           \/ \E d \in Conns : HeirExits(d) \/ Cut(d) \/ ExecStep(d)
  <2>1. pc' = pc /\ job' = job
    BY <1>1 DEF Call, DialFails, Send, SendFails, Recv, RecvFails, Spawn, Exit, HeirExits,
                Cut, ExecStep, ExecServe, ExecReadFails
  <2>. QED BY <2>1
<1>2. ASSUME NEW d \in Conns, Dial(d)
      PROVE  \/ pc'[c] = pc[c] /\ job'[c] = job[c]
             \/ pc'[c] = "read"
  BY <1>2, <1>q DEF Dial
<1>3. ASSUME NEW d \in Conns, d # c, SessionStep(d)
      PROVE  pc'[c] = pc[c] /\ job'[c] = job[c]
  BY <1>3, SessionFrame
<1>. QED BY <1>1, <1>2, <1>3 DEF Next, ClientStep

\* Where a call in flight comes from.
LEMMA CallKept ==
  ASSUME IInv, Next, call' # None
  PROVE  /\ fd' = fd
         /\ \/ ~call'.sent /\ call'.m.h = fd[call'.m.file].h
            \/ call # None /\ call'.m = call.m /\ (call'.sent => conn' = conn)
<1> USE DEF clientVars, legVars, sessionVars, remoteVars, execVars
<1>t. call \in Outstanding \cup {None}
  BY DEF IInv, TypeOK
<1>1. ASSUME NEW f \in Files, NEW op \in Ops, NEW over \in BOOLEAN, Call(f, op, over)
      PROVE  fd' = fd /\ ~call'.sent /\ call'.m.h = fd[call'.m.file].h
  BY <1>1 DEF Call
<1>2. CASE DialFails \/ SendFails \/ Recv \/ RecvFails \/ Exit
  BY <1>2 DEF DialFails, SendFails, Recv, RecvFails, Complete, Exit
<1>3. ASSUME NEW d \in Conns, Dial(d)
      PROVE  fd' = fd /\ call # None /\ call' = call /\ ~call'.sent
  BY <1>3 DEF Dial
<1>4. CASE Send
  BY <1>4, <1>t DEF Send, Outstanding
<1>5. CASE Spawn \/ \E d \in Conns : HeirExits(d) \/ Cut(d) \/ ExecStep(d)
  BY <1>5 DEF Spawn, HeirExits, Cut, ExecStep, ExecServe, ExecReadFails
<1>6. ASSUME NEW d \in Conns, SessionStep(d)
      PROVE  fd' = fd /\ call' = call /\ conn' = conn
  BY <1>6, SessionFrame
<1>. QED BY <1>1, <1>2, <1>3, <1>4, <1>5, <1>6 DEF Next, ClientStep

\* A call by handle carries its file's handle through both tables and comes
\* back from that file.
LEMMA FlightStep ==
  ASSUME IInv, TypeOK', Next
  PROVE  InFlightByHandle'
<1>t. TypeOK /\ OneToken /\ InFlightByHandle /\ OneToken' /\ OneRelayed'
  BY TokenStep, RelayedStep DEF IInv
<1> SUFFICES ASSUME call' # None, ByHandle(call'.m)
             PROVE  InFlightByHandle'
  BY DEF InFlightByHandle
<1>c. /\ fd' = fd
      /\ \/ ~call'.sent /\ call'.m.h = fd[call'.m.file].h
         \/ call # None /\ call'.m = call.m /\ (call'.sent => conn' = conn)
  BY CallKept
<1>1. call'.m.h = fd'[call'.m.file].h
  BY <1>c, <1>t DEF InFlightByHandle
<1>2. ASSUME NEW c \in Conns, conn' = c, fd'[call'.m.file].via = c
      PROVE  /\ pc'[c] \in {"rpc", "wait"} => RealMeans(c, job[c].h, call.m.file)'
             /\ xrsp'[c] # None /\ xrsp'[c].ok => xrsp'[c].hit = call'.m.file
             /\ rsp'[c] # None /\ rsp'[c].ok => rsp'[c].hit = call'.m.file
  <2>1. CASE ~call'.sent
    BY <1>2, <2>1, <1>t DEF OneToken, TokenOn, Calling, OneRelayed, RelayedOn
  <2>2. CASE call # None /\ call'.m = call.m /\ conn' = conn
    <3>f. /\ conn = c /\ Issued(call.m.file, c) /\ ByHandle(call.m)
          /\ call.m.file \in Files
      BY <1>2, <2>2, <1>c, <1>t DEF Issued, TypeOK, Outstanding, Request
    <3>o. /\ pc[c] \in {"rpc", "wait"} => RealMeans(c, job[c].h, call.m.file)
          /\ xrsp[c] # None /\ xrsp[c].ok => xrsp[c].hit = call.m.file
          /\ rsp[c] # None /\ rsp[c].ok => rsp[c].hit = call.m.file
      BY <2>2, <3>f, <1>t DEF InFlightByHandle
    <3>s. ASSUME SessionStep(c)
          PROVE  /\ pc'[c] \in {"rpc", "wait"} =>
                      \/ pc[c] \in {"rpc", "wait"} /\ job'[c] = job[c]
                      \/ RealMeans(c, job'[c].h, call.m.file)
                 /\ rsp'[c] # None /\ rsp'[c].ok =>
                      rsp'[c] = rsp[c] \/ rsp'[c].hit = call.m.file
      BY <3>s, <3>f, <2>2, SessionFlight
    <3>1. ASSUME pc'[c] \in {"rpc", "wait"}
          PROVE  RealMeans(c, job[c].h, call.m.file)'
      <4>1. RealMeans(c, job'[c].h, call.m.file)
        BY <3>1, <3>s, <3>o, Workers
      <4>2. job'[c] # None /\ job'[c].h \in Nat
        BY <3>1, <1>t DEF OneRelayed, RelayedOn, TypeOK, Request
      <4>3. TablesEvolve(c) /\ xfs[c].next \in Nat /\ xfs'[c].next \in Nat
        BY <1>t, TablesStep DEF TypeOK, IsService
      <4>. QED BY <4>1, <4>2, <4>3, <2>2 DEF RealMeans, TablesEvolve, SvcEvolves
    <3>2. ASSUME xrsp'[c] # None, xrsp'[c].ok PROVE xrsp'[c].hit = call'.m.file
      <4>1. CASE xrsp'[c] = xrsp[c]
        BY <3>2, <4>1, <3>o, <2>2
      <4>2. CASE ExecStep(c) /\ xrsp'[c] # xrsp[c]
        <5>1. /\ pc[c] = "wait"
              /\ ByHandle(job[c]) =>
                   /\ job[c].h \in DOMAIN xfs[c].open
                   /\ xrsp'[c].hit = xfs[c].open[job[c].h]
          BY <3>2, <4>2, ExecAnswers
        <5>2. ByHandle(job[c])
          BY <5>1, <3>f, <1>t DEF OneToken, TokenOn, SameCall, ByHandle
        <5>. QED BY <5>1, <5>2, <3>o, <2>2 DEF RealMeans
      <4>. QED BY <3>2, <4>1, <4>2, Writers
    <3>3. ASSUME rsp'[c] # None, rsp'[c].ok PROVE rsp'[c].hit = call'.m.file
      BY <3>3, <3>o, <3>s, <2>2, Writers
    <3>. QED BY <3>1, <3>2, <3>3
  <2>. QED BY <1>c, <2>1, <2>2
<1>. QED BY <1>1, <1>2 DEF InFlightByHandle, Issued

----------------------------------------------------------------------------
(* The theorems.                                                           *)

\* The initial states satisfy the inductive invariant.
LEMMA InvInit == Init => IInv
<1> SUFFICES ASSUME Init PROVE IInv
  OBVIOUS
<1>1. TypeOK
  BY TypeInit
<1>2. OneToken /\ OneRelayed
  BY ConstantsAssumption DEF Init, OneToken, TokenOn, Calling, OneRelayed, RelayedOn
<1>3. HandlesIssued
  BY DEF Init, HandlesIssued, Empty
<1>4. OwnersKept
  BY ConstantsAssumption DEF Init, OwnersKept, Issued
<1>5. InFlightByHandle
  BY DEF Init, InFlightByHandle
<1>. QED BY <1>1, <1>2, <1>3, <1>4, <1>5 DEF IInv

\* Every step, and every stutter, preserves it.
LEMMA InvStep == IInv /\ [Next]_vars => IInv'
<1> SUFFICES ASSUME IInv, [Next]_vars PROVE IInv'
  OBVIOUS
<1>1. CASE Next
  <2>1. TypeOK'
    <3>1. CASE \/ \E f \in Files, op \in Ops, over \in BOOLEAN : Call(f, op, over)
               \/ ClientStep \/ Spawn \/ Exit
      BY <3>1, ClientTypes
    <3>2. ASSUME NEW c \in Conns, SessionStep(c) PROVE TypeOK'
      BY <3>2, SessionTypes
    <3>3. ASSUME NEW c \in Conns, ExecStep(c) \/ HeirExits(c) \/ Cut(c) PROVE TypeOK'
      BY <3>3, OtherTypes
    <3>. QED BY <1>1, <3>1, <3>2, <3>3 DEF Next
  <2>2. OneToken' /\ OneRelayed'
    BY <1>1, <2>1, TokenStep, RelayedStep
  <2>3. HandlesIssued' /\ OwnersKept' /\ InFlightByHandle'
    BY <1>1, <2>1, IssuedStep, OwnersStep, FlightStep
  <2>. QED BY <2>1, <2>2, <2>3 DEF IInv
<1>2. CASE UNCHANGED vars
  <2>. USE DEF vars, clientVars, legVars, sessionVars, remoteVars, execVars
  <2>1. TypeOK'
    BY <1>2 DEF IInv, TypeOK
  <2>2. OneToken' /\ OneRelayed'
    BY <1>2 DEF IInv, OneToken, TokenOn, Calling, OneRelayed, RelayedOn
  <2>3. HandlesIssued' /\ OwnersKept' /\ InFlightByHandle'
    BY <1>2 DEF IInv, HandlesIssued, OwnersKept, Means, RealMeans, Resolve, Issued,
                InFlightByHandle
  <2>. QED BY <2>1, <2>2, <2>3 DEF IInv
<1>. QED BY <1>1, <1>2

\* For every set of opens, routing and connections, the strengthening of the
\* safety properties below holds in every reachable state of the relay.
THEOREM Invariant == Spec => []IInv
BY InvInit, InvStep, PTL DEF Spec

\* Every variable of the client, session and executor keeps its type.
THEOREM TypeCorrect == Spec => []TypeOK
<1>1. IInv => TypeOK
  BY DEF IInv
<1>. QED BY <1>1, Invariant, PTL

\* A response on a leg always answers the call in flight there, although no
\* frame carries a request id (Client.call, rpc_call, remoteRPC).
THEOREM LockstepHolds == Spec => []Lockstep
<1>1. IInv => Lockstep
  <2> SUFFICES ASSUME IInv PROVE Lockstep
    OBVIOUS
  <2>1. conn \in Conns \cup {None}
    BY DEF IInv, TypeOK
  <2>2. conn # None /\ rsp[conn] # None =>
          call # None /\ call.sent /\ SameCall(rsp[conn].req, call.m)
    BY <2>1 DEF IInv, OneToken, TokenOn, Calling
  <2>3. \A c \in Conns : xrsp[c] # None => pc[c] = "wait" /\ xrsp[c].req = job[c]
    BY DEF IInv, OneRelayed, RelayedOn
  <2>. QED BY <2>2, <2>3 DEF Lockstep
<1>. QED BY <1>1, Invariant, PTL

\* A successful read, write or close on the connection that opened its file
\* acted on that file (session.byHandle, FSService): no handle is ever aliased
\* within a connection, on either level of the handle table.
THEOREM HandleFidelityHolds == Spec => []HandleFidelity
<1>1. IInv => HandleFidelity
  <2> SUFFICES ASSUME IInv, conn # None, rsp[conn] # None, rsp[conn].ok,
                      ByHandle(rsp[conn].req), Issued(call.m.file, conn)
               PROVE  rsp[conn].hit = call.m.file
    BY DEF HandleFidelity
  <2>1. conn \in Conns
    BY DEF IInv, TypeOK
  <2>2. call # None /\ SameCall(rsp[conn].req, call.m)
    BY <2>1 DEF IInv, OneToken, TokenOn, Calling
  <2>3. ByHandle(call.m)
    BY <2>2 DEF SameCall, ByHandle
  <2>. QED BY <2>1, <2>2, <2>3 DEF IInv, InFlightByHandle
<1>. QED BY <1>1, Invariant, PTL
=============================================================================

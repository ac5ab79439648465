------------------------------ MODULE FsRelay ------------------------------
(***************************************************************************)
(* The filesystem IO-RPC relay: one intercepted process (the FUSE client   *)
(* of linuxfuse, or the macOS dylib's rpc_call), the adapter's session for *)
(* each of its connections, and the executor stream each session dials.    *)
(*                                                                         *)
(*   client --req/rsp--> adapter session --xreq/xrsp--> executor FSService *)
(*                              |                                          *)
(*                              +--> brain-side FSService (lfs)            *)
(*                                                                         *)
(* Every leg carries one request at a time and has no request ids: a       *)
(* response is matched to a call only by its place on the connection.      *)
(*                                                                         *)
(* A member of Files is one open(2) of the intercepted process: the path   *)
(* it names is routed to the executor iff it is in RemoteFiles.  File      *)
(* contents are left out; what a response carries instead is "hit", the    *)
(* open file it was served from (a ghost no program reads), and "req", the *)
(* request it answers.                                                     *)
(***************************************************************************)
EXTENDS Integers, FiniteSets, Functions

CONSTANTS
  Files,        \* the opens the intercepted process performs, each at most once
  RemoteFiles,  \* those whose path is routed to the executor
  Conns,        \* the connections the client can dial (bounds reconnects)
  None          \* no connection, no message, no file

ASSUME ConstantsAssumption ==
  /\ RemoteFiles \subseteq Files
  /\ None \notin Files
  /\ None \notin Conns

VARIABLES
  \* the intercepted process: Client.call / rpc_call
  alive,     \* it has not exited
  conn,      \* Client.conn / rpc_fd
  call,      \* the RPC holding Client.mu / rpc_mtx, or None
  fd,        \* per open: its state, adapter handle and issuing connection
  \* client leg
  holders,   \* processes that hold the client end of the socket
  req, rsp,  \* the frame in flight in each direction
  \* adapter session
  pc, job,   \* where serveConn is, and the request it relays
  handles,   \* session.handles
  next,      \* session.next
  lfs,       \* session.localFS
  \* executor leg and the executor's stream goroutine
  strm,      \* session.remote: "none" (nil), "up", "cut" (non-nil and broken)
  xreq, xrsp,
  xpc, xfs   \* serveFS: its state and its own FSService

clientVars  == <<alive, conn, call, fd>>
legVars     == <<holders, req, rsp>>
sessionVars == <<pc, job, handles, next, lfs>>
remoteVars  == <<strm, xreq, xrsp>>
execVars    == <<xpc, xfs>>
vars == <<clientVars, legVars, sessionVars, remoteVars, execVars>>

Ops == {"open", "io", "close", "path"}

\* over: the frame that carries the data of this operation exceeds MaxFrame.
Request  == [op : Ops, file : Files, h : Nat, over : BOOLEAN]
Response == [ok : BOOLEAN, h : Nat, hit : Files \cup {None}, req : Request]
Outstanding == [m : Request, sent : BOOLEAN]
HandleRef == [remote : BOOLEAN, real : Nat]

ASSUME NoneAssumption == None \notin Request \cup Response \cup Outstanding

ByHandle(m)   == m.op \in {"io", "close"}
IsRemote(f)   == f \in RemoteFiles

\* A request frame is too large when it carries the data (WRITEFILE), a
\* response frame when the read it answers was too large (PREAD).
RequestFits(m)  == ~(m.over /\ m.op = "path")
ResponseFits(r) == ~(r.req.over /\ r.req.op = "io" /\ r.ok)

\* Mutant of Fail: the errno lands in the handle field.
ErrnoAsHandle(m) == [ok |-> FALSE, h |-> -5, hit |-> None, req |-> m]
Fail(m)         == [ok |-> FALSE, h |-> 0, hit |-> None, req |-> m]
Done(m, h, hit) == [ok |-> TRUE, h |-> h, hit |-> hit, req |-> m]

Put(f, k, v) == [x \in DOMAIN f \cup {k} |-> IF x = k THEN v ELSE f[x]]
Drop(f, k)   == Restrict(f, DOMAIN f \ {k})
Empty        == [x \in {} |-> None]

----------------------------------------------------------------------------
(* FSService: a table of open files.  Handle returns one response; the     *)
(* operating system below it may refuse any operation.                     *)

NewFSService == [open |-> Empty, next |-> 1]

\* Mutant of CloseAll: nothing is closed when a stream ends.
KeepOpen(s) == s

CloseAll(s) == [s EXCEPT !.open = Empty]

OpenFile(s, m) ==
  {[fs |-> s, resp |-> Fail(m)],
   [fs   |-> [open |-> Put(s.open, s.next, m.file), next |-> s.next + 1],
    resp |-> Done(m, s.next, m.file)]}

UseFile(s, m) ==
  IF m.h \in DOMAIN s.open
    THEN {[fs |-> s, resp |-> r] : r \in {Fail(m), Done(m, 0, s.open[m.h])}}
    ELSE {[fs |-> s, resp |-> Fail(m)]}

CloseFile(s, m) ==
  IF m.h \in DOMAIN s.open
    THEN {[fs |-> [s EXCEPT !.open = Drop(s.open, m.h)], resp |-> r] :
            r \in {Fail(m), Done(m, 0, s.open[m.h])}}
    ELSE {[fs |-> s, resp |-> Fail(m)]}

UsePath(s, m) ==
  {[fs |-> s, resp |-> r] : r \in {Fail(m), Done(m, 0, m.file)}}

Handle(s, m) ==
  CASE m.op = "open"  -> OpenFile(s, m)
    [] m.op = "io"    -> UseFile(s, m)
    [] m.op = "close" -> CloseFile(s, m)
    [] OTHER          -> UsePath(s, m)

----------------------------------------------------------------------------
Init ==
  /\ alive = TRUE
  /\ conn = None
  /\ call = None
  /\ fd = [f \in Files |-> [st |-> "fresh", h |-> 0, via |-> None]]
  /\ holders = [c \in Conns |-> {}]
  /\ req = [c \in Conns |-> None]
  /\ rsp = [c \in Conns |-> None]
  /\ pc = [c \in Conns |-> "none"]
  /\ job = [c \in Conns |-> None]
  /\ handles = [c \in Conns |-> Empty]
  /\ next = [c \in Conns |-> 1]
  /\ lfs = [c \in Conns |-> NewFSService]
  /\ strm = [c \in Conns |-> "none"]
  /\ xreq = [c \in Conns |-> None]
  /\ xrsp = [c \in Conns |-> None]
  /\ xpc = [c \in Conns |-> "none"]
  /\ xfs = [c \in Conns |-> NewFSService]

----------------------------------------------------------------------------
(* The intercepted process.                                                *)

\* What the caller does with the outcome of its RPC: an open remembers its
\* handle, a close forgets the file whatever the adapter answered.
Complete(ok, h) ==
  /\ call' = None
  /\ fd' = CASE call.m.op = "open" /\ ok ->
                 [fd EXCEPT ![call.m.file] = [st |-> "open", h |-> h, via |-> conn]]
             [] call.m.op = "open" /\ ~ok -> [fd EXCEPT ![call.m.file].st = "closed"]
             [] call.m.op = "close"       -> [fd EXCEPT ![call.m.file].st = "closed"]
             [] OTHER                     -> fd

\* Client.reset / close(rpc_fd): the handles it issued stay with their files.
Reset ==
  /\ conn' = None
  /\ holders' = [holders EXCEPT ![conn] = @ \ {"client"}]
  /\ rsp' = [rsp EXCEPT ![conn] = None]

Call(f, op, over) ==
  /\ alive /\ call = None
  /\ \/ op = "open" /\ fd[f].st = "fresh"
     \/ op \in {"io", "close"} /\ fd[f].st = "open"
     \/ op = "path"
  /\ over => op \in {"io", "path"}
  /\ call' = [m |-> [op |-> op, file |-> f, h |-> fd[f].h, over |-> over],
              sent |-> FALSE]
  /\ UNCHANGED <<alive, conn, fd, legVars, sessionVars, remoteVars, execVars>>

\* The adapter accepts and starts a session with an empty handle table.
Dial(c) ==
  /\ call # None /\ ~call.sent /\ conn = None
  /\ pc[c] = "none"
  /\ conn' = c
  /\ holders' = [holders EXCEPT ![c] = {"client"}]
  /\ pc' = [pc EXCEPT ![c] = "read"]
  /\ UNCHANGED <<alive, call, fd, req, rsp, job, handles, next, lfs,
                 remoteVars, execVars>>

DialFails ==
  /\ call # None /\ ~call.sent /\ conn = None
  /\ Complete(FALSE, 0)
  /\ UNCHANGED <<alive, conn, legVars, sessionVars, remoteVars, execVars>>

Send ==
  /\ call # None /\ ~call.sent /\ conn # None
  /\ pc[conn] # "ended"
  /\ req' = [req EXCEPT ![conn] = call.m]
  /\ call' = [call EXCEPT !.sent = TRUE]
  /\ UNCHANGED <<alive, conn, fd, holders, rsp, sessionVars, remoteVars, execVars>>

\* The peer has closed, or the Go client refuses to write an oversized frame.
SendFails ==
  /\ call # None /\ ~call.sent /\ conn # None
  /\ pc[conn] = "ended" \/ ~RequestFits(call.m)
  /\ Complete(FALSE, 0)
  /\ Reset
  /\ UNCHANGED <<alive, req, sessionVars, remoteVars, execVars>>

Recv ==
  /\ call # None /\ call.sent
  /\ rsp[conn] # None
  /\ Complete(rsp[conn].ok, rsp[conn].h)
  /\ rsp' = [rsp EXCEPT ![conn] = None]
  /\ UNCHANGED <<alive, conn, holders, req, sessionVars, remoteVars, execVars>>

\* Mutant of RecvFails: giving up on a late answer without dropping the
\* connection it will arrive on.
GiveUpWaiting ==
  /\ call # None /\ call.sent
  /\ rsp[conn] = None
  /\ Complete(FALSE, 0)
  /\ UNCHANGED <<alive, conn, legVars, sessionVars, remoteVars, execVars>>

\* The adapter closed the connection without answering.
RecvFails ==
  /\ call # None /\ call.sent
  /\ rsp[conn] = None /\ pc[conn] = "ended"
  /\ Complete(FALSE, 0)
  /\ Reset
  /\ UNCHANGED <<alive, req, sessionVars, remoteVars, execVars>>

\* The dylib's socket is not close-on-exec: a spawned child inherits it.
Spawn ==
  /\ alive /\ conn # None
  /\ holders' = [holders EXCEPT ![conn] = @ \cup {"heir"}]
  /\ UNCHANGED <<clientVars, req, rsp, sessionVars, remoteVars, execVars>>

HeirExits(c) ==
  /\ "heir" \in holders[c]
  /\ holders' = [holders EXCEPT ![c] = @ \ {"heir"}]
  /\ UNCHANGED <<clientVars, req, rsp, sessionVars, remoteVars, execVars>>

\* The process exits or is killed, perhaps with a call in flight.
Exit ==
  /\ alive
  /\ alive' = FALSE
  /\ call' = None
  /\ conn' = None
  /\ fd' = [f \in Files |-> [fd[f] EXCEPT !.st = "closed"]]
  /\ holders' = [c \in Conns |-> holders[c] \ {"client"}]
  /\ UNCHANGED <<req, rsp, sessionVars, remoteVars, execVars>>

----------------------------------------------------------------------------
(* The adapter session of connection c: serveConn.                         *)

\* session.close, deferred by serveConn; fs is localFS as the step leaves it.
Close(c, fs) ==
  /\ pc' = [pc EXCEPT ![c] = "ended"]
  /\ lfs' = [lfs EXCEPT ![c] = CloseAll(fs)]
  /\ strm' = [strm EXCEPT ![c] = IF @ = "up" THEN "cut" ELSE @]
  /\ UNCHANGED rsp

\* SendResponse: writing fails when nobody holds the other end, or when the
\* frame is too large; the session then ends.
Reply(c, r, fs) ==
  IF holders[c] # {} /\ ResponseFits(r)
    THEN /\ rsp' = [rsp EXCEPT ![c] = r]
         /\ pc' = [pc EXCEPT ![c] = "read"]
         /\ lfs' = [lfs EXCEPT ![c] = fs]
         /\ UNCHANGED strm
    ELSE Close(c, fs)

\* Mutants of Register: the counter is not advanced; the side is not recorded.
RegisterInPlace(c, remote, r) ==
  /\ handles' = IF r.req.op = "open" /\ r.ok
                  THEN [handles EXCEPT ![c] =
                          Put(@, next[c], [remote |-> remote, real |-> r.h])]
                  ELSE handles
  /\ UNCHANGED next

RegisterSideless(c, remote, r) ==
  IF r.req.op = "open" /\ r.ok
    THEN /\ handles' = [handles EXCEPT ![c] =
                          Put(@, next[c], [remote |-> FALSE, real |-> r.h])]
         /\ next' = [next EXCEPT ![c] = @ + 1]
    ELSE UNCHANGED <<handles, next>>

\* session.open's bookkeeping: wrap the side-local handle.
Register(c, remote, r) ==
  IF r.req.op = "open" /\ r.ok
    THEN /\ handles' = [handles EXCEPT ![c] =
                          Put(@, next[c], [remote |-> remote, real |-> r.h])]
         /\ next' = [next EXCEPT ![c] = @ + 1]
    ELSE UNCHANGED <<handles, next>>

\* The response the client gets: an open carries the adapter's own handle.
Wrap(c, r) == IF r.req.op = "open" /\ r.ok THEN [r EXCEPT !.h = next[c]] ELSE r

\* Mutant of Rewrite: the adapter's own handle is sent on.
NoRewrite(m, ref) == m

\* byHandle's rewriting of the request.
Rewrite(m, ref) == [m EXCEPT !.h = ref.real]

Readable(c) == pc[c] = "read" /\ req[c] # None /\ RequestFits(req[c])

\* A request routed to the brain is served inside the session.
ServeLocal(c) ==
  /\ Readable(c)
  /\ ~ByHandle(req[c]) /\ ~IsRemote(req[c].file)
  /\ \E o \in Handle(lfs[c], req[c]) :
        /\ Register(c, FALSE, o.resp)
        /\ Reply(c, Wrap(c, o.resp), o.fs)
  /\ req' = [req EXCEPT ![c] = None]
  /\ UNCHANGED <<clientVars, holders, job, xreq, xrsp, execVars>>

\* rename across the routing boundary, or a handle this session never issued
\* or has closed: refused without touching either side.
Refuse(c) ==
  /\ Readable(c)
  /\ \/ req[c].op = "path"
     \/ ByHandle(req[c]) /\ req[c].h \notin DOMAIN handles[c]
  /\ Reply(c, Fail(req[c]), lfs[c])
  /\ req' = [req EXCEPT ![c] = None]
  /\ UNCHANGED <<clientVars, holders, job, handles, next, xreq, xrsp, execVars>>

\* Mutant of Forget: a closed handle stays in the table.
ForgetNothing(c) == UNCHANGED handles

\* byHandle forgets the handle before it relays a close.
Forget(c) ==
  handles' = IF req[c].op = "close"
               THEN [handles EXCEPT ![c] = Drop(@, req[c].h)]
               ELSE handles

ServeLocalHandle(c) ==
  /\ Readable(c)
  /\ ByHandle(req[c]) /\ req[c].h \in DOMAIN handles[c]
  /\ ~handles[c][req[c].h].remote
  /\ Forget(c)
  /\ \E o \in Handle(lfs[c], Rewrite(req[c], handles[c][req[c].h])) :
        Reply(c, o.resp, o.fs)
  /\ req' = [req EXCEPT ![c] = None]
  /\ UNCHANGED <<clientVars, holders, job, next, xreq, xrsp, execVars>>

\* A request routed to the executor: remoteRPC takes over.
Relay(c) ==
  /\ Readable(c)
  /\ \/ /\ ~ByHandle(req[c]) /\ IsRemote(req[c].file)
        /\ job' = [job EXCEPT ![c] = req[c]]
        /\ UNCHANGED handles
     \/ /\ ByHandle(req[c]) /\ req[c].h \in DOMAIN handles[c]
        /\ handles[c][req[c].h].remote
        /\ job' = [job EXCEPT ![c] = Rewrite(req[c], handles[c][req[c].h])]
        /\ Forget(c)
  /\ pc' = [pc EXCEPT ![c] = "rpc"]
  /\ req' = [req EXCEPT ![c] = None]
  /\ UNCHANGED <<clientVars, holders, rsp, next, lfs, remoteVars, execVars>>

\* ReadRequest fails: end of stream, or a frame above MaxFrame.
ReadFails(c) ==
  /\ pc[c] = "read"
  /\ \/ req[c] = None /\ holders[c] = {}
     \/ req[c] # None /\ ~RequestFits(req[c])
  /\ Close(c, lfs[c])
  /\ req' = [req EXCEPT ![c] = None]
  /\ UNCHANGED <<clientVars, holders, job, handles, next, xreq, xrsp, execVars>>

\* remoteRPC dials lazily, once; the executor's goroutine starts with it.
RemoteDial(c) ==
  /\ pc[c] = "rpc" /\ strm[c] = "none"
  /\ strm' = [strm EXCEPT ![c] = "up"]
  /\ xpc' = [xpc EXCEPT ![c] = "serving"]
  /\ UNCHANGED <<clientVars, legVars, sessionVars, xreq, xrsp, xfs>>

RemoteSend(c) ==
  /\ pc[c] = "rpc" /\ strm[c] # "none"
  /\ xreq' = IF strm[c] = "up" THEN [xreq EXCEPT ![c] = job[c]] ELSE xreq
  /\ pc' = [pc EXCEPT ![c] = "wait"]
  /\ UNCHANGED <<clientVars, legVars, job, handles, next, lfs, strm, xrsp, execVars>>

\* The dial fails, or the write on a broken stream does: EIO.  session.remote
\* is left as it is.
RemoteFails(c) ==
  /\ pc[c] = "rpc" /\ strm[c] \in {"none", "cut"}
  /\ Reply(c, Fail(job[c]), lfs[c])
  /\ job' = [job EXCEPT ![c] = None]
  /\ UNCHANGED <<clientVars, holders, req, handles, next, xreq, xrsp, execVars>>

RemoteRecv(c) ==
  /\ pc[c] = "wait" /\ xrsp[c] # None
  /\ Register(c, TRUE, xrsp[c])
  /\ Reply(c, Wrap(c, xrsp[c]), lfs[c])
  /\ job' = [job EXCEPT ![c] = None]
  /\ xrsp' = [xrsp EXCEPT ![c] = None]
  /\ UNCHANGED <<clientVars, holders, req, xreq, execVars>>

\* Mutant of RemoteRecvFails: a broken stream is never noticed while waiting.
NeverNoticed(c) == FALSE /\ UNCHANGED vars

\* ReadResponse fails on a broken stream, whose buffered data is lost: EIO.
RemoteRecvFails(c) ==
  /\ pc[c] = "wait" /\ strm[c] = "cut"
  /\ Reply(c, Fail(job[c]), lfs[c])
  /\ job' = [job EXCEPT ![c] = None]
  /\ xrsp' = [xrsp EXCEPT ![c] = None]
  /\ UNCHANGED <<clientVars, holders, req, handles, next, xreq, execVars>>

----------------------------------------------------------------------------
(* The executor's goroutine for the stream of connection c: serveFS.       *)

\* fs.CloseAll and stream.Close, deferred by serveFS.
ExecEnd(c, fs) ==
  /\ xpc' = [xpc EXCEPT ![c] = "ended"]
  /\ xfs' = [xfs EXCEPT ![c] = CloseAll(fs)]
  /\ strm' = [strm EXCEPT ![c] = "cut"]

ExecServe(c) ==
  /\ xpc[c] = "serving" /\ xreq[c] # None
  /\ \E o \in Handle(xfs[c], xreq[c]) :
       IF strm[c] = "up" /\ ResponseFits(o.resp)
         THEN /\ xrsp' = [xrsp EXCEPT ![c] = o.resp]
              /\ xfs' = [xfs EXCEPT ![c] = o.fs]
              /\ UNCHANGED <<strm, xpc>>
         ELSE ExecEnd(c, o.fs) /\ UNCHANGED xrsp
  /\ xreq' = [xreq EXCEPT ![c] = None]
  /\ UNCHANGED <<clientVars, legVars, sessionVars>>

\* ReadRequest fails; a request still in the network is lost with the stream.
ExecReadFails(c) ==
  /\ xpc[c] = "serving" /\ strm[c] = "cut"
  /\ ExecEnd(c, xfs[c])
  /\ xreq' = [xreq EXCEPT ![c] = None]
  /\ UNCHANGED <<clientVars, legVars, sessionVars, xrsp>>

\* The transport under the stream breaks, or the executor process dies.
Cut(c) ==
  /\ strm[c] = "up"
  /\ strm' = [strm EXCEPT ![c] = "cut"]
  /\ UNCHANGED <<clientVars, legVars, sessionVars, xreq, xrsp, execVars>>

----------------------------------------------------------------------------
ClientStep ==
  \/ \E c \in Conns : Dial(c)
  \/ DialFails \/ Send \/ SendFails \/ Recv \/ RecvFails

SessionStep(c) ==
  \/ ServeLocal(c) \/ ServeLocalHandle(c) \/ Refuse(c) \/ Relay(c) \/ ReadFails(c)
  \/ RemoteDial(c) \/ RemoteSend(c) \/ RemoteFails(c)
  \/ RemoteRecv(c) \/ RemoteRecvFails(c)

ExecStep(c) == ExecServe(c) \/ ExecReadFails(c)

Next ==
  \/ \E f \in Files, op \in Ops, over \in BOOLEAN : Call(f, op, over)
  \/ ClientStep
  \/ Spawn \/ Exit
  \/ \E c \in Conns : HeirExits(c) \/ SessionStep(c) \/ ExecStep(c) \/ Cut(c)

Spec == Init /\ [][Next]_vars

\* The goroutines and the client's caller run whenever they can; nothing
\* makes the process issue a call, a stream break or a child exit.
Fairness ==
  /\ WF_vars(ClientStep)
  /\ \A c \in Conns : WF_vars(SessionStep(c)) /\ WF_vars(ExecStep(c))

FairSpec == Spec /\ Fairness

----------------------------------------------------------------------------
(* Properties.                                                             *)

\* A handle table: finitely many handles, each standing for a member of S.
IsTable(t, S) == DOMAIN t \subseteq Nat /\ t \in [DOMAIN t -> S]

IsService(s) ==
  s = [open |-> s.open, next |-> s.next] /\ IsTable(s.open, Files) /\ s.next \in Nat

\* Types of every variable, for the whole chain.
TypeOK ==
  /\ alive \in BOOLEAN
  /\ conn \in Conns \cup {None}
  /\ call \in Outstanding \cup {None}
  /\ fd \in [Files -> [st : {"fresh", "open", "closed"}, h : Nat,
                       via : Conns \cup {None}]]
  /\ holders \in [Conns -> SUBSET {"client", "heir"}]
  /\ req \in [Conns -> Request \cup {None}]
  /\ rsp \in [Conns -> Response \cup {None}]
  /\ pc \in [Conns -> {"none", "read", "rpc", "wait", "ended"}]
  /\ job \in [Conns -> Request \cup {None}]
  /\ handles = [c \in Conns |-> handles[c]]
  /\ next \in [Conns -> Nat]
  /\ lfs = [c \in Conns |-> lfs[c]]
  /\ strm \in [Conns -> {"none", "up", "cut"}]
  /\ xreq \in [Conns -> Request \cup {None}]
  /\ xrsp \in [Conns -> Response \cup {None}]
  /\ xpc \in [Conns -> {"none", "serving", "ended"}]
  /\ xfs = [c \in Conns |-> xfs[c]]
  /\ \A c \in Conns :
       IsTable(handles[c], HandleRef) /\ IsService(lfs[c]) /\ IsService(xfs[c])

SameCall(a, b) == a.op = b.op /\ a.file = b.file

\* The one call in flight on the client's connection is the one the next
\* response answers, although no frame says so; the same between the session
\* and its stream (rpc_call / Client.call / remoteRPC, which match a response
\* to a request by position alone).
Lockstep ==
  /\ conn # None /\ rsp[conn] # None =>
       call # None /\ call.sent /\ SameCall(rsp[conn].req, call.m)
  /\ \A c \in Conns : xrsp[c] # None => pc[c] = "wait" /\ xrsp[c].req = job[c]

Issued(f, c) == fd[f].via = c

\* A read, write or close that succeeds on the connection that opened its file
\* was performed on that very file, whatever was opened, closed, broken or
\* refused in between (session.byHandle, FSService.pread/pwrite/close).
HandleFidelity ==
  conn # None /\ rsp[conn] # None =>
    LET r == rsp[conn] IN
      r.ok /\ ByHandle(r.req) /\ Issued(call.m.file, conn) => r.hit = call.m.file

\* The same of every success, with no condition on the connection.
AnyHandleFidelity ==
  conn # None /\ rsp[conn] # None =>
    LET r == rsp[conn] IN r.ok /\ ByHandle(r.req) => r.hit = call.m.file

Live(c) == pc[c] \in {"read", "rpc", "wait"}

Reals(c, remote) ==
  {handles[c][h].real :
     h \in {x \in DOMAIN handles[c] : handles[c][x].remote = remote}}

\* Executor handles that only a request or a response in flight knows of.
InTransit(c) ==
  LET closing == IF pc[c] \in {"rpc", "wait"} /\ job[c].op = "close" /\ xrsp[c] = None
                   THEN {job[c].h} ELSE {}
      opening == IF xrsp[c] # None /\ xrsp[c].ok /\ xrsp[c].req.op = "open"
                   THEN {xrsp[c].h} ELSE {}
  IN closing \cup opening

\* Nothing leaks while a connection lives: the brain's open files are exactly
\* those behind the session's handles, the executor's exactly those plus the
\* one being opened or closed, and every handle belongs to a file the process
\* still holds (session.open, byHandle, FSService.close; executor.go: "handles
\* never leak across connections").
NoLeak ==
  \A c \in Conns : Live(c) =>
    /\ DOMAIN lfs[c].open = Reals(c, FALSE)
    /\ strm[c] = "up" => DOMAIN xfs[c].open = Reals(c, TRUE) \cup InTransit(c)
    /\ conn = c =>
         \A h \in DOMAIN handles[c] :
           \/ \E f \in Files : fd[f].st = "open" /\ fd[f].via = c /\ fd[f].h = h
           \/ rsp[c] # None /\ rsp[c].ok /\ rsp[c].h = h

\* No file was opened through another connection than c.
OnlyConnection(c) == \A f \in Files : fd[f].via \in {None, c}

\* An open file whose session and stream have not broken is still there: its
\* handle resolves, through both tables, to the file it was opened as.  Only a
\* file left over from an earlier connection can take it away.
OpenStaysOpen ==
  \A f \in Files :
    LET c == fd[f].via  h == fd[f].h IN
      /\ fd[f].st = "open" /\ c # None /\ Live(c) /\ OnlyConnection(c)
      /\ ~(call # None /\ call.sent /\ call.m.op = "close" /\ call.m.file = f)
      /\ conn = c /\ (f \in RemoteFiles => strm[c] = "up")
      => /\ h \in DOMAIN handles[c]
         /\ handles[c][h].remote = (f \in RemoteFiles)
         /\ LET s == IF handles[c][h].remote THEN xfs[c] ELSE lfs[c] IN
              /\ handles[c][h].real \in DOMAIN s.open
              /\ s.open[handles[c][h].real] = f

\* Every call returns to its caller: no break, refusal, oversized frame or
\* exit leaves it holding the mutex for ever.
CallReturns == call # None ~> call = None

Released(c) ==
  pc[c] = "ended" /\ xpc[c] # "serving"
  /\ DOMAIN lfs[c].open = {} /\ DOMAIN xfs[c].open = {}

\* Once no process holds the connection, the session and its stream end and
\* every file opened through it, on either host, is closed.
AbandonedIsReleased ==
  \A c \in Conns : pc[c] # "none" /\ holders[c] = {} ~> Released(c)

----------------------------------------------------------------------------
(* The inductive invariant behind Lockstep and HandleFidelity.             *)

Calling(c) == conn = c /\ call # None /\ call.sent

TokenOn(c) ==
  /\ conn = c => pc[c] # "none"
  /\ pc[c] = "none" => req[c] = None /\ rsp[c] = None
  /\ conn = c /\ req[c] # None =>
       /\ Calling(c) /\ req[c] = call.m /\ rsp[c] = None
       /\ pc[c] \notin {"rpc", "wait"}
  /\ conn = c /\ pc[c] \in {"rpc", "wait"} =>
       Calling(c) /\ SameCall(job[c], call.m) /\ rsp[c] = None
  /\ conn = c /\ rsp[c] # None => Calling(c) /\ SameCall(rsp[c].req, call.m)

\* At most one token stands for the call in flight on the client's connection:
\* its request, the session at work on it, or its response.
OneToken ==
  /\ call # None /\ call.sent => conn # None
  /\ \A c \in Conns : TokenOn(c)

\* The same between a session and its stream, as long as that can still answer.
RelayedOn(c) ==
  /\ pc[c] \in {"rpc", "wait"} => job[c] # None
  /\ strm[c] = "none" => pc[c] # "wait" /\ xpc[c] = "none" /\ xreq[c] = None
  /\ strm[c] = "up" /\ xreq[c] # None =>
       pc[c] = "wait" /\ xreq[c] = job[c] /\ xrsp[c] = None
  /\ xrsp[c] # None => pc[c] = "wait" /\ xrsp[c].req = job[c]

OneRelayed == \A c \in Conns : RelayedOn(c)

\* Handles are numbers already issued, on both levels.
HandlesIssued ==
  \A c \in Conns : \A h \in DOMAIN handles[c] :
    /\ h < next[c]
    /\ handles[c][h].real <
         (IF handles[c][h].remote THEN xfs[c].next ELSE lfs[c].next)

Resolve(c, h) ==
  LET s == IF handles[c][h].remote THEN xfs[c] ELSE lfs[c]
      r == handles[c][h].real
  IN IF r \in DOMAIN s.open THEN s.open[r] ELSE None

\* Handle h of session c is, or will be, no other file than f.
Means(c, h, f) ==
  h < next[c] /\ (h \in DOMAIN handles[c] => Resolve(c, h) \in {f, None})

\* The same of the executor's handle r on the stream of session c.
RealMeans(c, r, f) ==
  r < xfs[c].next /\ (r \in DOMAIN xfs[c].open => xfs[c].open[r] = f)

\* What the process holds, and what an answered open is about to give it.
OwnersKept ==
  \A c \in Conns :
    /\ \A f \in Files : Issued(f, c) => Means(c, fd[f].h, f)
    /\ xrsp[c] # None /\ xrsp[c].ok /\ xrsp[c].req.op = "open" =>
         RealMeans(c, xrsp[c].h, xrsp[c].req.file)
    /\ conn = c /\ rsp[c] # None /\ rsp[c].ok /\ rsp[c].req.op = "open" =>
         Means(c, rsp[c].h, rsp[c].req.file)

\* A request by handle carries the handle of its file; relayed, the real one.
InFlightByHandle ==
  /\ call # None /\ ByHandle(call.m) => call.m.h = fd[call.m.file].h
  /\ \A c \in Conns :
       conn = c /\ call # None /\ ByHandle(call.m) /\ Issued(call.m.file, c) =>
         /\ pc[c] \in {"rpc", "wait"} => RealMeans(c, job[c].h, call.m.file)
         /\ xrsp[c] # None /\ xrsp[c].ok => xrsp[c].hit = call.m.file
         /\ rsp[c] # None /\ rsp[c].ok => rsp[c].hit = call.m.file

IInv ==
  TypeOK /\ OneToken /\ OneRelayed /\ HandlesIssued /\ OwnersKept /\ InFlightByHandle

----------------------------------------------------------------------------
(* The session as a single table of handles.                               *)

\* Where connection c is, and the one table its handles make up: a handle stands
\* for what it resolves to through the session's table and its side's.
PhaseOf(c)  == CASE pc[c] = "none"  -> "idle"
                 [] pc[c] = "ended" -> "over"
                 [] OTHER           -> "live"
TableOf(c)  == IF pc[c] = "ended" THEN Empty
                                  ELSE [h \in DOMAIN handles[c] |-> Resolve(c, h)]
IssuedOf(c) == IF pc[c] = "ended" THEN 0 ELSE next[c] - 1

phaseBar  == [c \in Conns |-> PhaseOf(c)]
tableBar  == [c \in Conns |-> TableOf(c)]
issuedBar == [c \in Conns |-> IssuedOf(c)]

HS == INSTANCE HandleService WITH phase <- phaseBar, table <- tableBar, issued <- issuedBar

\* The two tables and the messages between them implement one table.
ImplementsHandleService == HS!Spec

----------------------------------------------------------------------------
\* A process that keeps making calls which its session has to relay to the
\* executor, whatever errors it gets.
Retrying == \E f \in RemoteFiles : Call(f, "path", FALSE)
RetrySpec ==
  FairSpec /\ WF_vars(Retrying) /\ \A c \in Conns : SF_vars(Relay(c))

\* "reconnecting on error": a client whose session has lost its executor
\* stream gets a working stream again, or a new connection to try.
StreamRecovers ==
  \A c \in Conns :
    conn = c /\ strm[c] = "cut" ~> ~alive \/ conn # c \/ strm[c] = "up"
=============================================================================

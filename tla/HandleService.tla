--------------------------- MODULE HandleService ---------------------------
(***************************************************************************)
(* What an adapter session promises the process behind its connection: one *)
(* table from handles to open files.  An open adds a handle never issued   *)
(* before on that connection, a close removes one, the loss of the         *)
(* executor stream kills the routed files for good, and the end of the     *)
(* session releases everything.  Nothing else ever changes what a handle   *)
(* means.                                                                  *)
(***************************************************************************)
EXTENDS Naturals

CONSTANTS Files, RemoteFiles, Conns, None

VARIABLES
  phase,   \* "idle", "live" or "over" for each connection
  table,   \* its handles; None marks a file that is gone
  issued   \* how many handles it has handed out: 1, 2, ...
vars == <<phase, table, issued>>

Empty == [x \in {} |-> None]

Init ==
  /\ phase = [c \in Conns |-> "idle"]
  /\ table = [c \in Conns |-> Empty]
  /\ issued = [c \in Conns |-> 0]

Start(c) ==
  /\ phase[c] = "idle"
  /\ phase' = [phase EXCEPT ![c] = "live"]
  /\ UNCHANGED <<table, issued>>

\* The file may already be lost when its handle is handed out.
Open(c, f) ==
  /\ phase[c] = "live"
  /\ issued' = [issued EXCEPT ![c] = @ + 1]
  /\ table' = [table EXCEPT ![c] =
                 [h \in DOMAIN @ \cup {issued'[c]} |->
                    IF h = issued'[c] THEN f ELSE @[h]]]
  /\ UNCHANGED phase

Close(c) ==
  /\ phase[c] = "live"
  /\ \E h \in DOMAIN table[c] :
       table' = [table EXCEPT ![c] = [x \in DOMAIN @ \ {h} |-> @[x]]]
  /\ UNCHANGED <<phase, issued>>

Lose(c) ==
  /\ phase[c] = "live"
  /\ table' = [table EXCEPT ![c] =
                 [x \in DOMAIN @ |-> IF @[x] \in RemoteFiles THEN None ELSE @[x]]]
  /\ UNCHANGED <<phase, issued>>

End(c) ==
  /\ phase[c] = "live"
  /\ phase' = [phase EXCEPT ![c] = "over"]
  /\ table' = [table EXCEPT ![c] = Empty]
  /\ issued' = [issued EXCEPT ![c] = 0]

Next == \E c \in Conns :
  \/ Start(c) \/ Close(c) \/ Lose(c) \/ End(c)
  \/ \E f \in Files \cup {None} : Open(c, f)

Spec == Init /\ [][Next]_vars
=============================================================================

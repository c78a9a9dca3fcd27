---------------------------- MODULE ProjectRecord ----------------------------
(***************************************************************************)
(* What the projects component promises to its users, one step at a time:  *)
(* a project only moves along the edges of its state machine, nothing      *)
(* leaves a terminal state, every move adds one entry to the history, the  *)
(* entries chain, and a removed project never comes back (RF-035, RN-011,  *)
(* RN-012).  Module Projects says what the code does instead.              *)
(***************************************************************************)
EXTENDS ProjectStates, Sequences

CONSTANT Projects

VARIABLES opened,    \* the project ids in use or used once
          status,    \* the state of each project, "none" when it has no row
          history    \* the state log of each project

record == <<opened, status, history>>

Init ==
  /\ opened = {}
  /\ status = [p \in Projects |-> "none"]
  /\ history = [p \in Projects |-> <<>>]

Open(p) ==
  /\ p \notin opened
  /\ opened' = opened \cup {p}
  /\ status' = [status EXCEPT ![p] = "borrador"]
  /\ UNCHANGED history

Move(p) ==
  \E s \in Statuses :
    /\ <<status[p], s>> \in Edges
    /\ status' = [status EXCEPT ![p] = s]
    /\ history' = [history EXCEPT ![p] = Append(@, [from |-> status[p], to |-> s])]
    /\ UNCHANGED opened

Remove(p) ==
  /\ status[p] # "none"
  /\ status' = [status EXCEPT ![p] = "none"]
  /\ history' = [history EXCEPT ![p] = <<>>]
  /\ UNCHANGED opened

Next == \E p \in Projects : Open(p) \/ Move(p) \/ Remove(p)

Spec == Init /\ [][Next]_record
==============================================================================

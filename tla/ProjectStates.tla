---------------------------- MODULE ProjectStates ----------------------------
(***************************************************************************)
(* The state machine of a research project: the states a row of            *)
(* projects_project can be in and the transitions django-fsm accepts.      *)
(* django-fsm compares the status of the object IN MEMORY with the sources *)
(* of the transition; it never looks at the row again.                     *)
(***************************************************************************)

Statuses == {"borrador", "enviado", "en_revision", "observado", "aprobado",
             "en_ejecucion", "suspendido", "finalizado", "en_cierre",
             "cerrado", "rechazado", "cancelado"}

\* No transition leaves these states; every service refuses to mutate them.
TerminalStates == {"cerrado", "rechazado", "cancelado"}

\* One entry per @transition method: the states it accepts ...
Sources ==
  [submit           |-> {"borrador"},
   accept_review    |-> {"enviado"},
   approve          |-> {"en_revision"},
   observe          |-> {"en_revision"},
   return_to_draft  |-> {"en_revision", "observado"},
   reject           |-> {"en_revision"},
   resubmit         |-> {"observado"},
   start_execution  |-> {"aprobado"},
   suspend          |-> {"en_ejecucion"},
   resume           |-> {"suspendido"},
   finalize         |-> {"en_ejecucion"},
   initiate_closure |-> {"finalizado"},
   close            |-> {"en_cierre"},
   cancel           |-> {"borrador", "enviado", "en_revision", "observado",
                         "aprobado", "en_ejecucion", "suspendido",
                         "finalizado", "en_cierre"}]

\* ... and the state it leaves the object in.
Target ==
  [submit           |-> "enviado",
   accept_review    |-> "en_revision",
   approve          |-> "aprobado",
   observe          |-> "observado",
   return_to_draft  |-> "borrador",
   reject           |-> "rechazado",
   resubmit         |-> "enviado",
   start_execution  |-> "en_ejecucion",
   suspend          |-> "suspendido",
   resume           |-> "en_ejecucion",
   finalize         |-> "finalizado",
   initiate_closure |-> "en_cierre",
   close            |-> "cerrado",
   cancel           |-> "cancelado"]

Transitions == DOMAIN Sources

Edges == UNION {Sources[t] \X {Target[t]} : t \in Transitions}

\* A row of projects_projectstatelog.
LogEntry == [from : Statuses, to : Statuses]
==============================================================================

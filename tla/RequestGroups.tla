---------------------------- MODULE RequestGroups ----------------------------
(***************************************************************************)
(* What the request manager promises whoever posts a group of MPI          *)
(* requests: its handler runs once, after all of them have completed.      *)
(***************************************************************************)
CONSTANTS Group, Request,
          Members      \* the requests of a group

VARIABLES arrived,   \* requests that MPI has completed
          posted,    \* groups that were posted
          handled    \* groups whose handler has run

gvars == <<arrived, posted, handled>>

GInit == arrived = {} /\ posted = {} /\ handled = {}

Arrive == /\ \E r \in Request \ arrived : arrived' = arrived \cup {r}
          /\ UNCHANGED <<posted, handled>>

Post == /\ \E g \in Group \ posted : posted' = posted \cup {g}
        /\ UNCHANGED <<arrived, handled>>

(* A handler may post one group in turn.                                   *)
Handle == /\ \E g \in posted \ handled : /\ Members[g] \subseteq arrived
                                         /\ handled' = handled \cup {g}
          /\ \/ UNCHANGED posted
             \/ \E h \in Group \ posted : posted' = posted \cup {h}
          /\ UNCHANGED arrived

GNext == Arrive \/ Post \/ Handle
GSpec == GInit /\ [][GNext]_gvars
=============================================================================

------------------------------- MODULE TypedMap ------------------------------
(***************************************************************************)
(* What Extensions promises its users, each owner alone with its map: at    *)
(* most one value per type, the last one inserted; what a call takes out is *)
(* the value of the type it was asked about; and no operation on one        *)
(* owner's map is ever visible in another's.                                *)
(***************************************************************************)
CONSTANTS Owners, Types, Arcs, Absent

VARIABLES map,                     (* owner -> type -> value or Absent        *)
          out,                     (* owner -> value a call is taking out     *)
          alive                    (* owners whose map exists                 *)

mapVars == <<map, out, alive>>

EmptyMap == [t \in Types |-> Absent]

MapInit ==
  /\ map = [o \in Owners |-> EmptyMap]
  /\ out = [o \in Owners |-> Absent]
  /\ \E o \in Owners : alive = {o}

Ready(o) == o \in alive /\ out[o] = Absent

Put(o, t, a) ==
  /\ Ready(o)
  /\ map' = [map EXCEPT ![o][t] = a]
  /\ out' = [out EXCEPT ![o] = map[o][t]]
  /\ UNCHANGED alive

Clear(o, t) ==
  /\ Ready(o)
  /\ map[o][t] # Absent
  /\ map' = [map EXCEPT ![o][t] = Absent]
  /\ out' = [out EXCEPT ![o] = map[o][t]]
  /\ UNCHANGED alive

(* The value taken out is handed to the caller or let go. *)
Settle(o) ==
  /\ out' = [out EXCEPT ![o] = Absent]
  /\ UNCHANGED <<map, alive>>

Copy(o, p) ==
  /\ Ready(o)
  /\ p \notin alive
  /\ map' = [map EXCEPT ![p] = map[o]]
  /\ alive' = alive \cup {p}
  /\ UNCHANGED out

Forget(o) ==
  /\ Ready(o)
  /\ map' = [map EXCEPT ![o] = EmptyMap]
  /\ alive' = alive \ {o}
  /\ UNCHANGED out

(* The destructor of a map lets go of its values one by one. *)
LetGo(o) ==
  /\ o \notin alive
  /\ \E a \in Arcs : out' = [out EXCEPT ![o] = a]
  /\ UNCHANGED <<map, alive>>

MapNext ==
  \E o \in Owners :
    \/ \E t \in Types : Clear(o, t) \/ \E a \in Arcs : Put(o, t, a)
    \/ Settle(o)
    \/ \E p \in Owners \ {o} : Copy(o, p)
    \/ Forget(o)
    \/ LetGo(o)

MapSpec == MapInit /\ [][MapNext]_mapVars
=============================================================================

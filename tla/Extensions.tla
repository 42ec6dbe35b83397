------------------------------ MODULE Extensions -----------------------------
(***************************************************************************)
(* The typed extension map that rides on codec outputs                      *)
(* (src/src/extensions.rs) and its clones.  A clone shares the values       *)
(* through Arc, and clones live on different threads, so what insert and    *)
(* remove do to the strong count interleaves: the entry leaves the caller's *)
(* map first, then Arc::try_unwrap takes the value only if the count is 1   *)
(* at that moment, and otherwise the reference is dropped.  An owner is one *)
(* Extensions value with the thread that works on it.                       *)
(***************************************************************************)
EXTENDS Integers, Sequences, FiniteSets

CONSTANTS Owners,                  (* Extensions values, each on its own thread *)
          Types,                   (* TypeIds                                 *)
          MaxValues,               (* bound: values ever inserted             *)
          Absent                   (* no value                                *)

Arcs == 1..MaxValues

ASSUME ExtensionsAssumption ==
  /\ IsFiniteSet(Owners)
  /\ MaxValues \in Nat
  /\ Absent \notin Arcs \cup Types

VARIABLES entries,                 (* owner -> Vec<(TypeId, Arc)>             *)
          live,                    (* owners whose map exists                 *)
          pending,                 (* owner -> the reference it is disposing of *)
          created,                 (* values inserted so far                  *)
          kind,                    (* value -> its type                       *)
          strong,                  (* value -> strong count of its Arc        *)
          taken,                   (* values returned to a caller by value    *)
          dropped                  (* values destroyed                        *)

extensionsVars == <<entries, live, pending, created, kind, strong, taken, dropped>>

Entry == [type : Types, arc : Arcs]
Stages == {"unwrap", "drop"}
Idle == [stage |-> "idle", arc |-> Absent]

ExtensionsTypeOK ==
  /\ entries \in [Owners -> Seq(Entry)]
  /\ live \subseteq Owners
  /\ pending \in [Owners -> [stage : Stages, arc : Arcs] \cup {Idle}]
  /\ created \in 0..MaxValues
  /\ kind \in [Arcs -> Types \cup {Absent}]
  /\ strong \in [Arcs -> Nat]
  /\ taken \subseteq Arcs
  /\ dropped \subseteq Arcs

(* One map exists, empty: Extensions::new(). *)
ExtensionsInit ==
  /\ entries = [o \in Owners |-> <<>>]
  /\ \E o \in Owners : live = {o}
  /\ pending = [o \in Owners |-> Idle]
  /\ created = 0
  /\ kind = [a \in Arcs |-> Absent]
  /\ strong = [a \in Arcs |-> 0]
  /\ taken = {}
  /\ dropped = {}

Contains(o, t) == \E i \in DOMAIN entries[o] : entries[o][i].type = t

(* iter().position(|(tid, _)| *tid == id): the first match. *)
Position(o, t) ==
  CHOOSE i \in DOMAIN entries[o] :
    /\ entries[o][i].type = t
    /\ \A j \in 1..(i - 1) : entries[o][j].type # t

(* Mutant of SwapRemove: the last entry goes, whatever the position. *)
RemoveLast(s, i) == [j \in 1..(Len(s) - 1) |-> s[j]]

SwapRemove(s, i) ==
  [j \in 1..(Len(s) - 1) |-> IF j = i THEN s[Len(s)] ELSE s[j]]

(* arc.downcast::<T>().ok(), then Arc::try_unwrap; a failed downcast drops. *)
Dispose(a, t) == [stage |-> IF kind[a] = t THEN "unwrap" ELSE "drop", arc |-> a]

CanAct(o) == o \in live /\ pending[o] = Idle

(* insert: the new value replaces the one of its type, or is pushed. *)
Insert(o, t) ==
  /\ CanAct(o)
  /\ created < MaxValues
  /\ created' = created + 1
  /\ kind' = [kind EXCEPT ![created + 1] = t]
  /\ strong' = [strong EXCEPT ![created + 1] = 1]
  /\ IF Contains(o, t)
     THEN LET i == Position(o, t) IN
          /\ entries' = [entries EXCEPT ![o][i].arc = created + 1]
          /\ pending' = [pending EXCEPT ![o] = Dispose(entries[o][i].arc, t)]
     ELSE /\ entries' = [entries EXCEPT ![o] =
                           Append(@, [type |-> t, arc |-> created + 1])]
          /\ UNCHANGED pending
  /\ UNCHANGED <<live, taken, dropped>>

(* remove: the entry is gone from this map whatever try_unwrap then says. *)
Remove(o, t) ==
  /\ CanAct(o)
  /\ Contains(o, t)
  /\ LET i == Position(o, t) IN
     /\ entries' = [entries EXCEPT ![o] = SwapRemove(@, i)]
     /\ pending' = [pending EXCEPT ![o] = Dispose(entries[o][i].arc, t)]
  /\ UNCHANGED <<live, created, kind, strong, taken, dropped>>

(* Mutant of TryUnwrap: the value is taken whoever else holds it. *)
TryUnwrapUnchecked(o) ==
  LET a == pending[o].arc IN
  /\ pending[o].stage = "unwrap"
  /\ strong' = [strong EXCEPT ![a] = @ - 1]
  /\ taken' = taken \cup {a}
  /\ pending' = [pending EXCEPT ![o] = Idle]
  /\ UNCHANGED <<entries, live, created, kind, dropped>>

(* Mutant of TryUnwrap: the value is never handed back. *)
TryUnwrapNever(o) ==
  /\ pending[o].stage = "unwrap"
  /\ pending' = [pending EXCEPT ![o].stage = "drop"]
  /\ UNCHANGED <<entries, live, created, kind, strong, taken, dropped>>

(* Mutant of TryUnwrap: a reference that is not the last is forgotten. *)
TryUnwrapForgets(o) ==
  LET a == pending[o].arc IN
  /\ pending[o].stage = "unwrap"
  /\ pending' = [pending EXCEPT ![o] = Idle]
  /\ IF strong[a] = 1
     THEN strong' = [strong EXCEPT ![a] = 0] /\ taken' = taken \cup {a}
     ELSE UNCHANGED <<strong, taken>>
  /\ UNCHANGED <<entries, live, created, kind, dropped>>

(* Arc::try_unwrap: compare-and-swap of the count from 1 to 0. *)
TryUnwrap(o) ==
  LET a == pending[o].arc IN
  /\ pending[o].stage = "unwrap"
  /\ IF strong[a] = 1
     THEN /\ strong' = [strong EXCEPT ![a] = 0]
          /\ taken' = taken \cup {a}
          /\ pending' = [pending EXCEPT ![o] = Idle]
     ELSE /\ pending' = [pending EXCEPT ![o].stage = "drop"]
          /\ UNCHANGED <<strong, taken>>
  /\ UNCHANGED <<entries, live, created, kind, dropped>>

(* The reference is dropped; the last one destroys the value. *)
DropReference(o) ==
  LET a == pending[o].arc IN
  /\ pending[o].stage = "drop"
  /\ strong' = [strong EXCEPT ![a] = @ - 1]
  /\ dropped' = IF strong[a] = 1 THEN dropped \cup {a} ELSE dropped
  /\ pending' = [pending EXCEPT ![o] = Idle]
  /\ UNCHANGED <<entries, live, created, kind, taken>>

Held(o) == {entries[o][i].arc : i \in DOMAIN entries[o]}

(* clone (derived): the same entries, each Arc counted once more.  The       *)
(* counts rise one by one, but the cloner's own map keeps every one of them  *)
(* above 1 for any other holder, so no try_unwrap can tell: one step.        *)
Clone(o, p) ==
  /\ CanAct(o)
  /\ p \notin live
  /\ entries[p] = <<>>
  /\ pending[p] = Idle
  /\ live' = live \cup {p}
  /\ entries' = [entries EXCEPT ![p] = entries[o]]
  /\ strong' = [a \in Arcs |-> IF a \in Held(o) THEN strong[a] + 1 ELSE strong[a]]
  /\ UNCHANGED <<pending, created, kind, taken, dropped>>

(* The map goes out of scope; its entries are dropped one after another. *)
Discard(o) ==
  /\ CanAct(o)
  /\ live' = live \ {o}
  /\ UNCHANGED <<entries, pending, created, kind, strong, taken, dropped>>

DropEntry(o) ==
  /\ o \notin live
  /\ pending[o] = Idle
  /\ entries[o] # <<>>
  /\ pending' = [pending EXCEPT ![o] = [stage |-> "drop", arc |-> Head(entries[o]).arc]]
  /\ entries' = [entries EXCEPT ![o] = Tail(@)]
  /\ UNCHANGED <<live, created, kind, strong, taken, dropped>>

(* The steps of a call, or of a destructor, that has begun. *)
Continue(o) == TryUnwrap(o) \/ DropReference(o) \/ DropEntry(o)

ExtensionsNext ==
  \E o \in Owners :
    \/ \E t \in Types : Insert(o, t) \/ Remove(o, t)
    \/ \E p \in Owners \ {o} : Clone(o, p)
    \/ Discard(o)
    \/ Continue(o)

ExtensionsSpec == ExtensionsInit /\ [][ExtensionsNext]_extensionsVars

(* A call that has begun runs to its end on its thread. *)
ExtensionsFairSpec == ExtensionsSpec /\ \A o \in Owners : WF_extensionsVars(Continue(o))

-----------------------------------------------------------------------------
Disposing(o) == IF pending[o] = Idle THEN {} ELSE {pending[o].arc}

Refs(o) == Held(o) \cup Disposing(o)

Holders(a) == {o \in Owners : a \in Refs(o)}

(* The Arc's count is the number of owners that still reach the value       *)
(* through their map or through a call in progress, each exactly once.      *)
StrongCountsHolders ==
  /\ \A a \in Arcs : strong[a] = Cardinality(Holders(a))
  /\ \A o \in Owners : Disposing(o) \cap Held(o) = {}

(* At most one value per type, stored under its own type: the downcast in   *)
(* get, insert and remove never fails, also after swap_remove reordered.    *)
OnePerType ==
  \A o \in Owners : \A i, j \in DOMAIN entries[o] :
    /\ entries[o][i].type = entries[o][j].type => i = j
    /\ kind[entries[o][i].arc] = entries[o][i].type

(* Every value inserted has exactly one fate: it is reachable, or was        *)
(* handed to one caller, or was destroyed; nothing is handed out while       *)
(* another clone can still read it, and nothing is handed out twice.         *)
OneFate ==
  /\ taken \cap dropped = {}
  /\ taken \cup dropped \subseteq 1..created
  /\ \A a \in Arcs : Holders(a) # {} <=> a <= created /\ a \notin taken \cup dropped

(* A call that finds a value of the type and still returns None does so      *)
(* because another owner held it at that moment.                            *)
NoneMeansShared ==
  [][\A o \in Owners :
       pending[o].stage = "unwrap" /\ pending'[o].stage = "drop" =>
         \E p \in Owners \ {o} : pending[o].arc \in Refs(p)]_extensionsVars

(* No value outlives every map: once no map holds it, a caller gets it or it *)
(* is destroyed, whoever was racing.                                        *)
NothingLeaks ==
  \A a \in Arcs :
    a <= created /\ (\A o \in Owners : a \notin Held(o)) ~> a \in taken \cup dropped

(* The map an owner sees, type by type. *)
View == [o \in Owners |-> [t \in Types |->
           IF o \in live /\ Contains(o, t) THEN entries[o][Position(o, t)].arc ELSE Absent]]

Abstract == INSTANCE TypedMap
              WITH map <- View, out <- [o \in Owners |-> pending[o].arc], alive <- live

(* Extensions implements TypedMap: every call puts, or takes out, the value  *)
(* of its own type in its own map and touches nothing else.                 *)
IsTypedMap == Abstract!MapSpec
=============================================================================

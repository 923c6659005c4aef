---------------------------- MODULE UUIDRegistry ----------------------------
(***************************************************************************)
(* The UUIDs of a model.  The build, every object, every build item and    *)
(* every component has one; CModel keeps the used ones in usedUUIDs, so    *)
(* that setUUID can refuse a UUID that another owner has.                  *)
(*                                                                         *)
(* UUIDs are the numbers 1, 2, 3, ...: CUUID() draws one that was never    *)
(* seen (`fresh', the random generator is external), and a client or a     *)
(* file may give any owner any UUID.  An owner that was removed from the   *)
(* model stays in the hands of clients that hold it.                       *)
(***************************************************************************)
EXTENDS Integers, Sequences, FiniteSets

CONSTANTS
  OwnerTypes,  \* the types of owner the client uses
  MaxOwners,   \* bound: owners over the model's life
  MaxUUID      \* bound: UUIDs ever seen

ASSUME UUIDRegistryAssumption ==
  /\ OwnerTypes \subseteq {"object", "item", "component"}
  /\ {MaxOwners, MaxUUID} \subseteq Nat \ {0}

VARIABLES
  owners,     \* the owners in the order of construction: their type and m_UUID
  present,    \* the owners in the model
  usedUUIDs,  \* the keys of usedUUIDs
  fresh,      \* the next UUID that CUUID() draws
  drawn,      \* history: the UUIDs drawn by constructors of components
  reused      \* history: one of them was given to an owner by setUUID

uuidVars == <<owners, present, usedUUIDs, fresh, drawn, reused>>

(* registerUUID throws unless the UUID is unused.                          *)
registerUUID(uuids, uuid) == uuid \notin uuids

\* Mutant of Registered: the old UUID is not unregistered.
RegisteredKeepsOld(old, uuid) == usedUUIDs \cup {uuid}

(* setUUID of every owner: the new UUID is registered, then the old one is *)
(* unregistered.                                                           *)
Registered(old, uuid) == (usedUUIDs \cup {uuid}) \ {old}

(* The constructors of CModelObject and CModelBuildItem register a random  *)
(* UUID, that of CModelComponent does not.                                 *)
AddOwner(type) ==
  /\ Len(owners) < MaxOwners /\ fresh < MaxUUID
  /\ owners' = Append(owners, [type |-> type, uuid |-> fresh])
  /\ present' = present \cup {Len(owners) + 1}
  /\ usedUUIDs' = IF type = "component" THEN usedUUIDs ELSE usedUUIDs \cup {fresh}
  /\ drawn' = IF type = "component" THEN drawn \cup {fresh} ELSE drawn
  /\ fresh' = fresh + 1
  /\ UNCHANGED reused

(* SetUUID and SetBuildUUID of the API, and the reader for an attribute.   *)
SetUUID(o, uuid) ==
  /\ registerUUID(usedUUIDs, uuid)
  /\ usedUUIDs' = Registered(owners[o].uuid, uuid)
  /\ owners' = [owners EXCEPT ![o].uuid = uuid]
  /\ fresh' = IF uuid = fresh THEN fresh + 1 ELSE fresh
  /\ reused' = (reused \/ uuid \in drawn)
  /\ UNCHANGED <<present, drawn>>

(* removeBuildItem: the UUID of a removed item stays used.                 *)
RemoveBuildItem(o) ==
  /\ o \in present /\ owners[o].type = "item"
  /\ present' = present \ {o}
  /\ UNCHANGED <<owners, usedUUIDs, fresh, drawn, reused>>

(* clearAll: all but the build go, usedUUIDs stays.                        *)
clearAllUUIDs ==
  /\ present' = {1}
  /\ UNCHANGED <<owners, usedUUIDs, fresh, drawn, reused>>

(* The constructor of CModel: the build has a registered random UUID.      *)
UUIDInit ==
  /\ owners = <<[type |-> "build", uuid |-> 1]>>
  /\ present = {1}
  /\ usedUUIDs = {1}
  /\ fresh = 2
  /\ drawn = {} /\ reused = FALSE

UUIDNext ==
  \/ \E type \in OwnerTypes : AddOwner(type)
  \/ \E o \in DOMAIN owners, uuid \in 1..fresh : uuid < MaxUUID /\ SetUUID(o, uuid)
  \/ \E o \in DOMAIN owners : RemoveBuildItem(o)
  \/ clearAllUUIDs

UUIDSpec == UUIDInit /\ [][UUIDNext]_uuidVars

(* ------------------------------------------------------------------------ *)
(* Properties.                                                              *)

Registering == {o \in DOMAIN owners : owners[o].type # "component"}

(* RegistryIsExact: in a model without components usedUUIDs holds exactly one
   UUID for each owner ever constructed, no matter how often UUIDs were set,
   refused and handed from one owner to the next; owners that were removed
   still count.  With components, two owners share a UUID only if some owner
   was once given the random UUID of a component, the one kind of UUID that is
   in use and not registered.                                              *)
RegistryIsExact ==
  /\ Registering = DOMAIN owners =>
       /\ usedUUIDs = {owners[o].uuid : o \in DOMAIN owners}
       /\ Cardinality(usedUUIDs) = Len(owners)
  /\ ~reused => \A o, p \in DOMAIN owners : owners[o].uuid = owners[p].uuid => o = p
=============================================================================

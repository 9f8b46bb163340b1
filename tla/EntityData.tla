----------------------------- MODULE EntityData -----------------------------
(***************************************************************************)
(* The values the entity tree works on: entities, their metadata, and the  *)
(* edits that the hooks in internal/tree/hooks make to one entity.         *)
(*                                                                         *)
(* Repeated fields whose order nothing depends on are sets.  Strings are   *)
(* members of small sets; what the code computes from their characters is  *)
(* given by the constants Contained and BaseKey.                           *)
(***************************************************************************)
EXTENDS Integers, FiniteSets

CONSTANTS
  Entities,      \* the entity IDs
  Secrets,       \* plaintext secrets
  Groups,        \* group names an entity may be a direct member of
  Capabilities,  \* capabilities
  Keys,          \* public keys, rendered TYPE:KEY
  Contained,     \* <<s, p>> : the key s contains the string p
  MetaKeys,      \* keys of untyped metadata, Z-order annotation included
  BaseKey,       \* a metadata key with its {n} annotation stripped
  KVKeys,        \* keys of the typed key/value store of an entity
  Values,        \* values of both key/value stores, and of the text fields
  MaxInt32,      \* the largest int32
  NoEntity, NoID, NoSecret, NoMeta, NoText

ASSUME ContainedAssumption ==
  /\ Contained \subseteq Keys \X Keys
  /\ \A k \in Keys : <<k, k>> \in Contained

ASSUME BaseKeyAssumption ==
  /\ BaseKey \in [MetaKeys -> MetaKeys]
  /\ \A k \in MetaKeys : BaseKey[BaseKey[k]] = BaseKey[k]

ASSUME MaxInt32Assumption == MaxInt32 \in Nat \ {0}

-----------------------------------------------------------------------------
Numbers == -(MaxInt32 + 1) .. MaxInt32

(* The number a client asks for to have one assigned. *)
AutoNumber == -1

(* Signed 32-bit addition of one. *)
Increment(n) == IF n = MaxInt32 THEN -(MaxInt32 + 1) ELSE n + 1

(* A secret as the crypto engine stores it: only its own secret verifies.  *)
Secured(s) == [secured |-> s]
SecuredSecrets == [secured : Secrets \cup {NoSecret}]

(* An optional bool of the protocol: absent, true or false. *)
LockStates == {"unset", "locked", "unlocked"}

Meta == [locked : LockStates,
         groups : SUBSET Groups,
         caps   : SUBSET Capabilities,
         keys   : SUBSET Keys,
         um     : SUBSET (MetaKeys \X Values),
         kv     : SUBSET (KVKeys \X Values),
         text   : Values \cup {NoText}]

EmptyMeta == [locked |-> "unset", groups |-> {}, caps |-> {}, keys |-> {},
              um |-> {}, kv |-> {}, text |-> NoText]

(***************************************************************************)
(* The Go zero values are distinct from every value that a client names.   *)
(***************************************************************************)
ASSUME ZeroValuesAssumption ==
  /\ NoID \notin Entities
  /\ NoSecret \notin Secrets
  /\ NoText \notin Values
  /\ NoMeta \notin Meta

(* An entity at rest, and the partly built one that a chain works on.      *)
Entity == [id     : Entities \cup {NoID},
           number : Numbers,
           secret : SecuredSecrets \cup {NoSecret},
           meta   : Meta \cup {NoMeta}]

BlankEntity ==
  [id |-> NoID, number |-> 0, secret |-> NoSecret, meta |-> NoMeta]

(* The data entity of a request: its secret is in the clear. *)
DataEntity == [id     : Entities,
               number : Numbers,
               secret : Secrets \cup {NoSecret},
               meta   : Meta \cup {NoMeta}]

IsLocked(e) == e.meta # NoMeta /\ e.meta.locked = "locked"

DirectGroups(e) == IF e.meta = NoMeta THEN {} ELSE e.meta.groups

Verifies(s, e) == e.secret = Secured(s)

-----------------------------------------------------------------------------
(***************************************************************************)
(* The edits below take the field of the entity and that of the request,   *)
(* which holds one key, one pair or one entry: every method of             *)
(* tree.Manager sends one.                                                 *)
(***************************************************************************)
KeysOf(pairs) == {p[1] : p \in pairs}
Without(pairs, ks) == {p \in pairs : p[1] \notin ks}

(* Keys are matched by containment: adding one that an existing key        *)
(* contains adds nothing, removing one removes every key that contains it. *)
AddKey(ks, d)  == ks \cup {k \in d : \A s \in ks : <<s, k>> \notin Contained}
DropKey(ks, d) == {s \in ks : \A k \in d : <<s, k>> \notin Contained}

(* Untyped metadata, matched by key or, fuzzily, by annotated key. *)
Upsert(um, d)     == Without(um, KeysOf(d)) \cup d
ClearExact(um, d) == Without(um, KeysOf(d))
ClearFuzzy(um, d) ==
  {p \in um : \A k \in KeysOf(d) : BaseKey[p[1]] # BaseKey[k]}

(***************************************************************************)
(* proto.Merge of request metadata d into metadata m: scalars that d sets  *)
(* overwrite, repeated fields append.                                      *)
(***************************************************************************)
MergeMeta(m, d) ==
  [locked |-> IF d.locked = "unset" THEN m.locked ELSE d.locked,
   groups |-> m.groups \cup d.groups,
   caps   |-> m.caps \cup d.caps,
   keys   |-> m.keys \cup d.keys,
   um     |-> m.um \cup d.um,
   kv     |-> m.kv \cup d.kv,
   text   |-> IF d.text = NoText THEN m.text ELSE d.text]

(* What merge-entity-meta strips from a request before it merges. *)
Mergeable(d) == [d EXCEPT !.caps = {}, !.groups = {}, !.keys = {}, !.um = {}]

=============================================================================

--------------------------- MODULE ProviderProofs ---------------------------
(***************************************************************************)
(* Proof that the API profiles are atomic, for every number of slots, URLs *)
(* and keys and without a bound on what is done or fails.                  *)
(*                                                                         *)
(* A plan P, carried out in a store n, leads to the store Goal(P, n),      *)
(* whatever the order of its writes, as no key is written twice but for    *)
(* one cleared first.  The keys of InForce(n) decide what is in force, and *)
(* in a GoodPlan exactly one write touches them: what comes before leaves  *)
(* them alone, and what comes after leaves those of the goal alone.  So    *)
(* between any two writes what is in force is the old or the new, and it   *)
(* remains to show that each operation starts with a good plan.            *)
(***************************************************************************)
EXTENDS ProviderProfiles, NaturalsInduction, WellFoundedInduction, TLAPS

-----------------------------------------------------------------------------
(* What the NVS holds.                                                     *)

Value == {Absent} \cup {<<x>> : x \in Nat} \cup (Nat \X Nat) \cup (Nat \X Nat \X Nat)
ValuesOf(k) ==
  {Absent} \cup (IF k[1] = "sel" THEN {<<g>> : g \in Generation}
                 ELSE IF k[1] = "meta" THEN Nat \X Nat \X Nat
                 ELSE IF k[1] = "secret" THEN Nat \X Nat
                 ELSE {<<x>> : x \in Nat})
Typed(n) == n \in [NvsKey -> Value] /\ \A k \in NvsKey : n[k] \in ValuesOf(k)

\* The keys that decide what is in force.
InForce(n) ==
  IF ~Has(n, SchemaKey) THEN {SchemaKey, LegacyKey, LegacyUrl}
  ELSE {SchemaKey, DefaultKey, PresetKey} \cup {SelectorKey(s) : s \in Slot}
         \cup {r \in RecordKey : InUse(n, r)}

\* Once the marker is written there is a default, and no identifier twice.
GoodStore(n) ==
  Has(n, SchemaKey) =>
    Sound(n) /\ \A s, t \in Used(n) : Metadata(n, s)[1] = Metadata(n, t)[1] => s = t

Clean(n) ==
  /\ ~Has(n, LegacyKey)
  /\ \A s \in Slot, g \in Generation : Has(n, SecretKey(s, g)) => InUse(n, SecretKey(s, g))

OldIds(n) == \A s \in Slot, g \in Generation : Has(n, MetadataKey(s, g)) => n[MetadataKey(s, g)][1] < left.id

\* What a request may have used is what is in force, or older, or gone.
NewerThan(n, S) ==
  Has(n, SchemaKey) =>
    \A p \in S, s \in Used(n) :
      p[1] = Profile(n, s)[1] => p[2] < Profile(n, s)[2] \/ p = Profile(n, s)

-----------------------------------------------------------------------------
(* A plan P of an operation, in a state n of the NVS.                      *)

Phases == {"prepare", "stage", "commit", "cleanup", "legacy"}
Writes == [phase : Phases, key : NvsKey, value : Value]

\* What the NVS holds once the plan is carried out.
Lasting(P, k) == {w \in P : w.key = k /\ w.phase # "prepare"}
Goal(P, n) ==
  [k \in NvsKey |->
     IF Lasting(P, k) # {} THEN (CHOOSE w \in Lasting(P, k) : TRUE).value
     ELSE IF \E w \in P : w.key = k THEN Absent ELSE n[k]]

\* The write with which the operation takes effect.
Initializes(kind) == kind \in {"bootstrap", "migrate"}
Effective(kind, w) == w.phase = "commit" /\ (Initializes(kind) => w.key = SchemaKey)
Pending(kind, P) == \E w \in P : Effective(kind, w)

PlanTypes(P, id) ==
  /\ P \subseteq Writes
  /\ \A w \in P : w.value \in ValuesOf(w.key)
  /\ \A w \in P : w.phase \in {"prepare", "cleanup", "legacy"} => w.value = Absent
  /\ \A w \in P, s \in Slot, g \in Generation :
       w.key = MetadataKey(s, g) /\ w.value # Absent => w.value[1] < id

\* No key is written twice, but for one that is cleared first.
WrittenOnce(kind, P) ==
  /\ \A v, w \in P : v.key = w.key => v = w \/ (v.phase = "prepare") # (w.phase = "prepare")
  /\ \A v, w \in P : Effective(kind, v) /\ Effective(kind, w) => v = w

\* Nothing that is in force is written before or behind the write that counts.
Aside(kind, P, n) ==
  /\ Pending(kind, P) => \A w \in P :
       w.phase \in {"prepare", "stage", "commit"} /\ ~Effective(kind, w) => w.key \notin InForce(n)
  /\ \A w \in P : w.phase \in {"cleanup", "legacy"} =>
       ~Initializes(kind) /\ w.key \notin InForce(Goal(P, n))
  /\ ~Pending(kind, P) => \A w \in P : w.phase \in {"cleanup", "legacy"}

\* It leads to a store that holds what was asked for.
Leads(P, n, after, S) ==
  /\ Has(Goal(P, n), SchemaKey) /\ AuthorityOf(Goal(P, n)) = after
  /\ GoodStore(Goal(P, n)) /\ NewerThan(Goal(P, n), S)

GoodPlan(kind, P, n, after, S, id) ==
  PlanTypes(P, id) /\ WrittenOnce(kind, P) /\ Aside(kind, P, n) /\ Leads(P, n, after, S)

Kinds == {"create", "update", "default", "delete", "preset", "bootstrap", "migrate", "inspect"}
PlanInv ==
  Busy =>
    /\ op = [kind |-> op.kind, plan |-> op.plan, before |-> op.before, after |-> op.after,
             reload |-> op.reload]
    /\ op.kind \in Kinds /\ op.reload = (op.after.default # op.before.default)
    /\ report.verdict = "none"
    /\ GoodPlan(op.kind, op.plan, nvs, op.after, seen, left.id)
    /\ Pending(op.kind, op.plan) => Authority = op.before
    /\ ~trouble /\ ~Initial => Clean(Goal(op.plan, nvs))
    /\ Initial =>
         /\ surface = "device"
         /\ state = (IF op.kind = "migrate" THEN "legacy" ELSE "unconfigured")
         /\ Pending(op.kind, op.plan) <=> ~Has(nvs, SchemaKey)
    /\ ~Initial => state = "ready"
    /\ hot[surface] = op.before.default

-----------------------------------------------------------------------------
StoreInv ==
  /\ Typed(nvs) /\ GoodStore(nvs) /\ OldIds(nvs)
  /\ left \in [ops : Nat, faults : Nat, resets : Nat, id : Nat]
SeenInv ==
  /\ seen \subseteq Nat \X Nat \X Nat \X Nat
  /\ \A p \in seen : p[1] < left.id
  /\ RevisionTellsChange /\ NewerThan(nvs, seen)
  /\ state = "ready" => Profiles(nvs) \subseteq seen
StateInv ==
  /\ state = "ready" => Has(nvs, SchemaKey)
  /\ state \in {"legacy", "unconfigured"} /\ Idle => ~Has(nvs, SchemaKey)
  /\ state \in {"off", "unconfigured"} => surface = "device"
HotInv ==
  state \in {"ready", "legacy", "unconfigured"} /\ Idle => hot[surface] = Authority.default

ProviderInv ==
  /\ TypeOK /\ OldOrNew /\ NeverCorrupt /\ SecretsAreInUse
  /\ StoreInv /\ SeenInv /\ StateInv /\ HotInv /\ PlanInv

\* A value is not the absence of one, and has the length it has.
LEMMA ValuesArePresent ==
  ASSUME NEW a, NEW b, NEW c
  PROVE  <<a>> # Absent /\ <<a, b>> # Absent /\ <<a, b, c>> # Absent
BY DEF Absent

\* A key is one of its part, slot and generation.
LEMMA KeysDiffer ==
  ASSUME NEW s \in Slot, NEW t \in Slot, NEW g \in Generation, NEW h \in Generation
  PROVE  /\ MetadataKey(s, g) = MetadataKey(t, h) <=> s = t /\ g = h
         /\ SecretKey(s, g) = SecretKey(t, h) <=> s = t /\ g = h
         /\ SelectorKey(s) = SelectorKey(t) <=> s = t
         /\ MetadataKey(s, g) # SecretKey(t, h)
         /\ SelectorKey(s) \notin {MetadataKey(t, h), SecretKey(t, h)}
         /\ {DefaultKey, SchemaKey, PresetKey, LegacyKey, LegacyUrl} \cap
              {SelectorKey(s), MetadataKey(s, g), SecretKey(s, g)} = {}
         /\ SelectorKey(s) \in NvsKey /\ MetadataKey(s, g) \in RecordKey /\ SecretKey(s, g) \in RecordKey
BY DEF MetadataKey, SecretKey, SelectorKey, DefaultKey, SchemaKey, PresetKey, LegacyKey, LegacyUrl, NvsKey, RecordKey

\* The keys there is one of.
LEMMA OtherKeys ==
  /\ {DefaultKey, SchemaKey, PresetKey, LegacyKey, LegacyUrl} \subseteq NvsKey
  /\ RecordKey \subseteq NvsKey
  /\ DefaultKey \notin {SchemaKey, PresetKey, LegacyKey, LegacyUrl}
  /\ SchemaKey \notin {PresetKey, LegacyKey, LegacyUrl}
  /\ PresetKey \notin {LegacyKey, LegacyUrl} /\ LegacyKey # LegacyUrl
  /\ {DefaultKey, SchemaKey, PresetKey, LegacyKey, LegacyUrl} \cap RecordKey = {}
BY DEF DefaultKey, SchemaKey, PresetKey, LegacyKey, LegacyUrl, NvsKey, RecordKey, MetadataKey, SecretKey

\* What is stored under each key.
LEMMA WhatIsStored ==
  ASSUME NEW n, Typed(n)
  PROVE  /\ DOMAIN n = NvsKey /\ n = [k \in NvsKey |-> n[k]]
         /\ \A s \in Slot : ~Has(n, SelectorKey(s)) \/ (\E g \in Generation : n[SelectorKey(s)] = <<g>>)
         /\ \A s \in Slot, g \in Generation :
              n[MetadataKey(s, g)] = Absent \/ n[MetadataKey(s, g)] \in Nat \X Nat \X Nat
         /\ \A s \in Slot, g \in Generation :
              n[SecretKey(s, g)] = Absent \/ n[SecretKey(s, g)] \in Nat \X Nat
         /\ \A k \in {DefaultKey, SchemaKey, PresetKey, LegacyKey, LegacyUrl} :
              n[k] = Absent \/ \E x \in Nat : n[k] = <<x>>
<1>1. DOMAIN n = NvsKey /\ n = [k \in NvsKey |-> n[k]]
  BY DEF Typed
<1>2. \A k \in NvsKey : n[k] \in ValuesOf(k)
  BY DEF Typed
<1>3. ASSUME NEW s \in Slot PROVE ~Has(n, SelectorKey(s)) \/ (\E g \in Generation : n[SelectorKey(s)] = <<g>>)
  <2>1. SelectorKey(s) \in NvsKey /\ SelectorKey(s)[1] = "sel"
    BY DEF NvsKey, SelectorKey
  <2> QED
    BY <2>1, <1>2 DEF ValuesOf, Has
<1>4. ASSUME NEW s \in Slot, NEW g \in Generation
      PROVE  n[MetadataKey(s, g)] = Absent \/ n[MetadataKey(s, g)] \in Nat \X Nat \X Nat
  <2>1. MetadataKey(s, g) \in NvsKey /\ MetadataKey(s, g)[1] = "meta"
    BY DEF NvsKey, RecordKey, MetadataKey
  <2> QED
    BY <2>1, <1>2 DEF ValuesOf
<1>5. ASSUME NEW s \in Slot, NEW g \in Generation
      PROVE  n[SecretKey(s, g)] = Absent \/ n[SecretKey(s, g)] \in Nat \X Nat
  <2>1. SecretKey(s, g) \in NvsKey /\ SecretKey(s, g)[1] = "secret"
    BY DEF NvsKey, RecordKey, SecretKey
  <2> QED
    BY <2>1, <1>2 DEF ValuesOf
<1>6. ASSUME NEW k \in {DefaultKey, SchemaKey, PresetKey, LegacyKey, LegacyUrl}
      PROVE  n[k] = Absent \/ \E x \in Nat : n[k] = <<x>>
  <2>1. k \in NvsKey /\ k[1] \notin {"sel", "meta", "secret"}
    BY DEF NvsKey, DefaultKey, SchemaKey, PresetKey, LegacyKey, LegacyUrl
  <2> QED
    BY <2>1, <1>2 DEF ValuesOf
<1> QED
  BY <1>1, <1>3, <1>4, <1>5, <1>6

\* Two stores that agree on what is in force have the same profiles.
LEMMA SameProfiles ==
  ASSUME NEW m, NEW n, Typed(m), Typed(n), Has(m, SchemaKey), \A k \in InForce(m) : m[k] = n[k]
  PROVE  /\ Has(n, SchemaKey)
         /\ Used(m) = Used(n)
         /\ \A s \in Used(m) : Chosen(m, s) = Chosen(n, s) /\ Chosen(m, s) \in Generation
         /\ \A s \in Used(m) : Metadata(m, s) = Metadata(n, s) /\ Secret(m, s) = Secret(n, s)
         /\ \A s \in Used(m) : Profile(m, s) = Profile(n, s)
         /\ Known(m) = Known(n) /\ Profiles(m) = Profiles(n)
         /\ \A r \in RecordKey : InUse(m, r) <=> InUse(n, r)
<1>1. /\ InForce(m) = {SchemaKey, DefaultKey, PresetKey} \cup {SelectorKey(s) : s \in Slot}
                        \cup {r \in RecordKey : InUse(m, r)}
  BY DEF InForce
<1>2. Has(n, SchemaKey)
  BY <1>1 DEF Has
<1>3. \A s \in Slot : m[SelectorKey(s)] = n[SelectorKey(s)]
  BY <1>1
<1>4. Used(m) = Used(n)
  BY <1>3 DEF Used, Has
<1>5. ASSUME NEW s \in Used(m) PROVE Chosen(m, s) = Chosen(n, s) /\ Chosen(m, s) \in Generation
  <2>1. s \in Slot /\ Has(m, SelectorKey(s))
    BY DEF Used
  <2>2. PICK g \in Generation : m[SelectorKey(s)] = <<g>>
    BY <2>1, WhatIsStored
  <2> QED
    BY <2>1, <2>2, <1>3 DEF Chosen
<1>6. ASSUME NEW s \in Used(m) PROVE Metadata(m, s) = Metadata(n, s) /\ Secret(m, s) = Secret(n, s)
  <2> DEFINE g == Chosen(m, s)
  <2>1. s \in Slot /\ g \in Generation /\ Chosen(n, s) = g
    BY <1>5 DEF Used
  <2>2. InUse(m, MetadataKey(s, g)) /\ InUse(m, SecretKey(s, g))
    BY DEF InUse, MetadataKey, SecretKey
  <2> HIDE DEF g
  <2>3. MetadataKey(s, g) \in InForce(m) /\ SecretKey(s, g) \in InForce(m)
    BY <2>1, <2>2, <1>1, KeysDiffer
  <2>4. m[MetadataKey(s, g)] = n[MetadataKey(s, g)] /\ m[SecretKey(s, g)] = n[SecretKey(s, g)]
    BY <2>3
  <2> QED
    BY <2>1, <2>4 DEF Metadata, Secret, g
<1>7. \A s \in Used(m) : Profile(m, s) = Profile(n, s)
  BY <1>6 DEF Profile
<1>8. Known(m) = Known(n)
  BY <1>4, <1>6 DEF Known, Complete
<1>9. Profiles(m) = Profiles(n)
  BY <1>7, <1>8 DEF Profiles, Known
<1>10. \A r \in RecordKey : InUse(m, r) <=> InUse(n, r)
  BY <1>4, <1>5 DEF InUse
<1> QED
  BY <1>2, <1>4, <1>5, <1>6, <1>7, <1>8, <1>9, <1>10

\* They are then the same to every request.
LEMMA SameInForce ==
  ASSUME NEW m, NEW n, Typed(m), Typed(n), \A k \in InForce(m) : m[k] = n[k], NEW S
  PROVE  /\ Has(m, SchemaKey) <=> Has(n, SchemaKey)
         /\ InForce(m) = InForce(n)
         /\ AuthorityOf(m) = AuthorityOf(n)
         /\ GoodStore(m) => GoodStore(n)
         /\ NewerThan(m, S) => NewerThan(n, S)
         /\ \A k \in InForce(n) : n[k] = m[k]
<1>1. CASE ~Has(m, SchemaKey)
  <2>1. InForce(m) = {SchemaKey, LegacyKey, LegacyUrl}
    BY <1>1 DEF InForce
  <2>2. ~Has(n, SchemaKey)
    BY <1>1, <2>1 DEF Has
  <2>3. Legacy(m) = Legacy(n)
    BY <2>1 DEF Legacy, Has
  <2>4. InForce(m) = InForce(n)
    BY <2>1, <2>2 DEF InForce
  <2>5. AuthorityOf(m) = AuthorityOf(n)
    BY <1>1, <2>2, <2>3 DEF AuthorityOf
  <2>6. (GoodStore(m) => GoodStore(n)) /\ (NewerThan(m, S) => NewerThan(n, S))
    BY <2>2 DEF GoodStore, NewerThan
  <2> QED
    BY <1>1, <2>2, <2>4, <2>5, <2>6
<1>2. CASE Has(m, SchemaKey)
  <2>1. /\ Has(n, SchemaKey)
        /\ Used(m) = Used(n)
        /\ \A s \in Used(m) : Metadata(m, s) = Metadata(n, s) /\ Secret(m, s) = Secret(n, s)
        /\ \A s \in Used(m) : Profile(m, s) = Profile(n, s)
        /\ Known(m) = Known(n) /\ Profiles(m) = Profiles(n)
        /\ \A r \in RecordKey : InUse(m, r) <=> InUse(n, r)
    BY <1>2, SameProfiles
  <2>2. m[DefaultKey] = n[DefaultKey] /\ m[PresetKey] = n[PresetKey]
    BY <1>2 DEF InForce
  <2>3. InForce(m) = InForce(n)
    BY <1>2, <2>1 DEF InForce
  <2>4. Sound(m) <=> Sound(n)
    BY <2>1, <2>2 DEF Sound, Has
  <2>5. DefaultCredentials(m) = DefaultCredentials(n)
    BY <2>1, <2>2 DEF DefaultCredentials, DefaultProfile
  <2>6. AuthorityOf(m) = AuthorityOf(n)
    BY <1>2, <2>1, <2>2, <2>4, <2>5 DEF AuthorityOf
  <2>7. GoodStore(m) => GoodStore(n)
    BY <1>2, <2>1, <2>4 DEF GoodStore
  <2>8. NewerThan(m, S) => NewerThan(n, S)
    BY <1>2, <2>1 DEF NewerThan
  <2> QED
    BY <1>2, <2>1, <2>3, <2>6, <2>7, <2>8
<1> QED
  BY <1>1, <1>2

\* A write to a key that is not in force changes nothing that is.
LEMMA WrittenAside ==
  ASSUME NEW n, Typed(n), NEW k \in NvsKey, NEW v \in Value, v \in ValuesOf(k)
  PROVE  /\ Typed([n EXCEPT ![k] = v])
         /\ k \notin InForce(n) => \A j \in InForce(n) : [n EXCEPT ![k] = v][j] = n[j]
<1>1. Typed([n EXCEPT ![k] = v])
  BY DEF Typed
<1>2. InForce(n) \subseteq NvsKey
  BY OtherKeys, KeysDiffer DEF InForce, NvsKey
<1> QED
  BY <1>1, <1>2 DEF Typed

\* The default profile is the one that has the default's identifier.
LEMMA DefaultIsProfile ==
  ASSUME NEW n, Typed(n), Has(n, SchemaKey), GoodStore(n)
  PROVE  /\ DefaultProfile(n) \in Profiles(n) /\ DefaultProfile(n)[1] = n[DefaultKey][1]
         /\ \A p, q \in Profiles(n) : p[1] = q[1] => p = q
         /\ \A p \in Profiles(n) : p[1] = n[DefaultKey][1] => DefaultProfile(n) = p
         /\ \A s, t \in Used(n) : Profile(n, s)[1] = Profile(n, t)[1] => s = t
         /\ Known(n) = Used(n) /\ Sound(n)
<1>1. Sound(n) /\ \A s, t \in Used(n) : Metadata(n, s)[1] = Metadata(n, t)[1] => s = t
  BY DEF GoodStore
<1>2. \E p \in Profiles(n) : p[1] = n[DefaultKey][1]
  BY <1>1 DEF Sound
<1>3. DefaultProfile(n) \in Profiles(n) /\ DefaultProfile(n)[1] = n[DefaultKey][1]
  BY <1>2 DEF DefaultProfile
<1>4. Known(n) = Used(n)
  BY <1>1 DEF Sound
<1>5. \A s, t \in Used(n) : Profile(n, s)[1] = Profile(n, t)[1] => s = t
  BY <1>1 DEF Profile
<1>6. \A p, q \in Profiles(n) : p[1] = q[1] => p = q
  BY <1>4, <1>5 DEF Profiles
<1> QED
  BY <1>1, <1>3, <1>4, <1>5, <1>6

\* What every complete profile is made of.
LEMMA ProfileParts ==
  ASSUME NEW n, Typed(n), NEW s \in Known(n)
  PROVE  /\ s \in Slot /\ s \in Used(n) /\ Chosen(n, s) \in Generation
         /\ n[SelectorKey(s)] = <<Chosen(n, s)>>
         /\ Metadata(n, s) \in Nat \X Nat \X Nat /\ Secret(n, s) \in Nat \X Nat
         /\ Profile(n, s) \in Nat \X Nat \X Nat \X Nat /\ Profile(n, s) \in Profiles(n)
<1>1. s \in Slot /\ Has(n, SelectorKey(s)) /\ Complete(n, s) /\ s \in Used(n)
  BY DEF Known, Used
<1>2. PICK g \in Generation : n[SelectorKey(s)] = <<g>>
  BY <1>1, WhatIsStored
<1>3. Chosen(n, s) = g
  BY <1>2 DEF Chosen
<1>4. Metadata(n, s) \in Nat \X Nat \X Nat /\ Secret(n, s) \in Nat \X Nat
  BY <1>1, <1>3, WhatIsStored DEF Complete, Metadata, Secret
<1>5. Profile(n, s) \in Nat \X Nat \X Nat \X Nat
  BY <1>4 DEF Profile
<1> QED
  BY <1>1, <1>2, <1>3, <1>4, <1>5 DEF Profiles

\* Of what is in force itself nothing is older.
LEMMA NewerThanItself ==
  ASSUME NEW n, Typed(n), GoodStore(n), NEW S, NewerThan(n, S)
  PROVE  NewerThan(n, S \cup AuthorityOf(n).profiles)
<1>1. CASE ~Has(n, SchemaKey)
  BY <1>1 DEF NewerThan
<1>2. CASE Has(n, SchemaKey)
  <2>1. AuthorityOf(n).profiles = Profiles(n)
    BY <1>2 DEF AuthorityOf
  <2>2. ASSUME NEW p \in Profiles(n), NEW s \in Used(n), p[1] = Profile(n, s)[1] PROVE p = Profile(n, s)
    BY <1>2, <2>2, DefaultIsProfile, ProfileParts
  <2> QED
    BY <1>2, <2>1, <2>2 DEF NewerThan
<1> QED
  BY <1>1, <1>2

-----------------------------------------------------------------------------
(* The order of the writes.                                                *)

\* A set of naturals has a least element.
LEMMA LeastNumber ==
  ASSUME NEW S \in SUBSET Nat, S # {}
  PROVE  \E m \in S : \A n \in S : m <= n
<1> DEFINE R == OpToRel(<, Nat)
<1>1. IsWellFoundedOn(R, Nat)
  BY NatLessThanWellFounded
<1>2. \A m, n \in Nat : m < n => <<m, n>> \in R
  BY DEF OpToRel
<1> HIDE DEF R
<1>3. PICK m \in S : \A n \in S : ~(<<n, m>> \in R)
  BY <1>1, WFMin
<1>4. ASSUME NEW n \in S PROVE m <= n
  <2>1. m \in Nat /\ n \in Nat
    OBVIOUS
  <2>2. n < m => <<n, m>> \in R
    BY <2>1, <1>2
  <2>3. ~(n < m)
    BY <2>2, <1>3
  <2> QED
    BY <2>1, <2>3
<1> QED
  BY <1>4

\* Keys are ranked: the schema marker comes behind all but what the older firmware left.
LEMMA RankIsNatural ==
  /\ \A k \in NvsKey : Rank(k) \in Nat
  /\ \A k \in NvsKey \ {SchemaKey, LegacyKey, LegacyUrl} : Rank(k) < Rank(SchemaKey)
<1>1. Slots \in Nat \ {0}
  BY ProviderAssumption
<1>2. Rank(SchemaKey) = 5 * Slots + 2
  BY <1>1 DEF Rank, SchemaKey
<1>3. ASSUME NEW s \in Slot PROVE Rank(SelectorKey(s)) = 5 * s
  BY Zenon DEF Rank, SelectorKey
<1>4. ASSUME NEW s \in Slot, NEW g \in Generation
      PROVE  Rank(MetadataKey(s, g)) = 5 * s + 2 * g + 1
  <2> DEFINE k == MetadataKey(s, g)
  <2>1. k[1] = "meta" /\ k[2] = s /\ k[3] = g
    BY DEF MetadataKey
  <2> HIDE DEF k
  <2> QED
    BY <2>1 DEF Rank, k
<1>5. ASSUME NEW s \in Slot, NEW g \in Generation
      PROVE  Rank(SecretKey(s, g)) = 5 * s + 2 * g + 2
  <2> DEFINE k == SecretKey(s, g)
  <2>1. k[1] = "secret" /\ k[2] = s /\ k[3] = g
    BY DEF SecretKey
  <2> HIDE DEF k
  <2> QED
    BY <2>1 DEF Rank, k
<1>6. Rank(DefaultKey) = 5 * Slots + 1 /\ Rank(PresetKey) = 5 * Slots + 0
  BY <1>1 DEF Rank, DefaultKey, PresetKey
<1>7. Rank(LegacyKey) = 5 * Slots + 3 /\ Rank(LegacyUrl) = 5 * Slots + 4
  BY <1>1 DEF Rank, LegacyKey, LegacyUrl
<1>8. \A s \in Slot : s \in Nat /\ s < Slots
  BY <1>1 DEF Slot
<1>9. \A g \in Generation : g \in Nat /\ g < 2
  BY DEF Generation
<1>10. ASSUME NEW k \in NvsKey
       PROVE  /\ Rank(k) \in Nat
              /\ k \notin {SchemaKey, LegacyKey, LegacyUrl} => Rank(k) < Rank(SchemaKey)
  <2>1. CASE k \in {SelectorKey(s) : s \in Slot}
    BY <2>1, <1>1, <1>2, <1>3, <1>8
  <2>2. CASE k \in RecordKey
    <3>1. PICK s \in Slot, g \in Generation : k \in {MetadataKey(s, g), SecretKey(s, g)}
      BY <2>2 DEF RecordKey
    <3>2. Rank(k) \in {5 * s + 2 * g + 1, 5 * s + 2 * g + 2}
      BY <3>1, <1>4, <1>5
    <3> QED
      BY <3>2, <1>1, <1>2, <1>8, <1>9
  <2>3. CASE k \in {DefaultKey, SchemaKey, PresetKey, LegacyKey, LegacyUrl}
    BY <2>3, <1>1, <1>2, <1>6, <1>7
  <2> QED
    BY <2>1, <2>2, <2>3 DEF NvsKey
<1> QED
  BY <1>10

\* The next write is one of the plan, and no other is due before it.
LEMMA NextIsFirst ==
  ASSUME op.plan \subseteq Writes, op.plan # {}
  PROVE  /\ Next1 \in op.plan
         /\ \A v \in op.plan : PhaseNo[Next1.phase] <= PhaseNo[v.phase]
         /\ \A v \in op.plan : v.phase = Next1.phase => Rank(Next1.key) <= Rank(v.key)
<1>1. \A w \in op.plan : w.phase \in Phases /\ w.key \in NvsKey
  BY DEF Writes
<1>2. \A p \in Phases : PhaseNo[p] \in Nat
  BY DEF PhaseNo, Phases
<1> DEFINE Nos == {PhaseNo[w.phase] : w \in op.plan}
<1>3. PICK w \in op.plan : \A v \in op.plan : PhaseNo[w.phase] <= PhaseNo[v.phase]
  <2>1. Nos \in SUBSET Nat /\ Nos # {}
    BY <1>1, <1>2
  <2> HIDE DEF Nos
  <2>2. PICK m \in Nos : \A n \in Nos : m <= n
    BY <2>1, LeastNumber
  <2> QED
    BY <2>2 DEF Nos
<1> DEFINE Ranks == {Rank(v.key) : v \in {u \in op.plan : u.phase = w.phase}}
<1>4. PICK u \in op.plan : u.phase = w.phase /\ \A v \in op.plan : v.phase = w.phase => Rank(u.key) <= Rank(v.key)
  <2>1. Ranks \in SUBSET Nat /\ Ranks # {}
    BY <1>1, RankIsNatural
  <2> HIDE DEF Ranks
  <2>2. PICK m \in Ranks : \A n \in Ranks : m <= n
    BY <2>1, LeastNumber
  <2> QED
    BY <2>2 DEF Ranks
<1> HIDE DEF Nos, Ranks
<1>5. \A v \in op.plan : ~Sooner(v, u)
  <2> TAKE v \in op.plan
  <2>1. PhaseNo[u.phase] <= PhaseNo[v.phase] /\ PhaseNo[u.phase] \in Nat /\ PhaseNo[v.phase] \in Nat
    BY <1>1, <1>2, <1>3, <1>4
  <2>2. v.phase = u.phase => Rank(u.key) <= Rank(v.key)
    BY <1>4
  <2>3. Rank(u.key) \in Nat /\ Rank(v.key) \in Nat
    BY <1>1, RankIsNatural
  <2> QED
    BY <2>1, <2>2, <2>3 DEF Sooner
<1>6. Next1 \in op.plan /\ \A v \in op.plan : ~Sooner(v, Next1)
  BY <1>5 DEF Next1
<1>7. ASSUME NEW v \in op.plan
      PROVE  /\ PhaseNo[Next1.phase] <= PhaseNo[v.phase]
             /\ v.phase = Next1.phase => Rank(Next1.key) <= Rank(v.key)
  <2>1. PhaseNo[Next1.phase] \in Nat /\ PhaseNo[v.phase] \in Nat
    BY <1>1, <1>2, <1>6
  <2>2. Rank(Next1.key) \in Nat /\ Rank(v.key) \in Nat
    BY <1>1, <1>6, RankIsNatural
  <2> QED
    BY <1>6, <2>1, <2>2 DEF Sooner
<1> QED
  BY <1>6, <1>7

\* What that says of the phases that are over.
LEMMA PhasesInOrder ==
  ASSUME op.plan \subseteq Writes, op.plan # {}
  PROVE  /\ Next1 \in op.plan /\ Next1 \in Writes
         /\ Next1.phase # "prepare" => \A v \in op.plan : v.phase # "prepare"
         /\ Next1.phase \in {"commit", "cleanup", "legacy"} =>
              \A v \in op.plan : v.phase \in {"commit", "cleanup", "legacy"}
         /\ Next1.phase \in {"cleanup", "legacy"} =>
              \A v \in op.plan : v.phase \in {"cleanup", "legacy"}
<1>1. Next1 \in op.plan /\ Next1 \in Writes
  BY NextIsFirst
<1>2. \A v \in op.plan : PhaseNo[Next1.phase] <= PhaseNo[v.phase]
  BY NextIsFirst
<1>3. \A w \in op.plan : w.phase \in {"prepare", "stage", "commit", "cleanup", "legacy"}
  BY DEF Writes, Phases
<1> HIDE DEF Next1
<1>4. /\ PhaseNo["prepare"] = 0 /\ PhaseNo["stage"] = 1 /\ PhaseNo["commit"] = 2
      /\ PhaseNo["cleanup"] = 3 /\ PhaseNo["legacy"] = 4
  BY DEF PhaseNo
<1>5. ASSUME NEW v \in op.plan
      PROVE  /\ Next1.phase # "prepare" => v.phase # "prepare"
             /\ Next1.phase \in {"commit", "cleanup", "legacy"} =>
                  v.phase \in {"commit", "cleanup", "legacy"}
             /\ Next1.phase \in {"cleanup", "legacy"} => v.phase \in {"cleanup", "legacy"}
  BY <1>1, <1>2, <1>3, <1>4
<1> QED
  BY <1>1, <1>5

-----------------------------------------------------------------------------
(* What a plan leads to.                                                   *)

\* The last write to a key is what it will hold.
LEMMA GoalIsWritten ==
  ASSUME NEW P, NEW n, NEW id, PlanTypes(P, id), Typed(n),
         \A v, w \in P : v.key = w.key => v = w \/ (v.phase = "prepare") # (w.phase = "prepare")
  PROVE  /\ \A w \in P : w.phase # "prepare" => Goal(P, n)[w.key] = w.value
         /\ \A k \in NvsKey : Lasting(P, k) = {} /\ (\E w \in P : w.key = k) => Goal(P, n)[k] = Absent
         /\ \A k \in NvsKey : (\A w \in P : w.key # k) => Goal(P, n)[k] = n[k]
         /\ Typed(Goal(P, n))
<1>1. \A w \in P : w.key \in NvsKey /\ w.value \in Value /\ w.value \in ValuesOf(w.key)
  BY DEF PlanTypes, Writes
<1>2. ASSUME NEW w \in P, w.phase # "prepare" PROVE Goal(P, n)[w.key] = w.value
  <2>1. w \in Lasting(P, w.key)
    BY <1>2 DEF Lasting
  <2>2. \A v \in Lasting(P, w.key) : v = w
    BY <1>2 DEF Lasting
  <2>3. (CHOOSE v \in Lasting(P, w.key) : TRUE) = w
    BY <2>1, <2>2
  <2> QED
    BY <1>1, <2>1, <2>3 DEF Goal
<1>3. ASSUME NEW k \in NvsKey, Lasting(P, k) = {}, \E w \in P : w.key = k PROVE Goal(P, n)[k] = Absent
  BY <1>3 DEF Goal
<1>4. ASSUME NEW k \in NvsKey, \A w \in P : w.key # k PROVE Goal(P, n)[k] = n[k]
  <2>1. Lasting(P, k) = {}
    BY <1>4 DEF Lasting
  <2> QED
    BY <1>4, <2>1 DEF Goal
<1>5. \A k \in NvsKey : Goal(P, n)[k] \in Value /\ Goal(P, n)[k] \in ValuesOf(k)
  <2> TAKE k \in NvsKey
  <2>1. CASE \A w \in P : w.key # k
    BY <2>1, <1>4 DEF Typed
  <2>2. CASE Lasting(P, k) = {} /\ \E w \in P : w.key = k
    BY <2>2, <1>3 DEF Value, ValuesOf
  <2>3. CASE Lasting(P, k) # {}
    <3>1. PICK w \in P : w.key = k /\ w.phase # "prepare"
      BY <2>3 DEF Lasting
    <3> QED
      BY <3>1, <1>1, <1>2
  <2> QED
    BY <2>1, <2>2, <2>3
<1>6. Goal(P, n) = [k \in NvsKey |-> Goal(P, n)[k]]
  BY DEF Goal
<1>7. Typed(Goal(P, n))
  BY <1>5, <1>6 DEF Typed
<1> QED
  BY <1>2, <1>3, <1>4, <1>7

\* Carrying out the next write leaves the goal where it is.
LEMMA GoalStays ==
  ASSUME NEW id, PlanTypes(op.plan, id), Typed(nvs), op.plan # {},
         \A v, w \in op.plan : v.key = w.key => v = w \/ (v.phase = "prepare") # (w.phase = "prepare")
  PROVE  /\ Goal(Rest, Store) = Goal(op.plan, nvs)
         /\ Typed(Store) /\ PlanTypes(Rest, id)
<1> DEFINE P == op.plan  w == Next1
<1>1. w \in P /\ w \in Writes /\ (w.phase # "prepare" => \A v \in P : v.phase # "prepare")
  BY PhasesInOrder DEF PlanTypes
<1>2. w.key \in NvsKey /\ w.value \in Value /\ w.value \in ValuesOf(w.key)
  BY <1>1 DEF PlanTypes, Writes
<1>3. Rest = P \ {w} /\ Store = [nvs EXCEPT ![w.key] = w.value]
  BY DEF Rest, Store
<1>4. \A v \in P : v.phase \in {"prepare", "cleanup", "legacy"} => v.value = Absent
  BY DEF PlanTypes
<1> HIDE DEF w
<1>5. Typed(Store)
  BY <1>2, <1>3, WrittenAside
<1>6. PlanTypes(Rest, id)
  BY <1>3 DEF PlanTypes
<1>7. \A v, u \in Rest : v.key = u.key => v = u \/ (v.phase = "prepare") # (u.phase = "prepare")
  BY <1>3
<1> HIDE DEF P
<1>8. /\ \A v \in P : v.phase # "prepare" => Goal(P, nvs)[v.key] = v.value
      /\ \A k \in NvsKey : Lasting(P, k) = {} /\ (\E v \in P : v.key = k) => Goal(P, nvs)[k] = Absent
      /\ \A k \in NvsKey : (\A v \in P : v.key # k) => Goal(P, nvs)[k] = nvs[k]
  BY GoalIsWritten DEF P
<1>9. /\ \A v \in Rest : v.phase # "prepare" => Goal(Rest, Store)[v.key] = v.value
      /\ \A k \in NvsKey : Lasting(Rest, k) = {} /\ (\E v \in Rest : v.key = k) => Goal(Rest, Store)[k] = Absent
      /\ \A k \in NvsKey : (\A v \in Rest : v.key # k) => Goal(Rest, Store)[k] = Store[k]
  BY <1>5, <1>6, <1>7, GoalIsWritten
<1>10. ASSUME NEW k \in NvsKey PROVE Goal(Rest, Store)[k] = Goal(P, nvs)[k]
  <2>1. CASE \A v \in P : v.key # k
    <3>1. k # w.key /\ \A v \in Rest : v.key # k
      BY <2>1, <1>1, <1>3
    <3>2. Store[k] = nvs[k]
      BY <3>1, <1>3 DEF Typed
    <3> QED
      BY <2>1, <3>1, <3>2, <1>8, <1>9
  <2>2. CASE \E v \in Rest : v.key = k /\ v.phase # "prepare"
    <3>1. PICK v \in Rest : v.key = k /\ v.phase # "prepare"
      BY <2>2
    <3>2. v \in P
      BY <1>3
    <3> QED
      BY <3>1, <3>2, <1>8, <1>9
  <2>3. CASE k = w.key /\ w.phase # "prepare"
    <3>1. \A v \in Rest : v.key # k
      BY <2>3, <1>1, <1>3 DEF P
    <3>2. Store[k] = w.value
      BY <2>3, <1>2, <1>3 DEF Typed
    <3> QED
      BY <2>3, <3>1, <3>2, <1>1, <1>8, <1>9
  <2>4. CASE /\ \E v \in P : v.key = k
             /\ \A v \in P : v.key = k => v.phase = "prepare"
    <3>1. Lasting(P, k) = {} /\ Lasting(Rest, k) = {}
      BY <2>4, <1>3 DEF Lasting
    <3>2. Goal(P, nvs)[k] = Absent
      BY <2>4, <3>1, <1>8
    <3>3. CASE \E v \in Rest : v.key = k
      BY <3>1, <3>2, <3>3, <1>9
    <3>4. CASE \A v \in Rest : v.key # k
      <4>1. w.key = k /\ w.phase = "prepare"
        BY <2>4, <3>4, <1>3
      <4>2. Store[k] = Absent
        BY <4>1, <1>1, <1>2, <1>3, <1>4 DEF Typed, P
      <4> QED
        BY <3>2, <3>4, <4>2, <1>9
    <3> QED
      BY <3>3, <3>4
  <2> QED
    BY <2>1, <2>2, <2>3, <2>4, <1>3
<1>11. Goal(Rest, Store) = Goal(P, nvs)
  BY <1>10 DEF Goal
<1> QED
  BY <1>5, <1>6, <1>11 DEF P

-----------------------------------------------------------------------------
(* One write.                                                              *)

\* Behind the write that counts, what is in force is what was asked for.
LEMMA DoneIsAfter ==
  ASSUME NEW kind, NEW P, NEW n, NEW after, NEW S, NEW id,
         GoodPlan(kind, P, n, after, S, id), Typed(n), ~Pending(kind, P)
  PROVE  /\ Has(n, SchemaKey) /\ AuthorityOf(n) = after
         /\ GoodStore(n) /\ NewerThan(n, S)
         /\ InForce(n) = InForce(Goal(P, n))
<1> DEFINE G == Goal(P, n)
<1>1. /\ PlanTypes(P, id) /\ WrittenOnce(kind, P) /\ Aside(kind, P, n)
      /\ Has(G, SchemaKey) /\ AuthorityOf(G) = after /\ GoodStore(G) /\ NewerThan(G, S)
  BY DEF GoodPlan, Leads
<1>2. /\ Typed(G)
      /\ \A k \in NvsKey : (\A w \in P : w.key # k) => G[k] = n[k]
  BY <1>1, GoalIsWritten DEF WrittenOnce
<1>3. \A w \in P : w.key \notin InForce(G)
  BY <1>1 DEF Aside
<1>4. InForce(G) \subseteq NvsKey
  BY OtherKeys, KeysDiffer DEF InForce, NvsKey
<1> HIDE DEF G
<1>5. \A k \in InForce(G) : G[k] = n[k]
  BY <1>2, <1>3, <1>4
<1> QED
  BY <1>1, <1>2, <1>5, SameInForce DEF G

\* What the next write does, with the plan that is left.
LEMMA OneWrite ==
  ASSUME NEW after, NEW S, NEW id,
         GoodPlan(op.kind, op.plan, nvs, after, S, id), Typed(nvs), GoodStore(nvs),
         NewerThan(nvs, S), op.plan # {},
         Initial => (Pending(op.kind, op.plan) => ~Has(nvs, SchemaKey))
  PROVE  /\ GoodPlan(op.kind, Rest, Store, after, S, id)
         /\ Goal(Rest, Store) = Goal(op.plan, nvs)
         /\ Typed(Store) /\ GoodStore(Store) /\ NewerThan(Store, S)
         /\ Next1 \in op.plan /\ Next1 \in Writes
         /\ Committed <=> ~Pending(op.kind, op.plan)
         /\ Effective(op.kind, Next1) =>
              Pending(op.kind, op.plan) /\ ~Pending(op.kind, Rest) /\ Has(Store, SchemaKey)
              /\ AuthorityOf(Store) = after
         /\ ~Effective(op.kind, Next1) =>
              /\ Pending(op.kind, op.plan) <=> Pending(op.kind, Rest)
              /\ AuthorityOf(Store) = Authority
              /\ Has(Store, SchemaKey) <=> Has(nvs, SchemaKey)
<1> DEFINE P == op.plan  w == Next1  K == op.kind
<1>1. PlanTypes(P, id) /\ WrittenOnce(K, P) /\ Aside(K, P, nvs) /\ Leads(P, nvs, after, S)
  BY DEF GoodPlan
<1>2. /\ w \in P /\ w \in Writes
      /\ w.phase \in {"commit", "cleanup", "legacy"} =>
           \A v \in P : v.phase \in {"commit", "cleanup", "legacy"}
      /\ w.phase \in {"cleanup", "legacy"} => \A v \in P : v.phase \in {"cleanup", "legacy"}
  BY <1>1, PhasesInOrder DEF PlanTypes
<1>3. /\ Goal(Rest, Store) = Goal(P, nvs) /\ Typed(Store) /\ PlanTypes(Rest, id)
  BY <1>1, GoalStays DEF WrittenOnce
<1>4. Rest = P \ {w} /\ Store = [nvs EXCEPT ![w.key] = w.value]
  BY DEF Rest, Store
<1>5. w.phase \in {"prepare", "stage", "commit", "cleanup", "legacy"} /\ w.key \in NvsKey
  BY <1>2 DEF Writes, Phases
<1>6. w.phase \in {"cleanup", "legacy"} => ~Pending(K, P)
  BY <1>2 DEF Pending, Effective
<1>7. w.phase \notin {"cleanup", "legacy"} => Pending(K, P)
  BY <1>1, <1>2 DEF Aside
<1>8. Effective(K, w) => Pending(K, P) /\ w.phase = "commit"
  BY <1>2 DEF Pending, Effective
<1>9. Effective(K, w) => ~Pending(K, Rest)
  BY <1>1, <1>2, <1>4 DEF WrittenOnce, Pending
<1>10. ~Effective(K, w) => (Pending(K, P) <=> Pending(K, Rest))
  BY <1>4 DEF Pending
<1>11. Pending(K, P) /\ ~Effective(K, w) => \A k \in InForce(nvs) : nvs[k] = Store[k]
  <2>1. SUFFICES ASSUME Pending(K, P), ~Effective(K, w) PROVE \A k \in InForce(nvs) : nvs[k] = Store[k]
    OBVIOUS
  <2>2. w.key \notin InForce(nvs)
    BY <2>1, <1>1, <1>2, <1>5, <1>6 DEF Aside
  <2>3. w.value \in Value /\ w.value \in ValuesOf(w.key)
    BY <1>1, <1>2 DEF PlanTypes, Writes
  <2> HIDE DEF w
  <2>4. \A k \in InForce(nvs) : Store[k] = nvs[k]
    BY <2>2, <2>3, <1>4, <1>5, WrittenAside
  <2> QED
    BY <2>4
<1>12. Pending(K, P) /\ ~Effective(K, w) =>
         /\ Has(Store, SchemaKey) <=> Has(nvs, SchemaKey)
         /\ InForce(Store) = InForce(nvs)
         /\ AuthorityOf(Store) = Authority
         /\ GoodStore(Store)
         /\ NewerThan(Store, S)
  BY <1>3, <1>11, SameInForce DEF Authority
<1>13. ~Pending(K, Rest) => \A v \in Rest : v.phase \in {"cleanup", "legacy"}
  <2>1. SUFFICES ASSUME ~Pending(K, Rest), NEW v \in Rest PROVE v.phase \in {"cleanup", "legacy"}
    OBVIOUS
  <2>2. CASE ~Pending(K, P)
    BY <2>2, <1>1, <1>4 DEF Aside
  <2>3. CASE Pending(K, P)
    <3>1. Effective(K, w)
      BY <2>1, <2>3, <1>10
    <3>2. v \in P /\ v # w /\ v.phase \in {"commit", "cleanup", "legacy"}
      BY <3>1, <1>2, <1>4, <1>8
    <3>3. ~Effective(K, v)
      BY <2>1 DEF Pending
    <3>4. CASE v.phase = "commit"
      <4>1. Initial /\ Initializes(K) /\ v.key # SchemaKey /\ w.key = SchemaKey
        BY <3>1, <3>3, <3>4 DEF Effective, Initial, Initializes
      <4>2. ~Has(nvs, SchemaKey)
        BY <4>1, <2>3
      <4>3. v.key \notin InForce(nvs)
        BY <3>2, <3>3, <3>4, <2>3, <1>1 DEF Aside
      <4>4. v.key \notin {SchemaKey, LegacyKey, LegacyUrl} /\ v.key \in NvsKey
        BY <4>2, <4>3, <3>2, <1>1 DEF InForce, PlanTypes, Writes
      <4>5. Rank(v.key) < Rank(w.key) /\ Rank(v.key) \in Nat /\ Rank(w.key) \in Nat
        BY <4>1, <4>4, <1>5, RankIsNatural
      <4>6. Rank(w.key) <= Rank(v.key)
        BY <3>1, <3>2, <3>4, <1>1, <1>8, NextIsFirst DEF PlanTypes
      <4> QED
        BY <4>5, <4>6
    <3> QED
      BY <3>2, <3>4
  <2> QED
    BY <2>2, <2>3
<1>14. WrittenOnce(K, Rest)
  BY <1>1, <1>4 DEF WrittenOnce
<1>15. Aside(K, Rest, Store)
  <2>1. Pending(K, Rest) => \A v \in Rest :
          v.phase \in {"prepare", "stage", "commit"} /\ ~Effective(K, v) => v.key \notin InForce(Store)
    <3>1. SUFFICES ASSUME Pending(K, Rest), NEW v \in Rest,
                          v.phase \in {"prepare", "stage", "commit"}, ~Effective(K, v)
                   PROVE  v.key \notin InForce(Store)
      OBVIOUS
    <3>2. Pending(K, P) /\ ~Effective(K, w)
      BY <3>1, <1>9, <1>10
    <3>3. v.key \notin InForce(nvs)
      BY <3>1, <3>2, <1>1, <1>4 DEF Aside
    <3> QED
      BY <3>2, <3>3, <1>12
  <2>2. \A v \in Rest : v.phase \in {"cleanup", "legacy"} =>
          ~Initializes(K) /\ v.key \notin InForce(Goal(Rest, Store))
    BY <1>1, <1>3, <1>4 DEF Aside
  <2> QED
    BY <2>1, <2>2, <1>13 DEF Aside
<1>16. Leads(Rest, Store, after, S)
  BY <1>1, <1>3 DEF Leads
<1>17. GoodPlan(K, Rest, Store, after, S, id)
  BY <1>3, <1>14, <1>15, <1>16 DEF GoodPlan
<1>18. ~Pending(K, Rest) =>
         Has(Store, SchemaKey) /\ AuthorityOf(Store) = after /\ GoodStore(Store) /\ NewerThan(Store, S)
  BY <1>3, <1>17, DoneIsAfter
<1>19. ~Pending(K, P) => Has(nvs, SchemaKey) /\ Authority = after
  BY DoneIsAfter DEF Authority
<1>20. Committed <=> ~Pending(K, P)
  BY <1>6, <1>7 DEF Committed
<1>21. GoodStore(Store) /\ NewerThan(Store, S)
  BY <1>9, <1>10, <1>12, <1>18
<1>22. ~Effective(K, w) => AuthorityOf(Store) = Authority /\ (Has(Store, SchemaKey) <=> Has(nvs, SchemaKey))
  BY <1>10, <1>12, <1>18, <1>19
<1> QED
  BY <1>2, <1>3, <1>8, <1>9, <1>10, <1>17, <1>18, <1>20, <1>21, <1>22

SeenStep == seen' = seen \cup (IF state' = "ready" THEN Authority.profiles' ELSE {})

-----------------------------------------------------------------------------
(* What the requests have seen.                                            *)

\* With the schema marker, what is in force are the profiles.
LEMMA ProfilesOfAuthority ==
  ASSUME NEW n, Has(n, SchemaKey)
  PROVE  /\ AuthorityOf(n).profiles = Profiles(n)
         /\ Sound(n) => AuthorityOf(n).default = DefaultCredentials(n)
BY DEF AuthorityOf

\* A step that keeps the store in order keeps what is known of the profiles seen.
LEMMA SeenKept ==
  ASSUME StoreInv, StoreInv', SeenInv, SeenStep, NewerThan(nvs', seen), left.id <= left.id',
         state' = "ready" => Has(nvs', SchemaKey)
  PROVE  SeenInv'
<1>1. Typed(nvs') /\ GoodStore(nvs') /\ left.id \in Nat /\ left.id' \in Nat
  BY DEF StoreInv
<1>2. CASE state' # "ready"
  BY <1>1, <1>2 DEF SeenStep, SeenInv, RevisionTellsChange
<1>3. CASE state' = "ready"
  <2> DEFINE n == nvs'
  <2>1. Has(n, SchemaKey) /\ seen' = seen \cup Profiles(n)
    BY <1>3, ProfilesOfAuthority DEF SeenStep, Authority
  <2>2. NewerThan(n, seen \cup Profiles(n))
    BY <2>1, <1>1, NewerThanItself, ProfilesOfAuthority
  <2>3. ASSUME NEW p \in Profiles(n) PROVE p \in Nat \X Nat \X Nat \X Nat /\ p[1] < left.id'
    <3>1. PICK s \in Known(n) : p = Profile(n, s)
      BY DEF Profiles
    <3>2. s \in Slot /\ Chosen(n, s) \in Generation /\ Metadata(n, s) # Absent /\ p \in Nat \X Nat \X Nat \X Nat
      BY <3>1, <1>1, ProfileParts DEF Known, Complete
    <3>3. Metadata(n, s)[1] < left.id'
      BY <3>2 DEF StoreInv, OldIds, Has, Metadata
    <3> QED
      BY <3>1, <3>2, <3>3 DEF Profile
  <2> HIDE DEF n
  <2>4. \A p \in seen : p \in Nat \X Nat \X Nat \X Nat /\ p[1] < left.id'
    BY <1>1 DEF SeenInv
  <2>5. ASSUME NEW p \in seen', NEW q \in seen', p[1] = q[1], p[2] = q[2] PROVE p = q
    <3>1. CASE p \in seen /\ q \in seen
      BY <2>5, <3>1 DEF SeenInv, RevisionTellsChange
    <3>2. ASSUME NEW r \in seen \cup Profiles(n), NEW s \in Known(n), r[1] = Profile(n, s)[1],
                 r[2] = Profile(n, s)[2]
          PROVE  r = Profile(n, s)
      <4>1. s \in Used(n) /\ Profile(n, s)[2] \in Nat
        BY <1>1, ProfileParts DEF n
      <4> QED
        BY <4>1, <3>2, <2>1, <2>2 DEF NewerThan
    <3> QED
      BY <2>1, <2>5, <3>1, <3>2 DEF Profiles
  <2> QED
    BY <1>3, <2>1, <2>2, <2>3, <2>4, <2>5 DEF SeenInv, RevisionTellsChange, n
<1> QED
  BY <1>2, <1>3

\* A plan stays good while requests see what is in force.
LEMMA PlanStaysGood ==
  ASSUME NEW kind, NEW P, NEW n, NEW m, NEW after, NEW S, NEW id, Typed(n),
         GoodPlan(kind, P, n, after, S, id), AuthorityOf(m) = after
  PROVE  GoodPlan(kind, P, n, after, S \cup AuthorityOf(m).profiles, id)
<1> DEFINE G == Goal(P, n)
<1>1. PlanTypes(P, id) /\ WrittenOnce(kind, P) /\ Leads(P, n, after, S)
  BY DEF GoodPlan
<1>2. Typed(G)
  BY <1>1, GoalIsWritten DEF WrittenOnce
<1>3. AuthorityOf(G) = after /\ GoodStore(G) /\ NewerThan(G, S)
  BY <1>1 DEF Leads
<1> HIDE DEF G
<1>4. NewerThan(G, S \cup AuthorityOf(m).profiles)
  BY <1>2, <1>3, NewerThanItself
<1> QED
  BY <1>1, <1>4 DEF GoodPlan, Leads, G

-----------------------------------------------------------------------------
(* The steps of a plan.                                                    *)

\* What a step may rely on while a plan is carried out.
LEMMA WriteIsOne ==
  ASSUME ProviderInv, Busy, op.plan # {}
  PROVE  /\ GoodPlan(op.kind, Rest, Store, op.after, seen, left.id)
         /\ Goal(Rest, Store) = Goal(op.plan, nvs)
         /\ Typed(Store) /\ GoodStore(Store) /\ NewerThan(Store, seen)
         /\ Next1 \in op.plan /\ Next1 \in Writes
         /\ Committed <=> ~Pending(op.kind, op.plan)
         /\ Effective(op.kind, Next1) =>
              Pending(op.kind, op.plan) /\ ~Pending(op.kind, Rest) /\ Has(Store, SchemaKey)
              /\ AuthorityOf(Store) = op.after
         /\ ~Effective(op.kind, Next1) =>
              /\ Pending(op.kind, op.plan) <=> Pending(op.kind, Rest)
              /\ AuthorityOf(Store) = Authority
              /\ Has(Store, SchemaKey) <=> Has(nvs, SchemaKey)
         /\ OldIds(Store)
<1>1. /\ GoodPlan(op.kind, op.plan, nvs, op.after, seen, left.id)
      /\ Initial => (Pending(op.kind, op.plan) => ~Has(nvs, SchemaKey))
  BY DEF ProviderInv, PlanInv
<1>2. Typed(nvs) /\ GoodStore(nvs) /\ NewerThan(nvs, seen) /\ OldIds(nvs)
  BY DEF ProviderInv, StoreInv, SeenInv
<1>3. Next1 \in op.plan /\ Next1 \in Writes
  BY <1>1, <1>2, OneWrite
<1>4. OldIds(Store)
  <2> SUFFICES ASSUME NEW s \in Slot, NEW g \in Generation, Has(Store, MetadataKey(s, g))
               PROVE  Store[MetadataKey(s, g)][1] < left.id
    BY DEF OldIds
  <2> DEFINE k == MetadataKey(s, g)  w == Next1
  <2>1. k \in NvsKey /\ DOMAIN nvs = NvsKey
    BY <1>2, KeysDiffer, OtherKeys DEF Typed
  <2>2. k = w.key /\ w.value # Absent => w.value[1] < left.id
    BY <1>1, <1>3 DEF GoodPlan, PlanTypes
  <2>3. Has(nvs, k) => nvs[k][1] < left.id
    BY <1>2 DEF OldIds
  <2>4. Has(Store, k)
    OBVIOUS
  <2>5. Store = [nvs EXCEPT ![w.key] = w.value]
    BY DEF Store
  <2> HIDE DEF k, w
  <2>6. Store[k] = IF k = w.key THEN w.value ELSE nvs[k]
    BY <2>1, <2>5
  <2>7. Store[k][1] < left.id
    BY <2>2, <2>3, <2>4, <2>6 DEF Has
  <2> QED
    BY <2>7 DEF k
<1> QED
  BY <1>1, <1>2, <1>4, OneWrite

\* The next write of a plan keeps the invariant.
LEMMA WriteKeeps ==
  ASSUME ProviderInv, Write, SeenStep
  PROVE  ProviderInv'
<1>1. /\ Busy /\ op.plan # {} /\ nvs' = Store /\ op' = [op EXCEPT !.plan = Rest]
      /\ UNCHANGED <<state, blocked, again, surface, hot, report, trouble, left>>
  BY DEF Write
<1>2. PlanInv /\ StoreInv /\ SeenInv /\ StateInv /\ TypeOK
  BY DEF ProviderInv
<1>3. /\ op = [kind |-> op.kind, plan |-> op.plan, before |-> op.before, after |-> op.after,
               reload |-> op.reload]
      /\ op.kind \in Kinds /\ op.reload = (op.after.default # op.before.default)
      /\ report.verdict = "none"
      /\ Pending(op.kind, op.plan) => Authority = op.before
      /\ ~trouble /\ ~Initial => Clean(Goal(op.plan, nvs))
      /\ Initial =>
           /\ surface = "device"
           /\ state = (IF op.kind = "migrate" THEN "legacy" ELSE "unconfigured")
           /\ Pending(op.kind, op.plan) <=> ~Has(nvs, SchemaKey)
      /\ ~Initial => state = "ready"
      /\ hot[surface] = op.before.default
      /\ GoodPlan(op.kind, op.plan, nvs, op.after, seen, left.id)
  BY <1>1, <1>2 DEF PlanInv
<1>4. /\ GoodPlan(op.kind, Rest, Store, op.after, seen, left.id)
      /\ Goal(Rest, Store) = Goal(op.plan, nvs)
      /\ Typed(Store) /\ GoodStore(Store) /\ NewerThan(Store, seen)
      /\ Next1 \in op.plan /\ Next1 \in Writes
      /\ Effective(op.kind, Next1) =>
           Pending(op.kind, op.plan) /\ ~Pending(op.kind, Rest) /\ Has(Store, SchemaKey)
           /\ AuthorityOf(Store) = op.after
      /\ ~Effective(op.kind, Next1) =>
           /\ Pending(op.kind, op.plan) <=> Pending(op.kind, Rest)
           /\ AuthorityOf(Store) = Authority
           /\ Has(Store, SchemaKey) <=> Has(nvs, SchemaKey)
      /\ OldIds(Store)
  BY <1>1, WriteIsOne
<1>5. op' = [kind |-> op.kind, plan |-> Rest, before |-> op.before, after |-> op.after,
             reload |-> op.reload]
  <2> DEFINE r == Rest
  <2>1. op' = [op EXCEPT !.plan = r]
    BY <1>1
  <2> HIDE DEF r
  <2>2. PICK k, p, b, a, l : op = [kind |-> k, plan |-> p, before |-> b, after |-> a, reload |-> l]
    BY <1>3
  <2>3. op' = [kind |-> op.kind, plan |-> r, before |-> op.before, after |-> op.after,
             reload |-> op.reload]
    BY <2>1, <2>2
  <2> QED
    BY <2>3 DEF r
<1>6. /\ op'.kind = op.kind /\ op'.plan = Rest /\ op'.before = op.before /\ op'.after = op.after
      /\ op'.reload = op.reload
  BY <1>5
<1>7. StoreInv'
  BY <1>1, <1>2, <1>4 DEF StoreInv, OldIds
<1>8. StateInv'
  <2>1. op.kind # "none"
    BY <1>1 DEF Busy, Idle
  <2>2. state = "ready" => Has(Store, SchemaKey)
    BY <1>2, <1>4 DEF StateInv
  <2> QED
    BY <1>1, <1>2, <1>6, <2>1, <2>2 DEF StateInv, Idle
<1>9. SeenInv'
  <2>1. left.id \in Nat
    BY <1>2 DEF StoreInv
  <2> QED
    BY <1>1, <1>2, <1>4, <1>7, <1>8, <2>1, SeenKept DEF StateInv
<1>10. Authority' = AuthorityOf(Store)
  BY <1>1 DEF Authority
<1>11. OldOrNew'
  <2>1. AuthorityOf(Store) \in {op.before, op.after}
    BY <1>1, <1>3, <1>4 DEF ProviderInv, OldOrNew
  <2> QED
    BY <1>1, <1>3, <1>6, <1>10, <2>1 DEF OldOrNew
<1>12. GoodPlan(op.kind, Rest, Store, op.after, seen', left.id)
  <2>1. CASE state # "ready"
    BY <1>1, <1>4, <2>1 DEF SeenStep
  <2>2. CASE state = "ready" /\ Effective(op.kind, Next1)
    <3>1. seen' = seen \cup AuthorityOf(Store).profiles
      BY <1>1, <2>2 DEF SeenStep, Authority
    <3> QED
      BY <1>4, <2>2, <3>1, PlanStaysGood
  <2>3. CASE state = "ready" /\ ~Effective(op.kind, Next1)
    <3>1. seen' = seen
      BY <1>1, <1>2, <1>4, <1>10, <2>3, ProfilesOfAuthority DEF SeenStep, SeenInv, StateInv, Authority
    <3> QED
      BY <1>4, <3>1
  <2> QED
    BY <2>1, <2>2, <2>3
<1>13. PlanInv'
  <2>1. Pending(op.kind, Rest) => AuthorityOf(Store) = op.before
    BY <1>3, <1>4
  <2>2. Initial => (Pending(op.kind, Rest) <=> ~Has(Store, SchemaKey))
    BY <1>3, <1>4
  <2>3. Initial' <=> Initial
    BY <1>6 DEF Initial
  <2> QED
    BY <1>1, <1>3, <1>4, <1>5, <1>6, <1>10, <1>12, <2>1, <2>2, <2>3 DEF PlanInv
<1>14. HotInv' /\ SecretsAreInUse'
  BY <1>1, <1>6 DEF HotInv, SecretsAreInUse, Idle, Busy
<1>15. TypeOK'
  BY <1>1, <1>2, <1>7 DEF TypeOK, StoreInv, Typed, OldIds
<1> QED
  BY <1>1, <1>7, <1>8, <1>9, <1>11, <1>13, <1>14, <1>15 DEF ProviderInv, NeverCorrupt

-----------------------------------------------------------------------------
(* The end of a plan.                                                      *)

\* What holds while a plan is carried out.
LEMMA PlanFacts ==
  ASSUME ProviderInv, Busy
  PROVE  /\ op.kind \in Kinds /\ op.reload = (op.after.default # op.before.default)
         /\ report.verdict = "none"
         /\ GoodPlan(op.kind, op.plan, nvs, op.after, seen, left.id)
         /\ Pending(op.kind, op.plan) => Authority = op.before
         /\ ~trouble /\ ~Initial => Clean(Goal(op.plan, nvs))
         /\ Initial =>
              /\ surface = "device"
              /\ state = (IF op.kind = "migrate" THEN "legacy" ELSE "unconfigured")
              /\ Pending(op.kind, op.plan) <=> ~Has(nvs, SchemaKey)
         /\ ~Initial => state = "ready"
         /\ hot[surface] = op.before.default
         /\ ~Pending(op.kind, op.plan) => Has(nvs, SchemaKey) /\ Authority = op.after
         /\ Authority \in {op.before, op.after}
<1>1. GoodPlan(op.kind, op.plan, nvs, op.after, seen, left.id) /\ Typed(nvs)
  BY DEF ProviderInv, PlanInv, StoreInv
<1>2. ~Pending(op.kind, op.plan) => Has(nvs, SchemaKey) /\ Authority = op.after
  BY <1>1, DoneIsAfter DEF Authority
<1> QED
  BY <1>2 DEF ProviderInv, PlanInv, OldOrNew

\* Whoever runs is one of those that hold settings.
LEMMA SurfaceIsOne ==
  ASSUME ProviderInv
  PROVE  surface \in Surface /\ DOMAIN hot = Surface
BY DEF ProviderInv, TypeOK

\* When an operation is reported as saved, its surface uses what was asked for.
LEMMA RefreshedIsAfter ==
  ASSUME ProviderInv, Busy, ~Pending(op.kind, op.plan), Refresh
  PROVE  DOMAIN hot' = Surface /\ hot'[surface] = op.after.default
<1>1. /\ op.reload = (op.after.default # op.before.default) /\ hot[surface] = op.before.default
      /\ Has(nvs, SchemaKey) /\ Authority = op.after
  BY PlanFacts
<1>2. Sound(nvs) /\ DefaultCredentials(nvs) = op.after.default
  BY <1>1, DefaultIsProfile, ProfilesOfAuthority DEF ProviderInv, StoreInv, Authority
<1>3. surface \in Surface /\ DOMAIN hot = Surface
  BY SurfaceIsOne
<1>4. CASE op.reload
  <2>1. hot' = [hot EXCEPT ![surface] = DefaultCredentials(nvs)]
    BY <1>1, <1>2, <1>4 DEF Refresh, Reloaded
  <2> QED
    BY <1>2, <1>3, <2>1
<1>5. CASE ~op.reload
  BY <1>1, <1>3, <1>5 DEF Refresh, Reloaded
<1> QED
  BY <1>1, <1>4, <1>5

\* A store that is read as it is, is the same to the state variables.
LEMMA InspectIsGood ==
  ASSUME NEW S, NEW id, Typed(nvs), GoodStore(nvs), Has(nvs, SchemaKey), NewerThan(nvs, S)
  PROVE  /\ GoodPlan("inspect", InspectPlan, nvs, Authority, S, id)
         /\ ~Pending("inspect", InspectPlan)
         /\ Clean(Goal(InspectPlan, nvs))
<1> DEFINE P == InspectPlan  G == Goal(P, nvs)
<1>1. ASSUME NEW w \in P
      PROVE  /\ w.value = Absent /\ w \in Writes /\ Has(nvs, w.key)
             /\ w.phase \in {"cleanup", "legacy"}
             /\ w.key \in {LegacyKey, LegacyUrl} \/ (w.key \in RecordKey /\ ~InUse(nvs, w.key))
  <2>1. \/ \E k \in RecordKey : ~InUse(nvs, k) /\ w = Drop(k, "cleanup")
        \/ w \in {Drop(LegacyKey, "legacy"), Drop(LegacyUrl, "legacy")}
    BY DEF InspectPlan, Present
  <2>2. Has(nvs, w.key)
    BY DEF InspectPlan, Present
  <2>3. Absent \in Value
    BY DEF Value
  <2> QED
    BY <2>1, <2>2, <2>3, OtherKeys DEF Drop, Writes, Phases
<1>2. \A k \in RecordKey : ~InUse(nvs, k) /\ Has(nvs, k) => \E w \in P : w.key = k
  <2> SUFFICES ASSUME NEW k \in RecordKey, ~InUse(nvs, k), Has(nvs, k) PROVE \E w \in P : w.key = k
    OBVIOUS
  <2>1. Drop(k, "cleanup") \in P /\ Drop(k, "cleanup").key = k
    BY DEF InspectPlan, Present, Drop
  <2> QED
    BY <2>1
<1>3. Has(nvs, LegacyKey) => \E w \in P : w.key = LegacyKey
  <2> SUFFICES ASSUME Has(nvs, LegacyKey) PROVE \E w \in P : w.key = LegacyKey
    OBVIOUS
  <2>1. Drop(LegacyKey, "legacy") \in P /\ Drop(LegacyKey, "legacy").key = LegacyKey
    BY DEF InspectPlan, Present, Drop
  <2> QED
    BY <2>1
<1>4. \A v, w \in P : v.key = w.key => v = w
  <2> SUFFICES ASSUME NEW v \in P, NEW w \in P, v.key = w.key PROVE v = w
    OBVIOUS
  <2>1. \/ \E k \in RecordKey : v = Drop(k, "cleanup")
        \/ v \in {Drop(LegacyKey, "legacy"), Drop(LegacyUrl, "legacy")}
    BY DEF InspectPlan, Present
  <2>2. \/ \E k \in RecordKey : w = Drop(k, "cleanup")
        \/ w \in {Drop(LegacyKey, "legacy"), Drop(LegacyUrl, "legacy")}
    BY DEF InspectPlan, Present
  <2> QED
    BY <2>1, <2>2, OtherKeys DEF Drop
<1> HIDE DEF P
<1>5. PlanTypes(P, id)
  BY <1>1 DEF PlanTypes, ValuesOf
<1>6. \A w \in P : ~Effective("inspect", w)
  BY <1>1 DEF Effective
<1>7. WrittenOnce("inspect", P) /\ ~Pending("inspect", P)
  BY <1>4, <1>6 DEF WrittenOnce, Pending
<1>8. /\ Typed(G)
      /\ \A k \in NvsKey : (\A w \in P : w.key # k) => G[k] = nvs[k]
      /\ \A k \in NvsKey : Lasting(P, k) = {} /\ (\E w \in P : w.key = k) => G[k] = Absent
      /\ \A w \in P : w.phase # "prepare" => G[w.key] = w.value
  BY <1>4, <1>5, GoalIsWritten
<1>9. \A w \in P : w.key \notin InForce(nvs)
  <2> SUFFICES ASSUME NEW w \in P PROVE w.key \notin InForce(nvs)
    OBVIOUS
  <2>1. CASE w.key \in {LegacyKey, LegacyUrl}
    <3>1. w.key \notin {SelectorKey(s) : s \in Slot}
      BY <2>1 DEF SelectorKey, LegacyKey, LegacyUrl
    <3>2. w.key \notin RecordKey \cup {SchemaKey, DefaultKey, PresetKey}
      BY <2>1, OtherKeys
    <3> QED
      BY <3>1, <3>2 DEF InForce
  <2>2. CASE w.key \in RecordKey /\ ~InUse(nvs, w.key)
    <3>1. \A s \in Slot : w.key # SelectorKey(s)
      BY <2>2, KeysDiffer DEF RecordKey
    <3> QED
      BY <2>2, <3>1, OtherKeys DEF InForce
  <2> QED
    BY <1>1, <2>1, <2>2
<1>10. InForce(nvs) \subseteq NvsKey
  BY OtherKeys, KeysDiffer DEF InForce, NvsKey
<1> HIDE DEF G
<1>11. \A k \in InForce(nvs) : nvs[k] = G[k]
  BY <1>8, <1>9, <1>10
<1>12. /\ Has(G, SchemaKey) /\ InForce(G) = InForce(nvs) /\ AuthorityOf(G) = Authority
       /\ GoodStore(G) /\ NewerThan(G, S)
  BY <1>8, <1>11, SameInForce DEF Authority
<1>13. Aside("inspect", P, nvs)
  BY <1>1, <1>7, <1>9, <1>12 DEF Aside, Initializes, G
<1>14. Clean(G)
  <2>1. ~Has(G, LegacyKey)
    BY <1>1, <1>3, <1>8, OtherKeys DEF Has
  <2>2. ASSUME NEW s \in Slot, NEW g \in Generation, Has(G, SecretKey(s, g))
        PROVE  InUse(G, SecretKey(s, g))
    <3> DEFINE k == SecretKey(s, g)
    <3>1. k \in RecordKey /\ k \in NvsKey
      BY KeysDiffer, OtherKeys
    <3> HIDE DEF k
    <3>2. Has(G, k)
      BY <2>2 DEF k
    <3>3. InUse(nvs, k)
      BY <3>1, <3>2, <1>1, <1>2, <1>8 DEF Has
    <3>4. InUse(G, k)
      BY <3>1, <3>3, <1>8, <1>11, SameProfiles
    <3> QED
      BY <3>4 DEF k
  <2> QED
    BY <2>1, <2>2 DEF Clean
<1> QED
  BY <1>5, <1>7, <1>12, <1>13, <1>14 DEF GoodPlan, Leads, G, P

\* The end of a plan keeps the invariant.
LEMMA FinishKeeps ==
  ASSUME ProviderInv, Finish, SeenStep
  PROVE  ProviderInv'
<1>1. Busy /\ op.plan = {} /\ UNCHANGED <<nvs, blocked, surface, trouble, left>>
  BY DEF Finish
<1>2. PlanInv /\ StoreInv /\ SeenInv /\ StateInv /\ TypeOK
  BY DEF ProviderInv
<1>3. ~Pending(op.kind, op.plan)
  BY <1>1 DEF Pending
<1>4. /\ Has(nvs, SchemaKey) /\ Authority = op.after /\ op.kind \in Kinds
      /\ op.reload = (op.after.default # op.before.default)
      /\ report.verdict = "none" /\ (~Initial => state = "ready")
      /\ (~trouble /\ ~Initial => Clean(Goal(op.plan, nvs)))
      /\ hot[surface] = op.before.default
  BY <1>1, <1>3, PlanFacts
<1>5. StoreInv' /\ Authority' = Authority /\ Has(nvs', SchemaKey)
  BY <1>1, <1>2, <1>4 DEF StoreInv, OldIds, Authority
<1>6. SeenInv'
  <2>1. left.id \in Nat /\ NewerThan(nvs', seen)
    BY <1>1, <1>2 DEF StoreInv, SeenInv
  <2> QED
    BY <1>1, <1>2, <1>5, <2>1, SeenKept
<1>7. CASE Initial
  <2>1. /\ op' = [op EXCEPT !.kind = "inspect", !.plan = InspectPlan]
        /\ state' = "ready" /\ again' = FALSE /\ UNCHANGED <<hot, report>>
    BY <1>7 DEF Finish
  <2>2. op' = [kind |-> "inspect", plan |-> InspectPlan, before |-> op.before, after |-> op.after,
               reload |-> op.reload]
    <3> DEFINE r == InspectPlan
    <3>1. op' = [op EXCEPT !.kind = "inspect", !.plan = r]
      BY <2>1
    <3> HIDE DEF r
    <3>2. PICK k, p, b, a, l : op = [kind |-> k, plan |-> p, before |-> b, after |-> a, reload |-> l]
      BY <1>1, <1>2 DEF PlanInv
    <3>3. op' = [kind |-> "inspect", plan |-> r, before |-> op.before, after |-> op.after,
                 reload |-> op.reload]
      BY <3>1, <3>2
    <3> QED
      BY <3>3 DEF r
  <2>3. /\ op'.kind = "inspect" /\ op'.plan = InspectPlan /\ op'.before = op.before
        /\ op'.after = op.after /\ op'.reload = op.reload
    BY <2>2
  <2>4. NewerThan(nvs, seen')
    BY <1>1, <1>6 DEF SeenInv
  <2>5. /\ GoodPlan("inspect", InspectPlan, nvs, op.after, seen', left.id)
        /\ ~Pending("inspect", InspectPlan)
        /\ Clean(Goal(InspectPlan, nvs))
    BY <1>2, <1>4, <2>4, InspectIsGood DEF StoreInv
  <2>6. ~Initial'
    BY <2>3 DEF Initial
  <2>7. "inspect" \in Kinds
    BY DEF Kinds
  <2>8. PlanInv'
    BY <1>1, <1>4, <2>1, <2>2, <2>3, <2>5, <2>6, <2>7 DEF PlanInv
  <2>9. OldOrNew'
    BY <1>4, <1>5, <2>1, <2>3 DEF OldOrNew
  <2>10. StateInv' /\ HotInv' /\ SecretsAreInUse' /\ NeverCorrupt'
    BY <1>4, <1>5, <2>1, <2>3 DEF StateInv, HotInv, SecretsAreInUse, NeverCorrupt, Idle
  <2>11. TypeOK'
    BY <1>1, <1>2, <2>1 DEF TypeOK
  <2> QED
    BY <1>5, <1>6, <2>8, <2>9, <2>10, <2>11 DEF ProviderInv
<1>8. CASE ~Initial
  <2>1. /\ op' = NoOp /\ report' = Verdict("saved") /\ Refresh /\ UNCHANGED <<state, again>>
    BY <1>8 DEF Finish
  <2>2. /\ op'.kind = "none" /\ report'.verdict = "saved" /\ report'.after = op.after
        /\ state' = "ready" /\ state = "ready"
    BY <1>4, <1>8, <2>1 DEF NoOp, Verdict
  <2>3. DOMAIN hot' = Surface /\ hot'[surface] = op.after.default
    BY <1>1, <1>3, <2>1, RefreshedIsAfter
  <2>4. ~trouble => Clean(nvs)
    <3>1. Goal(op.plan, nvs) = nvs
      BY <1>1, <1>2, WhatIsStored DEF Goal, Lasting, StoreInv
    <3> QED
      BY <3>1, <1>4, <1>8
  <2>5. PlanInv' /\ StateInv' /\ NeverCorrupt'
    BY <1>5, <2>1, <2>2 DEF PlanInv, StateInv, Busy, Idle, NeverCorrupt
  <2>6. OldOrNew'
    BY <1>4, <1>5, <2>2 DEF OldOrNew, Busy, Idle
  <2>7. HotInv'
    BY <1>1, <1>4, <1>5, <2>2, <2>3 DEF HotInv
  <2>8. SecretsAreInUse'
    BY <1>1, <2>4 DEF SecretsAreInUse, Clean
  <2>9. TypeOK'
    BY <1>1, <1>2, <2>1, <2>2, <2>3 DEF TypeOK
  <2> QED
    BY <1>5, <1>6, <2>5, <2>6, <2>7, <2>8, <2>9 DEF ProviderInv
<1> QED
  BY <1>7, <1>8

\* A write of the cleanup that fails keeps it: what is in force is settled.
LEMMA CleanupFailsKeeps ==
  ASSUME ProviderInv, CleanupFails, SeenStep
  PROVE  ProviderInv'
<1>1. /\ Busy /\ op.plan # {} /\ Committed /\ left.faults > 0
      /\ nvs' \in {Store, nvs}
      /\ blocked' = (blocked \/ Next1.phase = "cleanup")
      /\ op' = NoOp /\ report' = Verdict("saved")
      /\ Refresh
      /\ trouble' = TRUE
      /\ left' = [left EXCEPT !.faults = @ - 1]
      /\ UNCHANGED <<state, again, surface>>
  BY DEF CleanupFails
<1>2. PlanInv /\ StoreInv /\ SeenInv /\ StateInv /\ TypeOK
  BY DEF ProviderInv
<1>3. /\ Committed <=> ~Pending(op.kind, op.plan)
      /\ Typed(Store) /\ GoodStore(Store) /\ NewerThan(Store, seen) /\ OldIds(Store)
      /\ Next1 \in op.plan /\ Next1.phase \in {"cleanup", "legacy"}
      /\ Effective(op.kind, Next1) => Pending(op.kind, op.plan)
      /\ ~Effective(op.kind, Next1) =>
           /\ AuthorityOf(Store) = Authority
           /\ Has(Store, SchemaKey) <=> Has(nvs, SchemaKey)
  BY <1>1, WriteIsOne DEF Committed
<1>4. ~Pending(op.kind, op.plan) /\ ~Effective(op.kind, Next1)
  BY <1>1, <1>3
<1>5. /\ Has(nvs, SchemaKey) /\ Authority = op.after /\ (~Initial => state = "ready")
      /\ GoodPlan(op.kind, op.plan, nvs, op.after, seen, left.id)
  BY <1>1, <1>4, PlanFacts
<1>6. ~Initial
  BY <1>3, <1>5 DEF GoodPlan, Aside, Initializes, Initial
<1>7. /\ left' \in [ops : Nat, faults : Nat, resets : Nat, id : Nat] /\ left'.id = left.id
      /\ left.id \in Nat
  BY <1>1, <1>2 DEF StoreInv
<1>8. StoreInv' /\ Authority' = op.after /\ Has(nvs', SchemaKey) /\ NewerThan(nvs', seen)
  BY <1>1, <1>2, <1>3, <1>4, <1>5, <1>7 DEF StoreInv, OldIds, Authority, SeenInv
<1>9. SeenInv'
  BY <1>1, <1>2, <1>7, <1>8, SeenKept
<1>10. /\ op'.kind = "none" /\ report'.verdict = "saved" /\ report'.after = op.after
       /\ state' = "ready"
  BY <1>1, <1>5, <1>6 DEF NoOp, Verdict
<1>11. DOMAIN hot' = Surface /\ hot'[surface] = op.after.default
  BY <1>1, <1>4, RefreshedIsAfter
<1>12. PlanInv' /\ StateInv' /\ NeverCorrupt'
  BY <1>8, <1>10 DEF PlanInv, StateInv, Busy, Idle, NeverCorrupt
<1>13. OldOrNew'
  BY <1>8, <1>10 DEF OldOrNew, Busy, Idle
<1>14. HotInv' /\ SecretsAreInUse'
  BY <1>1, <1>8, <1>10, <1>11 DEF HotInv, SecretsAreInUse
<1>15. TypeOK'
  BY <1>1, <1>2, <1>7, <1>8, <1>10, <1>11 DEF TypeOK, StoreInv, Typed, OldIds
<1> QED
  BY <1>8, <1>9, <1>12, <1>13, <1>14, <1>15 DEF ProviderInv

\* Any other write that fails keeps it, whether it was done or not.
LEMMA WriteFailsKeeps ==
  ASSUME ProviderInv, WriteFails, SeenStep
  PROVE  ProviderInv'
<1>1. PICK unknown \in BOOLEAN, done \in BOOLEAN :
         LET commit == Next1.phase = "commit"
         IN /\ unknown \/ ~done
            /\ nvs' = IF done THEN Store ELSE nvs
            /\ blocked' = (blocked \/ (unknown /\ op.kind \notin {"default", "delete", "preset"}))
            /\ report' = Verdict(Outcome(unknown))
            /\ IF Initial
                 THEN /\ state' = (IF unknown /\ (Next1.key = SchemaKey \/ (commit /\ op.kind = "migrate"))
                                     THEN "uncertain"
                                   ELSE IF op.kind = "migrate" THEN "legacy" ELSE "unconfigured")
                      /\ again' = (op.kind = "migrate" /\ ~unknown)
                 ELSE /\ state' = (IF unknown /\ commit THEN "uncertain" ELSE state)
                      /\ UNCHANGED again
  BY DEF WriteFails
<1>2. /\ Busy /\ op.plan # {} /\ ~Committed /\ op' = NoOp /\ trouble' = TRUE
      /\ left.faults > 0 /\ left' = [left EXCEPT !.faults = @ - 1] /\ UNCHANGED <<surface, hot>>
  BY DEF WriteFails
<1>3. PlanInv /\ StoreInv /\ SeenInv /\ StateInv /\ TypeOK
  BY DEF ProviderInv
<1>4. /\ Typed(Store) /\ GoodStore(Store) /\ NewerThan(Store, seen) /\ OldIds(Store)
      /\ Next1 \in op.plan
      /\ Committed <=> ~Pending(op.kind, op.plan)
      /\ Effective(op.kind, Next1) => Has(Store, SchemaKey) /\ AuthorityOf(Store) = op.after
      /\ ~Effective(op.kind, Next1) =>
           /\ AuthorityOf(Store) = Authority
           /\ Has(Store, SchemaKey) <=> Has(nvs, SchemaKey)
  BY <1>2, WriteIsOne
<1>5. /\ Authority = op.before
      /\ Initial =>
           /\ surface = "device"
           /\ state = (IF op.kind = "migrate" THEN "legacy" ELSE "unconfigured")
           /\ ~Has(nvs, SchemaKey)
      /\ ~Initial => state = "ready"
      /\ hot[surface] = op.before.default
  BY <1>2, <1>4, PlanFacts
<1>6. /\ left' \in [ops : Nat, faults : Nat, resets : Nat, id : Nat] /\ left'.id = left.id
      /\ left.id \in Nat
  BY <1>2, <1>3 DEF StoreInv
<1>7. nvs' = (IF done THEN Store ELSE nvs) /\ (done => unknown)
  BY <1>1
<1>8. StoreInv' /\ NewerThan(nvs', seen)
  BY <1>3, <1>4, <1>6, <1>7 DEF StoreInv, OldIds, SeenInv
<1>9. done /\ Effective(op.kind, Next1) =>
        Has(nvs', SchemaKey) /\ Authority' = op.after /\ state' = "uncertain"
  <2>1. SUFFICES ASSUME done, Effective(op.kind, Next1)
                 PROVE  Has(nvs', SchemaKey) /\ Authority' = op.after /\ state' = "uncertain"
    OBVIOUS
  <2>2. Next1.phase = "commit" /\ (Initial => Next1.key = SchemaKey)
    BY <2>1 DEF Effective, Initial, Initializes
  <2> QED
    BY <2>1, <2>2, <1>1, <1>4, <1>7 DEF Authority
<1>10. ~(done /\ Effective(op.kind, Next1)) =>
         Authority' = op.before /\ (Has(nvs', SchemaKey) <=> Has(nvs, SchemaKey))
  BY <1>4, <1>5, <1>7 DEF Authority
<1>11. /\ Initial => state' \in {"uncertain", state}
       /\ ~Initial => state' \in {"uncertain", "ready"}
  BY <1>1, <1>5
<1>12. /\ op'.kind = "none" /\ report'.before = op.before /\ report'.after = op.after
       /\ report'.verdict = (IF unknown THEN "unknown" ELSE "failed")
  BY <1>1, <1>2 DEF NoOp, Verdict, Outcome
<1>13. state' = "ready" => Has(nvs', SchemaKey)
  BY <1>3, <1>5, <1>9, <1>10, <1>11 DEF StateInv
<1>14. SeenInv'
  BY <1>3, <1>6, <1>8, <1>13, SeenKept
<1>15. PlanInv' /\ SecretsAreInUse'
  BY <1>2, <1>12 DEF PlanInv, Busy, Idle, SecretsAreInUse
<1>16. StateInv' /\ NeverCorrupt'
  BY <1>2, <1>5, <1>9, <1>10, <1>11, <1>12, <1>13 DEF StateInv, NeverCorrupt
<1>17. OldOrNew'
  BY <1>7, <1>9, <1>10, <1>12 DEF OldOrNew, Busy, Idle
<1>18. HotInv'
  BY <1>2, <1>5, <1>9, <1>10 DEF HotInv
<1>19. TypeOK'
  <2>1. blocked' \in BOOLEAN /\ again' \in BOOLEAN
    BY <1>1, <1>3 DEF TypeOK
  <2> QED
    BY <2>1, <1>2, <1>3, <1>5, <1>6, <1>8, <1>11, <1>12 DEF TypeOK, StoreInv, Typed, OldIds
<1> QED
  BY <1>8, <1>14, <1>15, <1>16, <1>17, <1>18, <1>19 DEF ProviderInv

-----------------------------------------------------------------------------
(* The surfaces, and the reset.                                            *)

\* Opening and closing the Web Console keeps it.
LEMMA SurfacesKeep ==
  ASSUME ProviderInv, OpenWebConsole \/ CloseWebConsole, SeenStep
  PROVE  ProviderInv'
<1>1. Idle /\ UNCHANGED <<nvs, state, blocked, again, op, report, trouble, left>>
  BY DEF OpenWebConsole, CloseWebConsole
<1>2. StoreInv /\ SeenInv /\ StateInv /\ TypeOK /\ HotInv
  BY DEF ProviderInv
<1>3. surface \in Surface /\ DOMAIN hot = Surface
  BY SurfaceIsOne
<1>4. StoreInv' /\ Authority' = Authority
  BY <1>1, <1>2 DEF StoreInv, OldIds, Authority
<1>5. StateInv'
  <2>1. state' \in {"off", "unconfigured"} => surface' = "device"
    BY <1>1, <1>2 DEF OpenWebConsole, CloseWebConsole, StateInv
  <2> QED
    BY <2>1, <1>1, <1>2 DEF StateInv, Idle
<1>6. SeenInv'
  <2>1. left.id \in Nat /\ NewerThan(nvs', seen) /\ (state' = "ready" => Has(nvs', SchemaKey))
    BY <1>1, <1>2 DEF StoreInv, SeenInv, StateInv
  <2> QED
    BY <1>1, <1>2, <1>4, <2>1, SeenKept
<1>7. DOMAIN hot' = Surface /\ surface' \in Surface
  BY <1>3 DEF OpenWebConsole, CloseWebConsole, Surface
<1>8. state \in {"ready", "legacy", "unconfigured"} => hot'[surface'] = Authority.default
  <2>1. SUFFICES ASSUME state \in {"ready", "legacy", "unconfigured"}
                 PROVE  hot'[surface'] = Authority.default
    OBVIOUS
  <2>2. hot[surface] = Authority.default
    BY <2>1, <1>1, <1>2 DEF HotInv
  <2>3. CASE OpenWebConsole
    BY <2>2, <2>3, <1>3 DEF OpenWebConsole, Surface
  <2>4. CASE CloseWebConsole
    <3>1. hot'[surface'] = ReloadOnClose
      BY <2>4, <1>3 DEF CloseWebConsole, Surface
    <3>2. CASE state = "ready"
      <4>1. Has(nvs, SchemaKey) /\ Sound(nvs)
        BY <3>2, <1>2, DefaultIsProfile DEF StateInv, StoreInv
      <4> QED
        BY <3>1, <3>2, <4>1, ProfilesOfAuthority DEF ReloadOnClose, Authority
    <3>3. CASE state = "legacy"
      <4>1. ~Has(nvs, SchemaKey)
        BY <3>3, <1>1, <1>2 DEF StateInv
      <4> QED
        BY <3>1, <3>3, <4>1 DEF ReloadOnClose, Authority, AuthorityOf
    <3>4. state # "unconfigured"
      BY <2>4, <1>2 DEF CloseWebConsole, StateInv
    <3> QED
      BY <2>1, <3>2, <3>3, <3>4
  <2> QED
    BY <2>3, <2>4
<1>9. HotInv' /\ PlanInv'
  BY <1>1, <1>4, <1>8 DEF HotInv, PlanInv, Busy, Idle
<1>10. OldOrNew' /\ NeverCorrupt' /\ SecretsAreInUse'
  BY <1>1, <1>4 DEF ProviderInv, OldOrNew, NeverCorrupt, SecretsAreInUse, Busy, Idle
<1>11. TypeOK'
  BY <1>1, <1>2, <1>7 DEF TypeOK
<1> QED
  BY <1>4, <1>5, <1>6, <1>9, <1>10, <1>11 DEF ProviderInv

\* A reset keeps it: what is stored stays.
LEMMA ResetKeeps ==
  ASSUME ProviderInv, Reset, SeenStep
  PROVE  ProviderInv'
<1>1. /\ left.resets > 0 /\ state' = "off" /\ blocked' = FALSE /\ again' = FALSE /\ surface' = "device"
      /\ op' = NoOp
      /\ report' = IF Busy THEN Verdict("unknown") ELSE report
      /\ trouble' = FALSE
      /\ left' = [left EXCEPT !.resets = @ - 1]
      /\ UNCHANGED <<nvs, hot>>
  BY DEF Reset
<1>2. StoreInv /\ SeenInv /\ TypeOK /\ OldOrNew
  BY DEF ProviderInv
<1>3. /\ left' \in [ops : Nat, faults : Nat, resets : Nat, id : Nat] /\ left'.id = left.id
      /\ left.id \in Nat
  BY <1>1, <1>2 DEF StoreInv
<1>4. StoreInv' /\ Authority' = Authority
  BY <1>1, <1>2, <1>3 DEF StoreInv, OldIds, Authority
<1>5. SeenInv'
  BY <1>1, <1>2, <1>3, <1>4, SeenKept DEF SeenInv
<1>6. op'.kind = "none"
  BY <1>1 DEF NoOp
<1>7. PlanInv' /\ StateInv' /\ HotInv' /\ NeverCorrupt' /\ SecretsAreInUse'
  BY <1>1, <1>6 DEF PlanInv, Busy, Idle, StateInv, HotInv, NeverCorrupt, SecretsAreInUse
<1>8. OldOrNew' /\ report'.verdict \in {"none", "saved", "failed", "unknown"}
  <2>1. CASE Busy
    <3>1. Authority \in {op.before, op.after}
      BY <2>1, PlanFacts
    <3>2. report'.verdict = "unknown" /\ report'.before = op.before /\ report'.after = op.after
      BY <1>1, <2>1 DEF Verdict
    <3> QED
      BY <3>1, <3>2, <1>4, <1>6 DEF OldOrNew, Busy, Idle
  <2>2. CASE ~Busy
    BY <1>1, <1>2, <1>4, <1>6, <2>2 DEF OldOrNew, Busy, Idle, TypeOK
  <2> QED
    BY <2>1, <2>2
<1>9. TypeOK'
  BY <1>1, <1>2, <1>3, <1>4, <1>8 DEF TypeOK, Surface
<1> QED
  BY <1>4, <1>5, <1>7, <1>8, <1>9 DEF ProviderInv

-----------------------------------------------------------------------------
(* The beginning of an operation.                                          *)

\* An operation that starts with a good plan keeps the invariant.
LEMMA StartKeeps ==
  ASSUME ProviderInv, Idle, NEW kind \in Kinds, NEW P, NEW after, Start(kind, P, after), SeenStep,
         UNCHANGED <<nvs, surface, trouble, blocked>>,
         left' \in [ops : Nat, faults : Nat, resets : Nat, id : Nat], left.id <= left'.id,
         GoodPlan(kind, P, nvs, after, seen', left'.id),
         ~trouble /\ ~Initializes(kind) => Clean(Goal(P, nvs)),
         Initializes(kind) =>
           /\ surface = "device"
           /\ state' = (IF kind = "migrate" THEN "legacy" ELSE "unconfigured")
           /\ Pending(kind, P) <=> ~Has(nvs, SchemaKey),
         ~Initializes(kind) => state' = "ready" /\ Has(nvs, SchemaKey),
         DOMAIN hot' = Surface, hot'[surface] = Authority.default, again' \in BOOLEAN
  PROVE  ProviderInv'
<1>1. /\ op' = [kind |-> kind, plan |-> P, before |-> Authority, after |-> after,
                reload |-> after.default # Authority.default]
      /\ report' = NoReport
  BY DEF Start
<1>2. /\ op'.kind = kind /\ op'.plan = P /\ op'.before = Authority /\ op'.after = after
      /\ op'.reload = (after.default # Authority.default) /\ report'.verdict = "none"
  BY <1>1 DEF NoReport
<1>3. StoreInv /\ SeenInv /\ TypeOK
  BY DEF ProviderInv
<1>4. left.id \in Nat /\ left'.id \in Nat
  BY <1>3 DEF StoreInv
<1>5. StoreInv' /\ Authority' = Authority
  <2>1. OldIds(nvs)'
    <3> SUFFICES ASSUME NEW s \in Slot, NEW g \in Generation, Has(nvs, MetadataKey(s, g))
                 PROVE  nvs[MetadataKey(s, g)][1] < left'.id
      BY DEF OldIds
    <3> DEFINE k == MetadataKey(s, g)
    <3>1. nvs[k][1] < left.id
      BY <1>3 DEF StoreInv, OldIds
    <3>2. nvs[k] \in Nat \X Nat \X Nat
      BY <1>3, WhatIsStored DEF StoreInv, Has
    <3> HIDE DEF k
    <3>3. nvs[k][1] < left'.id
      BY <3>1, <3>2, <1>4
    <3> QED
      BY <3>3 DEF k
  <2> QED
    BY <2>1, <1>3 DEF StoreInv, Authority
<1>6. state' = "ready" => Has(nvs', SchemaKey)
  BY DEF Kinds
<1>7. SeenInv'
  <2>1. NewerThan(nvs', seen)
    BY <1>3 DEF SeenInv
  <2> QED
    BY <1>3, <1>5, <1>6, <2>1, SeenKept
<1>8. Initial' <=> Initializes(kind)
  BY <1>2 DEF Initial, Initializes
<1>9. Busy' /\ ~Idle'
  BY <1>2 DEF Busy, Idle, Kinds
<1>10. PlanInv'
  BY <1>1, <1>2, <1>5, <1>8 DEF PlanInv
<1>11. OldOrNew' /\ SecretsAreInUse' /\ HotInv'
  BY <1>2, <1>5, <1>9 DEF OldOrNew, SecretsAreInUse, HotInv
<1>12. state' \in {"ready", "legacy", "unconfigured"}
  OBVIOUS
<1>13. StateInv' /\ NeverCorrupt'
  BY <1>6, <1>9, <1>12 DEF StateInv, NeverCorrupt
<1>14. TypeOK'
  <2>1. \A s \in Slot, g \in Generation :
          Has(nvs, MetadataKey(s, g)) => nvs[MetadataKey(s, g)][1] < left'.id
    BY <1>5 DEF StoreInv, OldIds
  <2> QED
    BY <2>1, <1>2, <1>3, <1>4, <1>12 DEF TypeOK
<1> QED
  BY <1>5, <1>7, <1>10, <1>11, <1>13, <1>14 DEF ProviderInv

-----------------------------------------------------------------------------
(* Plans about one slot.                                                   *)

SlotKeys(s) == {SelectorKey(s)} \cup {MetadataKey(s, g) : g \in Generation}
                 \cup {SecretKey(s, g) : g \in Generation}

\* The stores m and n differ only in slot s.
OnlySlot(m, n, s) ==
  /\ \A k \in {DefaultKey, SchemaKey, PresetKey, LegacyKey, LegacyUrl} : m[k] = n[k]
  /\ \A t \in Slot \ {s} : m[SelectorKey(t)] = n[SelectorKey(t)]
  /\ \A t \in Slot \ {s}, g \in Generation :
       m[MetadataKey(t, g)] = n[MetadataKey(t, g)] /\ m[SecretKey(t, g)] = n[SecretKey(t, g)]

\* A plan whose keys are those of one slot leaves the rest of the store.
LEMMA PlanOfSlot ==
  ASSUME NEW P, NEW n, NEW s \in Slot, \A w \in P : w.key \in SlotKeys(s),
         \A k \in NvsKey : (\A w \in P : w.key # k) => Goal(P, n)[k] = n[k]
  PROVE  OnlySlot(Goal(P, n), n, s)
<1> DEFINE G == Goal(P, n)
<1>1. \A k \in NvsKey \ SlotKeys(s) : G[k] = n[k]
  OBVIOUS
<1>2. \A k \in {DefaultKey, SchemaKey, PresetKey, LegacyKey, LegacyUrl} : k \in NvsKey \ SlotKeys(s)
  BY OtherKeys DEF SlotKeys, SelectorKey, MetadataKey, SecretKey, DefaultKey, SchemaKey, PresetKey,
                   LegacyKey, LegacyUrl
<1>3. \A t \in Slot \ {s} : SelectorKey(t) \in NvsKey \ SlotKeys(s)
  BY KeysDiffer DEF SlotKeys, SelectorKey, MetadataKey, SecretKey, NvsKey
<1>4. \A t \in Slot \ {s}, g \in Generation :
        MetadataKey(t, g) \in NvsKey \ SlotKeys(s) /\ SecretKey(t, g) \in NvsKey \ SlotKeys(s)
  <2> SUFFICES ASSUME NEW t \in Slot \ {s}, NEW g \in Generation
               PROVE  MetadataKey(t, g) \in NvsKey \ SlotKeys(s) /\ SecretKey(t, g) \in NvsKey \ SlotKeys(s)
    OBVIOUS
  <2>1. MetadataKey(t, g) \in NvsKey /\ SecretKey(t, g) \in NvsKey
    BY KeysDiffer, OtherKeys
  <2>2. MetadataKey(t, g) \notin SlotKeys(s) /\ SecretKey(t, g) \notin SlotKeys(s)
    BY DEF SlotKeys, SelectorKey, MetadataKey, SecretKey
  <2> QED
    BY <2>1, <2>2
<1> HIDE DEF G
<1>5. OnlySlot(G, n, s)
  BY <1>1, <1>2, <1>3, <1>4 DEF OnlySlot
<1> QED
  BY <1>5 DEF G

\* The profiles of the other slots stay what they are.
LEMMA OtherSlots ==
  ASSUME NEW m, NEW n, Typed(n), NEW s \in Slot, OnlySlot(m, n, s), NEW t \in Slot \ {s}
  PROVE  /\ t \in Used(m) <=> t \in Used(n)
         /\ t \in Used(n) =>
              /\ Chosen(m, t) = Chosen(n, t)
              /\ Metadata(m, t) = Metadata(n, t) /\ Secret(m, t) = Secret(n, t)
              /\ Profile(m, t) = Profile(n, t)
              /\ Complete(n, t) => Complete(m, t)
<1>1. t \in Used(m) <=> t \in Used(n)
  BY DEF Used, Has, OnlySlot
<1>2. ASSUME t \in Used(n)
      PROVE  /\ Chosen(m, t) = Chosen(n, t)
             /\ Metadata(m, t) = Metadata(n, t) /\ Secret(m, t) = Secret(n, t)
  <2>1. Chosen(m, t) = Chosen(n, t)
    BY DEF Chosen, OnlySlot
  <2>2. PICK g \in Generation : n[SelectorKey(t)] = <<g>>
    BY <1>2, WhatIsStored DEF Used
  <2>3. Chosen(n, t) = g
    BY <2>2 DEF Chosen
  <2>4. m[MetadataKey(t, g)] = n[MetadataKey(t, g)] /\ m[SecretKey(t, g)] = n[SecretKey(t, g)]
    BY DEF OnlySlot
  <2> QED
    BY <2>1, <2>3, <2>4 DEF Metadata, Secret
<1> QED
  BY <1>1, <1>2 DEF Profile, Complete

\* A secret that is in use in another slot stays in use.
LEMMA SlotIsClean ==
  ASSUME NEW m, NEW n, Typed(n), NEW s \in Slot, OnlySlot(m, n, s), Clean(n),
         \A g \in Generation : Has(m, SecretKey(s, g)) => InUse(m, SecretKey(s, g))
  PROVE  Clean(m)
<1>1. ~Has(m, LegacyKey)
  BY DEF Clean, OnlySlot, Has
<1>2. ASSUME NEW t \in Slot \ {s}, NEW g \in Generation, Has(m, SecretKey(t, g))
      PROVE  InUse(m, SecretKey(t, g))
  <2>1. Has(n, SecretKey(t, g))
    BY <1>2 DEF OnlySlot, Has
  <2>2. t \in Used(n) /\ Chosen(n, t) = g
    BY <2>1 DEF Clean, InUse, SecretKey
  <2>3. t \in Used(m) /\ Chosen(m, t) = g
    BY <2>2, OtherSlots
  <2> QED
    BY <2>3 DEF InUse, SecretKey
<1> QED
  BY <1>1, <1>2 DEF Clean

\* A profile stored whole in a slot, under an identifier no other slot has, is
\* the only one that changes.
LEMMA ProfileIsStored ==
  ASSUME NEW m, NEW n, Typed(n), Typed(m), Has(n, SchemaKey), GoodStore(n),
         NEW s \in Slot, OnlySlot(m, n, s), NEW g \in Generation,
         NEW id, NEW rev, NEW url, NEW key, NEW S, NewerThan(n, S),
         m[SelectorKey(s)] = <<g>>,
         m[MetadataKey(s, g)] = <<id, rev, url>>, m[SecretKey(s, g)] = <<rev, key>>,
         \A t \in Used(n) \ {s} : Profile(n, t)[1] # id,
         s \in Used(n) => Profile(n, s)[1] = id,
         \A p \in S : p[1] = id => p[2] < rev \/ p = <<id, rev, url, key>>
  PROVE  /\ Has(m, SchemaKey) /\ GoodStore(m) /\ NewerThan(m, S)
         /\ Profiles(m) = {Profile(n, t) : t \in Used(n) \ {s}} \cup {<<id, rev, url, key>>}
         /\ AuthorityOf(m) = [profiles |-> Profiles(m), preset |-> n[PresetKey],
                              default |-> IF n[DefaultKey][1] = id THEN <<url, key>>
                                          ELSE DefaultCredentials(n)]
         /\ s \in Used(m) /\ Chosen(m, s) = g
<1> DEFINE new == <<id, rev, url, key>>
<1>1. /\ m[DefaultKey] = n[DefaultKey] /\ m[SchemaKey] = n[SchemaKey] /\ m[PresetKey] = n[PresetKey]
  BY DEF OnlySlot
<1>2. /\ Known(n) = Used(n) /\ Sound(n)
      /\ DefaultProfile(n) \in Profiles(n) /\ DefaultProfile(n)[1] = n[DefaultKey][1]
      /\ \A t, u \in Used(n) : Profile(n, t)[1] = Profile(n, u)[1] => t = u
  BY DefaultIsProfile
<1>3. s \in Used(m) /\ Chosen(m, s) = g
  <2>1. m[SelectorKey(s)] # Absent /\ m[SelectorKey(s)][1] = g
    BY DEF Absent
  <2> QED
    BY <2>1 DEF Used, Has, Chosen
<1>4. Metadata(m, s) = <<id, rev, url>> /\ Secret(m, s) = <<rev, key>>
  BY <1>3 DEF Metadata, Secret
<1>5. Profile(m, s) = new /\ Complete(m, s)
  BY <1>4, ValuesArePresent DEF Profile, Complete
<1>6. Used(m) = Used(n) \cup {s}
  BY <1>3, OtherSlots DEF Used
<1>7. ASSUME NEW t \in Used(n) \ {s} PROVE Profile(m, t) = Profile(n, t) /\ Complete(m, t)
  <2>1. t \in Slot \ {s} /\ Complete(n, t)
    BY <1>2 DEF Used, Known
  <2>2. Metadata(m, t) = Metadata(n, t) /\ Secret(m, t) = Secret(n, t)
    BY <2>1, OtherSlots
  <2> QED
    BY <2>1, <2>2 DEF Complete, Profile
<1>8. Known(m) = Used(m)
  BY <1>5, <1>6, <1>7 DEF Known
<1>9. Profiles(m) = {Profile(n, t) : t \in Used(n) \ {s}} \cup {new}
  BY <1>5, <1>6, <1>7, <1>8 DEF Profiles
<1>10. \A t, u \in Used(m) : Profile(m, t)[1] = Profile(m, u)[1] => t = u
  <2>1. new[1] = id
    OBVIOUS
  <2> HIDE DEF new
  <2> QED
    BY <2>1, <1>2, <1>5, <1>6, <1>7
<1>11. PICK d \in Used(n) : DefaultProfile(n) = Profile(n, d)
  BY <1>2 DEF Profiles
<1>12. /\ n[DefaultKey][1] = id => d = s
       /\ n[DefaultKey][1] # id => d \in Used(n) \ {s}
  BY <1>2, <1>11
<1>13. Has(m, SchemaKey) /\ Has(m, DefaultKey)
  BY <1>1, <1>2 DEF Has, Sound
<1>14. Profile(m, d) \in Profiles(m) /\ Profile(m, d)[1] = m[DefaultKey][1]
  <2>1. Profile(m, d) \in Profiles(m)
    BY <1>6, <1>8 DEF Profiles
  <2>2. new[1] = id
    OBVIOUS
  <2> HIDE DEF new
  <2> QED
    BY <2>1, <2>2, <1>1, <1>2, <1>5, <1>7, <1>11, <1>12
<1>15. Sound(m)
  BY <1>3, <1>8, <1>13, <1>14 DEF Sound
<1>16. GoodStore(m)
  BY <1>10, <1>15 DEF GoodStore, Profile
<1>17. DefaultProfile(m) = Profile(m, d)
  BY <1>13, <1>14, <1>16, DefaultIsProfile
<1>18. DefaultCredentials(m) = IF n[DefaultKey][1] = id THEN <<url, key>> ELSE DefaultCredentials(n)
  <2>1. new[3] = url /\ new[4] = key
    OBVIOUS
  <2> HIDE DEF new
  <2> QED
    BY <2>1, <1>5, <1>7, <1>11, <1>12, <1>17 DEF DefaultCredentials
<1>19. AuthorityOf(m) = [profiles |-> Profiles(m), preset |-> n[PresetKey],
                              default |-> IF n[DefaultKey][1] = id THEN <<url, key>>
                                          ELSE DefaultCredentials(n)]
  BY <1>1, <1>13, <1>15, <1>18 DEF AuthorityOf
<1>20. NewerThan(m, S)
  <2> SUFFICES ASSUME NEW p \in S, NEW t \in Used(m), p[1] = Profile(m, t)[1]
               PROVE  p[2] < Profile(m, t)[2] \/ p = Profile(m, t)
    BY DEF NewerThan
  <2>1. CASE t = s
    <3>1. new[1] = id /\ new[2] = rev
      OBVIOUS
    <3> HIDE DEF new
    <3> QED
      BY <2>1, <3>1, <1>5 DEF new
  <2>2. CASE t # s
    BY <2>2, <1>6, <1>7 DEF NewerThan
  <2> QED
    BY <2>1, <2>2
<1> QED
  BY <1>3, <1>9, <1>13, <1>16, <1>19, <1>20

\* A record that is not of the chosen generation is not in force.
LEMMA RecordNotInForce ==
  ASSUME NEW n, NEW k \in RecordKey, Has(n, SchemaKey), ~InUse(n, k)
  PROVE  k \notin InForce(n)
<1>1. \A s \in Slot : k # SelectorKey(s)
  BY KeysDiffer DEF RecordKey
<1> QED
  BY <1>1, OtherKeys DEF InForce

SlotRecords(s) == {MetadataKey(s, g) : g \in Generation} \cup {SecretKey(s, g) : g \in Generation}

\* The plan that stores a profile in generation g of slot s, after clearing the
\* records A and before those of B.
ProfilePlan(s, g, id, rev, url, key, A, B) ==
  Stage(s, g, id, rev, url, key) \cup {Put(SelectorKey(s), <<g>>, "commit")}
    \cup Present({Drop(k, "prepare") : k \in A}) \cup Present({Drop(k, "cleanup") : k \in B})

\* It leads to the store with this profile, and leaves no other secret in its slot.
LEMMA ProfilePlanIsGood ==
  ASSUME NEW kind \in {"create", "update"}, Typed(nvs), Has(nvs, SchemaKey), GoodStore(nvs),
         NEW S, NewerThan(nvs, S), NEW bound \in Nat,
         NEW s \in Slot, NEW g \in Generation, NEW id \in Nat, NEW rev \in Nat, NEW url \in Nat,
         NEW key \in Nat, id < bound,
         NEW A \in SUBSET SlotRecords(s), NEW B \in SUBSET SlotRecords(s), A \cap B = {},
         \A k \in A : ~InUse(nvs, k),
         MetadataKey(s, g) \notin B, SecretKey(s, g) \notin B,
         SecretKey(s, OtherGeneration(g)) \in A \cup B,
         s \in Used(nvs) => Chosen(nvs, s) # g,
         \A t \in Used(nvs) \ {s} : Profile(nvs, t)[1] # id,
         s \in Used(nvs) => Profile(nvs, s)[1] = id,
         \A p \in S : p[1] = id => p[2] < rev \/ p = <<id, rev, url, key>>
  PROVE  LET P == ProfilePlan(s, g, id, rev, url, key, A, B)
         IN /\ GoodPlan(kind, P, nvs,
                 [profiles |-> {Profile(nvs, t) : t \in Used(nvs) \ {s}} \cup {<<id, rev, url, key>>},
                  preset |-> nvs[PresetKey],
                  default |-> IF nvs[DefaultKey][1] = id THEN <<url, key>>
                              ELSE DefaultCredentials(nvs)], S, bound)
            /\ Clean(nvs) => Clean(Goal(P, nvs))
<1> DEFINE P == ProfilePlan(s, g, id, rev, url, key, A, B)
           G == Goal(P, nvs)
           sel == SelectorKey(s)
           md == MetadataKey(s, g)
           sk == SecretKey(s, g)
           w1 == Put(md, <<id, rev, url>>, "stage")
           w2 == Put(sk, <<rev, key>>, "stage")
           w3 == Put(sel, <<g>>, "commit")
<1>1. /\ sel \in NvsKey /\ md \in RecordKey /\ sk \in RecordKey
      /\ md # sk /\ sel \notin RecordKey
      /\ RecordKey \subseteq NvsKey /\ SlotRecords(s) \subseteq RecordKey
      /\ SlotRecords(s) \subseteq SlotKeys(s) /\ {sel, md, sk} \subseteq SlotKeys(s)
  <2>1. SlotRecords(s) \subseteq RecordKey
    BY DEF SlotRecords, RecordKey
  <2>2. sel \notin RecordKey
    BY KeysDiffer DEF RecordKey
  <2>3. SlotRecords(s) \subseteq SlotKeys(s) /\ {sel, md, sk} \subseteq SlotKeys(s)
    BY DEF SlotRecords, SlotKeys
  <2> QED
    BY <2>1, <2>2, <2>3, KeysDiffer, OtherKeys
<1>2. /\ w1.key = md /\ w1.value = <<id, rev, url>> /\ w1.phase = "stage"
      /\ w2.key = sk /\ w2.value = <<rev, key>> /\ w2.phase = "stage"
      /\ w3.key = sel /\ w3.value = <<g>> /\ w3.phase = "commit"
  BY DEF Put
<1>3. w1 \in P /\ w2 \in P /\ w3 \in P
  BY DEF ProfilePlan, Stage
<1>4. ASSUME NEW w \in P
      PROVE  \/ w \in {w1, w2, w3}
             \/ /\ w.value = Absent /\ w = [phase |-> w.phase, key |-> w.key, value |-> Absent]
                /\ \/ w.phase = "prepare" /\ w.key \in A
                   \/ w.phase = "cleanup" /\ w.key \in B
  BY DEF ProfilePlan, Stage, Present, Drop
<1>5. ASSUME NEW k \in A \cup B, Has(nvs, k)
      PROVE  \E w \in P : w.key = k /\ w.value = Absent
  <2>1. /\ Drop(k, "prepare").key = k /\ Drop(k, "prepare").value = Absent
        /\ Drop(k, "cleanup").key = k /\ Drop(k, "cleanup").value = Absent
    BY DEF Drop
  <2>2. CASE k \in A
    <3>1. Drop(k, "prepare") \in P
      BY <1>5, <2>1, <2>2 DEF ProfilePlan, Present
    <3> QED
      BY <2>1, <3>1
  <2>3. CASE k \in B
    <3>1. Drop(k, "cleanup") \in P
      BY <1>5, <2>1, <2>3 DEF ProfilePlan, Present
    <3> QED
      BY <2>1, <3>1
  <2> QED
    BY <2>2, <2>3
<1>6. /\ Typed(nvs) /\ md[1] = "meta" /\ sk[1] = "secret" /\ sel[1] = "sel"
      /\ \A t \in Slot, h \in Generation : sk # MetadataKey(t, h) /\ sel # MetadataKey(t, h)
  BY KeysDiffer DEF MetadataKey, SecretKey, SelectorKey
<1> HIDE DEF P, sel, md, sk, w1, w2, w3
<1>7. PlanTypes(P, bound)
  <2>1. <<id, rev, url>> \in Value /\ <<rev, key>> \in Value /\ <<g>> \in Value /\ Absent \in Value
    BY DEF Value, Generation
  <2>2. /\ <<id, rev, url>> \in ValuesOf(md) /\ <<rev, key>> \in ValuesOf(sk)
        /\ <<g>> \in ValuesOf(sel) /\ \A k \in NvsKey : Absent \in ValuesOf(k)
    BY <1>6 DEF ValuesOf
  <2>3. ASSUME NEW w \in P
        PROVE  /\ w \in Writes /\ w.value \in ValuesOf(w.key)
               /\ w.phase \in {"prepare", "cleanup", "legacy"} => w.value = Absent
               /\ \A t \in Slot, h \in Generation :
                    w.key = MetadataKey(t, h) /\ w.value # Absent => w.value[1] < bound
    <3>1. CASE w \in {w1, w2, w3}
      <4>1. w \in Writes
        BY <3>1, <2>1, <1>1 DEF w1, w2, w3, Put, Writes, Phases
      <4>2. w = w1 => w.value[1] = id
        BY <1>2
      <4> QED
        BY <3>1, <4>1, <4>2, <2>2, <1>2, <1>6
    <3>2. CASE w \notin {w1, w2, w3}
      <4>1. w.phase \in Phases /\ w.key \in NvsKey
        BY <3>2, <1>1, <1>4 DEF Phases
      <4>2. w = [phase |-> w.phase, key |-> w.key, value |-> Absent] /\ w.value = Absent
        BY <3>2, <1>4
      <4>3. w \in Writes
        BY <4>1, <4>2, <2>1 DEF Writes
      <4> QED
        BY <4>1, <4>2, <4>3, <2>2
    <3> QED
      BY <3>1, <3>2
  <2> QED
    BY <2>3 DEF PlanTypes
<1>8. \A v, w \in P : v.key = w.key => v = w \/ (v.phase = "prepare") # (w.phase = "prepare")
  <2> SUFFICES ASSUME NEW v \in P, NEW w \in P, v.key = w.key,
                      (v.phase = "prepare") <=> (w.phase = "prepare")
               PROVE  v = w
    OBVIOUS
  <2>1. \A u \in P : u \notin {w1, w2, w3} => u.key \in RecordKey
    BY <1>1, <1>4
  <2>2. CASE v \in {w1, w2, w3} /\ w \in {w1, w2, w3}
    BY <2>2, <1>1, <1>2
  <2>3. CASE v \in {w1, w2, w3} /\ w \notin {w1, w2, w3}
    <3>1. w.phase # "prepare" /\ w.key \in B
      BY <2>3, <1>2, <1>4
    <3>2. v.key # sel
      BY <3>1, <1>1
    <3> QED
      BY <2>3, <3>1, <3>2, <1>2 DEF md, sk
  <2>4. CASE v \notin {w1, w2, w3} /\ w \in {w1, w2, w3}
    <3>1. v.phase # "prepare" /\ v.key \in B
      BY <2>4, <1>2, <1>4
    <3>2. w.key # sel
      BY <3>1, <1>1
    <3> QED
      BY <2>4, <3>1, <3>2, <1>2 DEF md, sk
  <2>5. CASE v \notin {w1, w2, w3} /\ w \notin {w1, w2, w3}
    <3>1. v.phase = w.phase
      BY <2>5, <1>4
    <3> QED
      BY <2>5, <3>1, <1>4
  <2> QED
    BY <2>2, <2>3, <2>4, <2>5
<1>9. ~Initializes(kind) /\ \A w \in P : Effective(kind, w) <=> w = w3
  BY <1>2, <1>4 DEF Effective, Initializes
<1>10. WrittenOnce(kind, P) /\ Pending(kind, P)
  BY <1>3, <1>8, <1>9 DEF WrittenOnce, Pending
<1>11. /\ \A w \in P : w.phase # "prepare" => G[w.key] = w.value
       /\ \A k \in NvsKey : Lasting(P, k) = {} /\ (\E w \in P : w.key = k) => G[k] = Absent
       /\ \A k \in NvsKey : (\A w \in P : w.key # k) => G[k] = nvs[k]
       /\ Typed(G)
  BY <1>7, <1>8, GoalIsWritten
<1>12. \A w \in P : w.key \in SlotKeys(s)
  BY <1>1, <1>2, <1>4
<1>13. OnlySlot(G, nvs, s)
  BY <1>11, <1>12, PlanOfSlot
<1> HIDE DEF G
<1>14. G[sel] = <<g>> /\ G[md] = <<id, rev, url>> /\ G[sk] = <<rev, key>>
  BY <1>2, <1>3, <1>11
<1> DEFINE after == [profiles |-> {Profile(nvs, t) : t \in Used(nvs) \ {s}} \cup {<<id, rev, url, key>>},
                     preset |-> nvs[PresetKey],
                     default |-> IF nvs[DefaultKey][1] = id THEN <<url, key>>
                                 ELSE DefaultCredentials(nvs)]
<1>15. /\ Has(G, SchemaKey) /\ GoodStore(G) /\ NewerThan(G, S)
       /\ AuthorityOf(G) = after
       /\ s \in Used(G) /\ Chosen(G, s) = g
  BY <1>11, <1>13, <1>14, ProfileIsStored DEF sel, md, sk
<1>16. Leads(P, nvs, after, S)
  BY <1>15 DEF Leads, G
<1>17. Aside(kind, P, nvs)
  <2>1. md \notin InForce(nvs) /\ sk \notin InForce(nvs)
    <3>1. ~InUse(nvs, md) /\ ~InUse(nvs, sk)
      BY DEF md, sk, InUse, MetadataKey, SecretKey
    <3> QED
      BY <3>1, <1>1, RecordNotInForce
  <2>2. \A k \in A : k \notin InForce(nvs)
    BY <1>1, RecordNotInForce
  <2>3. ASSUME NEW w \in P, w.phase \in {"prepare", "stage", "commit"}, ~Effective(kind, w)
        PROVE  w.key \notin InForce(nvs)
    BY <2>1, <2>2, <2>3, <1>2, <1>4, <1>9
  <2>4. ASSUME NEW k \in B PROVE k \notin InForce(G)
    <3>1. k \in RecordKey /\ k[2] = s /\ k[3] # g
      BY <1>1 DEF SlotRecords, MetadataKey, SecretKey
    <3>2. ~InUse(G, k)
      BY <3>1, <1>15 DEF InUse
    <3> QED
      BY <3>1, <3>2, <1>15, RecordNotInForce
  <2>5. \A w \in P : w.phase \in {"cleanup", "legacy"} => w.key \notin InForce(G)
    BY <2>4, <1>2, <1>4
  <2> QED
    BY <2>3, <2>5, <1>9, <1>10 DEF Aside, G
<1>18. GoodPlan(kind, P, nvs, after, S, bound)
  BY <1>7, <1>10, <1>16, <1>17 DEF GoodPlan
<1>19. Clean(nvs) => Clean(G)
  <2> DEFINE o == SecretKey(s, OtherGeneration(g))
  <2>1. OtherGeneration(g) \in Generation /\ OtherGeneration(g) # g
    BY DEF OtherGeneration, Generation
  <2>2. o \in NvsKey /\ o \notin {md, sk, sel} /\ o \in A \cup B
    BY <2>1, KeysDiffer, OtherKeys DEF md, sk, sel
  <2> HIDE DEF o
  <2>3. G[o] = Absent
    <3>1. \A w \in P : w.key = o => w.value = Absent
      BY <2>2, <1>2, <1>4
    <3>2. CASE Lasting(P, o) # {}
      BY <3>1, <3>2, <1>11 DEF Lasting
    <3>3. CASE Lasting(P, o) = {} /\ \E w \in P : w.key = o
      BY <3>3, <2>2, <1>11
    <3>4. CASE \A w \in P : w.key # o
      BY <3>4, <2>2, <1>5, <1>11 DEF Has
    <3> QED
      BY <3>2, <3>3, <3>4
  <2>4. InUse(G, sk)
    BY <1>15 DEF InUse, sk, SecretKey
  <2>5. \A h \in Generation : h = g \/ h = OtherGeneration(g)
    BY DEF Generation, OtherGeneration
  <2>6. \A h \in Generation : Has(G, SecretKey(s, h)) => InUse(G, SecretKey(s, h))
    BY <2>3, <2>4, <2>5 DEF Has, sk, o
  <2> QED
    BY <2>6, <1>13, SlotIsClean
<1> QED
  BY <1>18, <1>19 DEF P, G

-----------------------------------------------------------------------------
(* The operations of the user.                                             *)

\* What an operation finds when the store may be changed.
LEMMA ReadyFacts ==
  ASSUME ProviderInv, Mutable
  PROVE  /\ Idle /\ state = "ready" /\ Has(nvs, SchemaKey) /\ Sound(nvs)
         /\ Typed(nvs) /\ GoodStore(nvs) /\ NewerThan(nvs, seen) /\ OldIds(nvs)
         /\ Authority = [profiles |-> Profiles(nvs), preset |-> nvs[PresetKey],
                         default |-> DefaultCredentials(nvs)]
         /\ hot[surface] = Authority.default /\ DOMAIN hot = Surface
         /\ ~trouble => Clean(nvs)
         /\ Profiles(nvs) \subseteq seen /\ \A p \in seen : p[1] < left.id
         /\ left \in [ops : Nat, faults : Nat, resets : Nat, id : Nat] /\ left.ops > 0
         /\ again \in BOOLEAN
<1>1. Idle /\ state = "ready" /\ left.ops > 0
  BY DEF Mutable
<1>2. StoreInv /\ SeenInv /\ StateInv /\ HotInv /\ TypeOK /\ SecretsAreInUse
  BY DEF ProviderInv
<1>3. Has(nvs, SchemaKey) /\ GoodStore(nvs) /\ Sound(nvs)
  BY <1>1, <1>2 DEF StateInv, StoreInv, GoodStore
<1>4. Authority = [profiles |-> Profiles(nvs), preset |-> nvs[PresetKey],
                   default |-> DefaultCredentials(nvs)]
  BY <1>3 DEF Authority, AuthorityOf
<1>5. ~trouble => Clean(nvs)
  BY <1>1, <1>2 DEF SecretsAreInUse, Clean
<1>6. hot[surface] = Authority.default
  BY <1>1, <1>2 DEF HotInv
<1>7. again \in BOOLEAN /\ DOMAIN hot = Surface
  BY <1>2 DEF TypeOK
<1> QED
  BY <1>1, <1>2, <1>3, <1>4, <1>5, <1>6, <1>7 DEF StoreInv, SeenInv

\* So does one of the user, in a store that may be changed.
LEMMA UserStarts ==
  ASSUME ProviderInv, Mutable, NEW kind \in {"create", "update", "default", "delete", "preset"},
         NEW P, NEW after, Start(kind, P, after), SeenStep,
         UNCHANGED <<nvs, state, blocked, again, surface, hot, trouble>>,
         Spend \/ SpendFresh,
         GoodPlan(kind, P, nvs, after, seen, left'.id), ~trouble => Clean(Goal(P, nvs))
  PROVE  ProviderInv'
<1>1. /\ Idle /\ state = "ready" /\ Has(nvs, SchemaKey)
      /\ hot[surface] = Authority.default /\ DOMAIN hot = Surface
      /\ Profiles(nvs) \subseteq seen
      /\ left \in [ops : Nat, faults : Nat, resets : Nat, id : Nat] /\ left.ops > 0
      /\ again \in BOOLEAN
  BY ReadyFacts
<1>2. left' \in [ops : Nat, faults : Nat, resets : Nat, id : Nat] /\ left.id <= left'.id
  <2>1. CASE Spend
    BY <2>1, <1>1 DEF Spend
  <2>2. CASE SpendFresh
    <3>1. PICK o, f, r, i \in Nat : left = [ops |-> o, faults |-> f, resets |-> r, id |-> i]
      BY <1>1
    <3>2. left' = [ops |-> o - 1, faults |-> f, resets |-> r, id |-> i + 1]
      BY <2>2, <3>1 DEF SpendFresh
    <3>3. o - 1 \in Nat
      BY <1>1, <3>1
    <3> QED
      BY <3>1, <3>2, <3>3
  <2> QED
    BY <2>1, <2>2
<1>3. seen' = seen
  BY <1>1, ProfilesOfAuthority DEF SeenStep, Authority
<1>4. kind \in Kinds /\ ~Initializes(kind)
  BY DEF Kinds, Initializes
<1> QED
  BY <1>1, <1>2, <1>3, <1>4, StartKeeps

\* Making a profile keeps the invariant.
LEMMA CreateKeeps ==
  ASSUME ProviderInv, CreateProfile, SeenStep
  PROVE  ProviderInv'
<1> DEFINE s == CHOOSE c \in Free : \A d \in Free : c =< d
           id == left.id
<1>1. /\ Mutable /\ Free # {} /\ SpendFresh
      /\ UNCHANGED <<nvs, state, blocked, again, surface, hot, trouble>>
  BY DEF CreateProfile
<1>2. PICK url \in Url, key \in Key :
        Start("create",
              Prepare(s, 0) \cup Prepare(s, 1) \cup Stage(s, 0, id, 1, url, key)
                \cup {Put(SelectorKey(s), <<0>>, "commit")},
              [Authority EXCEPT !.profiles = @ \cup {<<id, 1, url, key>>}])
  BY DEF CreateProfile
<1>3. s \in Free
  <2>1. Free \in SUBSET Nat /\ \A m \in Free : m \in Nat
    BY ProviderAssumption DEF Free, Slot
  <2>2. PICK m \in Free : \A n \in Free : m <= n
    BY <1>1, <2>1, LeastNumber
  <2> QED
    BY <2>2
<1> HIDE DEF s
<1>4. s \in Slot /\ s \notin Used(nvs)
  BY <1>3 DEF Free
<1>5. /\ Has(nvs, SchemaKey) /\ Typed(nvs) /\ GoodStore(nvs) /\ NewerThan(nvs, seen)
      /\ OldIds(nvs)
      /\ Authority = [profiles |-> Profiles(nvs), preset |-> nvs[PresetKey],
                      default |-> DefaultCredentials(nvs)]
      /\ ~trouble => Clean(nvs)
      /\ Profiles(nvs) \subseteq seen /\ \A p \in seen : p[1] < id
      /\ left \in [ops : Nat, faults : Nat, resets : Nat, id : Nat] /\ left.ops > 0
  BY <1>1, ReadyFacts
<1>6. id \in Nat /\ id < left'.id /\ left'.id \in Nat
  BY <1>1, <1>5 DEF SpendFresh
<1>7. url \in Nat /\ key \in Nat
  BY ProviderAssumption
<1> DEFINE A == SlotRecords(s)  P == ProfilePlan(s, 0, id, 1, url, key, A, {})
           after == [profiles |-> {Profile(nvs, t) : t \in Used(nvs) \ {s}} \cup {<<id, 1, url, key>>},
                     preset |-> nvs[PresetKey],
                     default |-> IF nvs[DefaultKey][1] = id THEN <<url, key>>
                                 ELSE DefaultCredentials(nvs)]
<1>8. P = Prepare(s, 0) \cup Prepare(s, 1) \cup Stage(s, 0, id, 1, url, key)
            \cup {Put(SelectorKey(s), <<0>>, "commit")}
  BY DEF ProfilePlan, SlotRecords, Prepare, Present, Generation
<1>9. /\ Known(nvs) = Used(nvs)
      /\ DefaultProfile(nvs) \in Profiles(nvs) /\ DefaultProfile(nvs)[1] = nvs[DefaultKey][1]
  BY <1>5, DefaultIsProfile
<1>10. \A t \in Used(nvs) : Profile(nvs, t) \in seen
  BY <1>5, <1>9 DEF Profiles
<1>11. \A p \in seen : p[1] \in Nat
  BY DEF ProviderInv, SeenInv
<1>12. /\ \A t \in Used(nvs) \ {s} : Profile(nvs, t)[1] # id
       /\ \A p \in seen : p[1] # id
       /\ nvs[DefaultKey][1] # id
  BY <1>5, <1>6, <1>9, <1>10, <1>11
<1>13. \A k \in A : ~InUse(nvs, k)
  BY <1>4 DEF SlotRecords, InUse, MetadataKey, SecretKey
<1>14. SecretKey(s, OtherGeneration(0)) \in A
  BY DEF SlotRecords, OtherGeneration, Generation
<1>15. GoodPlan("create", P, nvs, after, seen, left'.id) /\ (Clean(nvs) => Clean(Goal(P, nvs)))
  <2> HIDE DEF A
  <2>1. A \in SUBSET SlotRecords(s) /\ {} \in SUBSET SlotRecords(s) /\ A \cap {} = {} /\ 0 \in Generation
    BY DEF A, Generation
  <2> QED
    BY <1>4, <1>5, <1>6, <1>7, <1>12, <1>13, <1>14, <2>1, ProfilePlanIsGood
<1>16. [Authority EXCEPT !.profiles = @ \cup {<<id, 1, url, key>>}] = after
  <2>1. Used(nvs) \ {s} = Used(nvs)
    BY <1>4
  <2>2. {Profile(nvs, t) : t \in Used(nvs) \ {s}} = Profiles(nvs)
    BY <1>9, <2>1 DEF Profiles
  <2> QED
    BY <1>5, <1>12, <2>2
<1> HIDE DEF P, after
<1>17. Start("create", P, after)
  BY <1>2, <1>8, <1>16
<1> QED
  BY <1>1, <1>5, <1>15, <1>17, UserStarts

\* What is in force, with other profiles and another default.
LEMMA TwoFieldsChange ==
  ASSUME NEW a, NEW b, NEW c, NEW p, NEW n, NEW y, NEW d \in BOOLEAN, NEW m, NEW r,
         r = [profiles |-> a, preset |-> b, default |-> c],
         m = [r EXCEPT !.profiles = (@ \ {p}) \cup {n}, !.default = IF d THEN y ELSE @]
  PROVE  m = [profiles |-> (a \ {p}) \cup {n}, preset |-> b, default |-> IF d THEN y ELSE c]
<1> DEFINE x == (a \ {p}) \cup {n}
           z == IF d THEN y ELSE c
<1>1. m = [r EXCEPT !.profiles = x, !.default = z]
  OBVIOUS
<1> HIDE DEF x, z
<1> QED
  BY <1>1

\* Changing one keeps it.
LEMMA UpdateKeeps ==
  ASSUME ProviderInv, UpdateProfile, SeenStep
  PROVE  ProviderInv'
<1>1. /\ Mutable /\ Spend
      /\ UNCHANGED <<nvs, state, blocked, again, surface, hot, trouble>>
  BY DEF UpdateProfile
<1>2. PICK s \in Known(nvs), url \in Url, key \in Key : Update(s, url, key)
  BY DEF UpdateProfile
<1> DEFINE p == Profile(nvs, s)
           c == Chosen(nvs, s)
           g == OtherGeneration(c)
           rev == NextRevision(p, url, key)
           id == p[1]
<1>3. Start("update",
            Prepare(s, g) \cup Stage(s, g, id, rev, url, key)
              \cup {Put(SelectorKey(s), <<g>>, "commit")} \cup Cleanup(s, c),
            [Authority EXCEPT !.profiles = (@ \ {p}) \cup {<<id, rev, url, key>>},
                              !.default = IF IsDefault(p) THEN <<url, key>> ELSE @])
  BY <1>2 DEF Update
<1>4. /\ Has(nvs, SchemaKey) /\ Typed(nvs) /\ GoodStore(nvs) /\ NewerThan(nvs, seen)
      /\ OldIds(nvs)
      /\ Authority = [profiles |-> Profiles(nvs), preset |-> nvs[PresetKey],
                      default |-> DefaultCredentials(nvs)]
      /\ ~trouble => Clean(nvs)
      /\ Profiles(nvs) \subseteq seen /\ \A q \in seen : q[1] < left.id
      /\ left \in [ops : Nat, faults : Nat, resets : Nat, id : Nat] /\ left.ops > 0
  BY <1>1, ReadyFacts
<1>5. /\ s \in Slot /\ s \in Used(nvs) /\ c \in Generation
      /\ p \in Nat \X Nat \X Nat \X Nat /\ p \in Profiles(nvs)
  BY <1>4, ProfileParts
<1>6. g \in Generation /\ g # c /\ OtherGeneration(g) = c
  BY <1>5 DEF OtherGeneration, Generation
<1>7. url \in Nat /\ key \in Nat
  BY ProviderAssumption
<1>8. /\ Known(nvs) = Used(nvs)
      /\ DefaultProfile(nvs) \in Profiles(nvs) /\ DefaultProfile(nvs)[1] = nvs[DefaultKey][1]
      /\ \A t, u \in Used(nvs) : Profile(nvs, t)[1] = Profile(nvs, u)[1] => t = u
  BY <1>4, DefaultIsProfile
<1>9. id \in Nat /\ id < left'.id /\ left'.id \in Nat
  BY <1>1, <1>4, <1>5 DEF Spend
<1>10. p = <<id, p[2], p[3], p[4]>> /\ p[2] \in Nat
  BY <1>5
<1> HIDE DEF p, c, g
<1>11. /\ rev \in Nat
       /\ rev = p[2] => p = <<id, rev, url, key>>
       /\ rev # p[2] => p[2] < rev
  BY <1>10 DEF NextRevision
<1>12. ASSUME NEW q \in seen, q[1] = id PROVE q[2] < rev \/ q = <<id, rev, url, key>>
  <2>1. q[2] < p[2] \/ q = p
    BY <1>4, <1>5, <1>12 DEF NewerThan, p
  <2>2. q[2] \in Nat
    BY DEF ProviderInv, SeenInv
  <2> QED
    BY <2>1, <2>2, <1>10, <1>11
<1> HIDE DEF rev, id
<1> DEFINE A == {MetadataKey(s, g), SecretKey(s, g)}
           B == {MetadataKey(s, c), SecretKey(s, c)}
           P == ProfilePlan(s, g, id, rev, url, key, A, B)
           after == [profiles |-> {Profile(nvs, t) : t \in Used(nvs) \ {s}} \cup {<<id, rev, url, key>>},
                     preset |-> nvs[PresetKey],
                     default |-> IF nvs[DefaultKey][1] = id THEN <<url, key>>
                                 ELSE DefaultCredentials(nvs)]
<1>13. P = Prepare(s, g) \cup Stage(s, g, id, rev, url, key)
             \cup {Put(SelectorKey(s), <<g>>, "commit")} \cup Cleanup(s, c)
  <2>1. {Drop(k, "prepare") : k \in A} = {Drop(MetadataKey(s, g), "prepare"), Drop(SecretKey(s, g), "prepare")}
    OBVIOUS
  <2>2. {Drop(k, "cleanup") : k \in B} = {Drop(MetadataKey(s, c), "cleanup"), Drop(SecretKey(s, c), "cleanup")}
    OBVIOUS
  <2> HIDE DEF A, B
  <2> QED
    BY <2>1, <2>2 DEF ProfilePlan, Prepare, Cleanup
<1>14. /\ A \in SUBSET SlotRecords(s) /\ B \in SUBSET SlotRecords(s)
       /\ MetadataKey(s, g) \notin B /\ SecretKey(s, g) \notin B /\ A \cap B = {}
       /\ SecretKey(s, OtherGeneration(g)) \in A \cup B
  <2>1. {MetadataKey(s, g), SecretKey(s, g), MetadataKey(s, c), SecretKey(s, c)} \subseteq SlotRecords(s)
    BY <1>5, <1>6 DEF SlotRecords
  <2>2. MetadataKey(s, g) \notin B /\ SecretKey(s, g) \notin B
    BY <1>6 DEF MetadataKey, SecretKey
  <2> QED
    BY <2>1, <2>2, <1>6
<1>15. \A k \in A : ~InUse(nvs, k)
  BY <1>6 DEF InUse, MetadataKey, SecretKey, c
<1>16. \A t \in Used(nvs) \ {s} : Profile(nvs, t)[1] # id
  BY <1>5, <1>8 DEF id, p
<1>17. Profile(nvs, s)[1] = id /\ Chosen(nvs, s) # g
  BY <1>6 DEF id, p, c
<1>18. GoodPlan("update", P, nvs, after, seen, left'.id) /\ (Clean(nvs) => Clean(Goal(P, nvs)))
  <2>1. \A q \in seen : q[1] = id => q[2] < rev \/ q = <<id, rev, url, key>>
    BY <1>12
  <2>2. s \in Used(nvs) => Chosen(nvs, s) # g /\ Profile(nvs, s)[1] = id
    BY <1>17
  <2>3. "update" \in {"create", "update"} /\ rev \in Nat
    BY <1>11
  <2>4. /\ Has(nvs, SchemaKey) /\ Typed(nvs) /\ GoodStore(nvs) /\ NewerThan(nvs, seen)
        /\ s \in Slot /\ g \in Generation /\ url \in Nat /\ key \in Nat
        /\ id \in Nat /\ left'.id \in Nat /\ id < left'.id
    BY <1>4, <1>5, <1>6, <1>7, <1>9
  <2> HIDE DEF A, B
  <2>5. /\ A \in SUBSET SlotRecords(s) /\ B \in SUBSET SlotRecords(s) /\ A \cap B = {}
        /\ MetadataKey(s, g) \notin B /\ SecretKey(s, g) \notin B
        /\ SecretKey(s, OtherGeneration(g)) \in A \cup B
    BY <1>14
  <2>6. \A k \in A : ~InUse(nvs, k)
    BY <1>15
  <2>7. \A t \in Used(nvs) \ {s} : Profile(nvs, t)[1] # id
    BY <1>16
  <2> QED
    BY <2>1, <2>2, <2>3, <2>4, <2>5, <2>6, <2>7, ProfilePlanIsGood
<1>19. [Authority EXCEPT !.profiles = (@ \ {p}) \cup {<<id, rev, url, key>>},
                         !.default = IF IsDefault(p) THEN <<url, key>> ELSE @] = after
  <2>1. {Profile(nvs, t) : t \in Used(nvs) \ {s}} = Profiles(nvs) \ {p}
    <3>1. \A t \in Used(nvs) : Profile(nvs, t) = p <=> t = s
      BY <1>5, <1>8 DEF p
    <3> QED
      BY <3>1, <1>8 DEF Profiles
  <2> DEFINE ps == Profiles(nvs)  new == <<id, rev, url, key>>
  <2>2. after = [profiles |-> (ps \ {p}) \cup {new}, preset |-> nvs[PresetKey],
                 default |-> IF nvs[DefaultKey][1] = id THEN <<url, key>>
                             ELSE DefaultCredentials(nvs)]
    BY <2>1
  <2>3. Authority = [profiles |-> ps, preset |-> nvs[PresetKey], default |-> DefaultCredentials(nvs)]
    BY <1>4
  <2>4. (nvs[DefaultKey][1] = id) = IsDefault(p)
    BY DEF IsDefault, id
  <2>5. PICK m : m = [Authority EXCEPT !.profiles = (@ \ {p}) \cup {new},
                                       !.default = IF IsDefault(p) THEN <<url, key>> ELSE @]
    OBVIOUS
  <2>6. IsDefault(p) \in BOOLEAN
    BY DEF IsDefault
  <2> DEFINE cs == <<url, key>>
  <2> HIDE DEF after, ps, new, cs
  <2>7. m = [profiles |-> (ps \ {p}) \cup {new}, preset |-> nvs[PresetKey],
             default |-> IF IsDefault(p) THEN cs ELSE DefaultCredentials(nvs)]
    BY <2>3, <2>5, <2>6, TwoFieldsChange DEF cs
  <2>8. m = after
    BY <2>2, <2>4, <2>7 DEF cs
  <2> QED
    BY <2>5, <2>8 DEF new
<1> HIDE DEF P, after
<1>20. Start("update", P, after)
  BY <1>3, <1>13, <1>19 DEF id, rev
<1> QED
  BY <1>1, <1>4, <1>18, <1>20, UserStarts

\* A plan of a single write that takes effect at once.
LEMMA SingleWrite ==
  ASSUME NEW kind, ~Initializes(kind), Typed(nvs), NEW bound, NEW S, NEW after,
         NEW k \in NvsKey, NEW v \in Value, v \in ValuesOf(k), k \notin RecordKey,
         LET G == [nvs EXCEPT ![k] = v]
         IN Has(G, SchemaKey) /\ AuthorityOf(G) = after /\ GoodStore(G) /\ NewerThan(G, S)
  PROVE  /\ GoodPlan(kind, {Put(k, v, "commit")}, nvs, after, S, bound)
         /\ Goal({Put(k, v, "commit")}, nvs) = [nvs EXCEPT ![k] = v]
<1> DEFINE w == Put(k, v, "commit")  P == {w}  G == [nvs EXCEPT ![k] = v]
<1>1. w.key = k /\ w.value = v /\ w.phase = "commit" /\ w \in Writes
  BY DEF Put, Writes, Phases
<1>2. \A s \in Slot, g \in Generation : k # MetadataKey(s, g)
  BY KeysDiffer
<1> HIDE DEF w
<1>3. PlanTypes(P, bound)
  BY <1>1, <1>2 DEF PlanTypes
<1>4. Effective(kind, w)
  BY <1>1 DEF Effective
<1>5. WrittenOnce(kind, P) /\ Pending(kind, P)
  BY <1>4 DEF WrittenOnce, Pending
<1>6. Aside(kind, P, nvs)
  BY <1>1, <1>4, <1>5 DEF Aside
<1>7. /\ \A u \in P : u.phase # "prepare" => Goal(P, nvs)[u.key] = u.value
      /\ \A j \in NvsKey : (\A u \in P : u.key # j) => Goal(P, nvs)[j] = nvs[j]
      /\ Typed(Goal(P, nvs))
  <2> HIDE DEF P
  <2> QED
    BY <1>3, <1>5, GoalIsWritten DEF WrittenOnce
<1>8. \A j \in NvsKey : Goal(P, nvs)[j] = G[j]
  <2> TAKE j \in NvsKey
  <2>1. DOMAIN nvs = NvsKey
    BY DEF Typed
  <2>2. CASE j = k
    BY <2>1, <2>2, <1>1, <1>7
  <2>3. CASE j # k
    BY <2>1, <2>3, <1>1, <1>7
  <2> QED
    BY <2>2, <2>3
<1>9. Goal(P, nvs) = G
  BY <1>8 DEF Goal, Typed
<1>10. Leads(P, nvs, after, S)
  BY <1>9 DEF Leads
<1> QED
  BY <1>3, <1>5, <1>6, <1>9, <1>10 DEF GoodPlan, w

\* Stores that differ in what no profile depends on have the same profiles.
LEMMA SameRecords ==
  ASSUME NEW m, NEW n, Typed(n), \A s \in Slot : m[SelectorKey(s)] = n[SelectorKey(s)],
         \A r \in RecordKey : m[r] = n[r]
  PROVE  /\ Used(m) = Used(n) /\ Known(m) = Known(n) /\ Profiles(m) = Profiles(n)
         /\ \A s \in Used(n) : Profile(m, s) = Profile(n, s) /\ Metadata(m, s) = Metadata(n, s)
         /\ \A r \in RecordKey : InUse(m, r) = InUse(n, r)
<1>1. Used(m) = Used(n)
  BY DEF Used, Has
<1>2. ASSUME NEW s \in Used(n)
      PROVE  Chosen(m, s) = Chosen(n, s) /\ Metadata(m, s) = Metadata(n, s) /\ Secret(m, s) = Secret(n, s)
  <2>1. s \in Slot /\ Has(n, SelectorKey(s))
    BY DEF Used
  <2>2. PICK g \in Generation : n[SelectorKey(s)] = <<g>>
    BY <2>1, WhatIsStored
  <2>3. Chosen(n, s) = g /\ Chosen(m, s) = g
    BY <2>1, <2>2 DEF Chosen
  <2>4. MetadataKey(s, g) \in RecordKey /\ SecretKey(s, g) \in RecordKey
    BY <2>1, KeysDiffer
  <2> QED
    BY <2>3, <2>4 DEF Metadata, Secret
<1>3. \A s \in Used(n) : Profile(m, s) = Profile(n, s)
  BY <1>2 DEF Profile
<1>4. Known(m) = Known(n)
  BY <1>1, <1>2 DEF Known, Complete
<1>5. Profiles(m) = Profiles(n)
  BY <1>3, <1>4 DEF Profiles, Known
<1>6. \A r \in RecordKey : InUse(m, r) = InUse(n, r)
  BY <1>1, <1>2 DEF InUse
<1> QED
  BY <1>1, <1>2, <1>3, <1>4, <1>5, <1>6

\* Writing one of the other keys keeps the records.
LEMMA OtherKeyWritten ==
  ASSUME NEW n, Typed(n), NEW k \in {DefaultKey, PresetKey}, NEW v
  PROVE  LET m == [n EXCEPT ![k] = v]
         IN /\ \A s \in Slot : m[SelectorKey(s)] = n[SelectorKey(s)]
            /\ \A r \in RecordKey : m[r] = n[r]
            /\ \A j \in {DefaultKey, SchemaKey, PresetKey, LegacyKey, LegacyUrl} : j # k => m[j] = n[j]
            /\ m[k] = v
<1>1. DOMAIN n = NvsKey
  BY DEF Typed
<1>2. \A s \in Slot : SelectorKey(s) # k /\ SelectorKey(s) \in NvsKey
  BY DEF SelectorKey, DefaultKey, PresetKey, NvsKey
<1>3. \A r \in RecordKey : r # k /\ r \in NvsKey
  BY OtherKeys
<1>4. \A j \in {DefaultKey, SchemaKey, PresetKey, LegacyKey, LegacyUrl} : j \in NvsKey
  BY OtherKeys
<1> QED
  BY <1>1, <1>2, <1>3, <1>4

\* It leaves a clean store clean.
LEMMA OtherKeyIsClean ==
  ASSUME NEW n, Typed(n), NEW k \in {DefaultKey, PresetKey}, NEW v, Clean(n)
  PROVE  Clean([n EXCEPT ![k] = v])
<1> DEFINE m == [n EXCEPT ![k] = v]
<1>1. /\ \A s \in Slot : m[SelectorKey(s)] = n[SelectorKey(s)]
      /\ \A r \in RecordKey : m[r] = n[r]
      /\ m[LegacyKey] = n[LegacyKey]
  BY OtherKeyWritten, OtherKeys
<1> HIDE DEF m
<1>2. \A r \in RecordKey : InUse(m, r) = InUse(n, r)
  BY <1>1, SameRecords
<1>3. Clean(m)
  <2>1. \A s \in Slot, g \in Generation : SecretKey(s, g) \in RecordKey
    BY KeysDiffer
  <2>2. ~Has(m, LegacyKey)
    BY <1>1 DEF Clean, Has
  <2>3. ASSUME NEW s \in Slot, NEW g \in Generation, Has(m, SecretKey(s, g))
        PROVE  InUse(m, SecretKey(s, g))
    BY <2>1, <2>3, <1>1, <1>2 DEF Clean, Has
  <2> QED
    BY <2>2, <2>3 DEF Clean
<1> QED
  BY <1>3 DEF m

\* Making another profile the default keeps it.
LEMMA SetDefaultKeeps ==
  ASSUME ProviderInv, SetDefaultProfile, SeenStep
  PROVE  ProviderInv'
<1>1. Mutable /\ Spend /\ UNCHANGED <<nvs, state, blocked, again, surface, hot, trouble>>
  BY DEF SetDefaultProfile
<1>2. PICK p \in Profiles(nvs) :
        Start("default", {Put(DefaultKey, <<p[1]>>, "commit")},
              [Authority EXCEPT !.default = <<p[3], p[4]>>])
  BY DEF SetDefaultProfile
<1>3. /\ Has(nvs, SchemaKey) /\ Typed(nvs) /\ GoodStore(nvs) /\ NewerThan(nvs, seen)
      /\ Authority = [profiles |-> Profiles(nvs), preset |-> nvs[PresetKey],
                      default |-> DefaultCredentials(nvs)]
      /\ ~trouble => Clean(nvs)
  BY <1>1, ReadyFacts
<1>4. p \in Nat \X Nat \X Nat \X Nat
  BY <1>3, ProfileParts DEF Profiles
<1>5. Known(nvs) = Used(nvs) /\ Sound(nvs)
  BY <1>3, DefaultIsProfile
<1> DEFINE v == <<p[1]>>  G == [nvs EXCEPT ![DefaultKey] = v]
           P == {Put(DefaultKey, v, "commit")}
           after == [profiles |-> Profiles(nvs), preset |-> nvs[PresetKey], default |-> <<p[3], p[4]>>]
<1>6. v \in Value /\ v \in ValuesOf(DefaultKey) /\ DefaultKey \in NvsKey /\ DefaultKey \notin RecordKey
  <2>1. p[1] \in Nat
    BY <1>4
  <2> QED
    BY <2>1, OtherKeys DEF Value, ValuesOf, DefaultKey
<1>7. /\ \A s \in Slot : G[SelectorKey(s)] = nvs[SelectorKey(s)]
      /\ \A r \in RecordKey : G[r] = nvs[r]
      /\ G[SchemaKey] = nvs[SchemaKey] /\ G[PresetKey] = nvs[PresetKey]
      /\ G[DefaultKey] = v
  BY <1>3, OtherKeyWritten, OtherKeys
<1>8. Typed(G)
  BY <1>3, <1>6, WrittenAside
<1>9. v # Absent /\ v[1] = p[1]
  BY DEF Absent
<1> HIDE DEF G, v
<1>10. /\ Used(G) = Used(nvs) /\ Known(G) = Known(nvs) /\ Profiles(G) = Profiles(nvs)
       /\ \A s \in Used(nvs) : Profile(G, s) = Profile(nvs, s) /\ Metadata(G, s) = Metadata(nvs, s)
  BY <1>3, <1>7, SameRecords
<1>11. Has(G, SchemaKey)
  BY <1>3, <1>7 DEF Has
<1>12. Sound(G)
  <2>1. Has(G, DefaultKey)
    BY <1>7, <1>9 DEF Has
  <2> QED
    BY <2>1, <1>5, <1>7, <1>9, <1>10 DEF Sound
<1>13. GoodStore(G)
  BY <1>3, <1>10, <1>12 DEF GoodStore
<1>14. DefaultProfile(G) = p
  BY <1>7, <1>8, <1>9, <1>10, <1>11, <1>13, DefaultIsProfile
<1>15. AuthorityOf(G) = after
  BY <1>7, <1>10, <1>11, <1>12, <1>14 DEF AuthorityOf, DefaultCredentials
<1>16. NewerThan(G, seen)
  BY <1>3, <1>10 DEF NewerThan
<1>17. GoodPlan("default", P, nvs, after, seen, left'.id) /\ Goal(P, nvs) = G
  <2>1. ~Initializes("default")
    BY DEF Initializes
  <2>2. LET H == [nvs EXCEPT ![DefaultKey] = v]
        IN Has(H, SchemaKey) /\ AuthorityOf(H) = after /\ GoodStore(H) /\ NewerThan(H, seen)
    BY <1>11, <1>13, <1>15, <1>16 DEF G
  <2> HIDE DEF after
  <2> QED
    BY <1>3, <1>6, <2>1, <2>2, SingleWrite DEF G
<1>18. ~trouble => Clean(Goal(P, nvs))
  BY <1>3, <1>17, OtherKeyIsClean DEF G
<1>19. [Authority EXCEPT !.default = <<p[3], p[4]>>] = after
  BY <1>3
<1> HIDE DEF P, after
<1>20. Start("default", P, after)
  BY <1>2, <1>19 DEF P, v
<1> QED
  BY <1>1, <1>17, <1>18, <1>20, UserStarts

\* Changing the model preset keeps it.
LEMMA PresetKeeps ==
  ASSUME ProviderInv, ChangePreset, SeenStep
  PROVE  ProviderInv'
<1>1. Mutable /\ Spend /\ UNCHANGED <<nvs, state, blocked, again, surface, hot, trouble>>
  BY DEF ChangePreset
<1>2. PICK v \in {Absent, <<left.ops>>} :
        Start("preset", {Put(PresetKey, v, "commit")}, [Authority EXCEPT !.preset = v])
  BY DEF ChangePreset
<1>3. /\ Has(nvs, SchemaKey) /\ Typed(nvs) /\ GoodStore(nvs) /\ NewerThan(nvs, seen)
      /\ Authority = [profiles |-> Profiles(nvs), preset |-> nvs[PresetKey],
                      default |-> DefaultCredentials(nvs)]
      /\ ~trouble => Clean(nvs)
      /\ left \in [ops : Nat, faults : Nat, resets : Nat, id : Nat]
  BY <1>1, ReadyFacts
<1>4. Known(nvs) = Used(nvs) /\ Sound(nvs)
  BY <1>3, DefaultIsProfile
<1> DEFINE G == [nvs EXCEPT ![PresetKey] = v]
           P == {Put(PresetKey, v, "commit")}
           after == [profiles |-> Profiles(nvs), preset |-> v, default |-> DefaultCredentials(nvs)]
<1>5. v \in Value /\ v \in ValuesOf(PresetKey) /\ PresetKey \in NvsKey /\ PresetKey \notin RecordKey
  <2>1. left.ops \in Nat
    BY <1>3
  <2> QED
    BY <2>1, OtherKeys DEF Value, ValuesOf, PresetKey
<1>6. /\ \A s \in Slot : G[SelectorKey(s)] = nvs[SelectorKey(s)]
      /\ \A r \in RecordKey : G[r] = nvs[r]
      /\ G[SchemaKey] = nvs[SchemaKey] /\ G[DefaultKey] = nvs[DefaultKey]
      /\ G[PresetKey] = v
  BY <1>3, OtherKeyWritten, OtherKeys
<1> HIDE DEF G
<1>7. /\ Used(G) = Used(nvs) /\ Known(G) = Known(nvs) /\ Profiles(G) = Profiles(nvs)
      /\ \A s \in Used(nvs) : Profile(G, s) = Profile(nvs, s) /\ Metadata(G, s) = Metadata(nvs, s)
  BY <1>3, <1>6, SameRecords
<1>8. Has(G, SchemaKey)
  BY <1>3, <1>6 DEF Has
<1>9. Sound(G)
  BY <1>4, <1>6, <1>7 DEF Sound, Has
<1>10. GoodStore(G)
  BY <1>3, <1>7, <1>9 DEF GoodStore
<1>11. DefaultCredentials(G) = DefaultCredentials(nvs)
  BY <1>6, <1>7 DEF DefaultCredentials, DefaultProfile
<1>12. AuthorityOf(G) = after
  BY <1>6, <1>7, <1>8, <1>9, <1>11 DEF AuthorityOf
<1>13. NewerThan(G, seen)
  BY <1>3, <1>7 DEF NewerThan
<1>14. GoodPlan("preset", P, nvs, after, seen, left'.id) /\ Goal(P, nvs) = G
  BY <1>3, <1>5, <1>8, <1>10, <1>12, <1>13, SingleWrite DEF Initializes, G
<1>15. ~trouble => Clean(Goal(P, nvs))
  BY <1>3, <1>14, OtherKeyIsClean DEF G
<1>16. [Authority EXCEPT !.preset = v] = after
  BY <1>3
<1> HIDE DEF P, after
<1>17. Start("preset", P, after)
  BY <1>2, <1>16 DEF P
<1> QED
  BY <1>1, <1>14, <1>15, <1>17, UserStarts

\* Deleting a profile keeps it.
LEMMA DeleteKeeps ==
  ASSUME ProviderInv, DeleteProfile, SeenStep
  PROVE  ProviderInv'
<1>1. Mutable /\ Spend /\ UNCHANGED <<nvs, state, blocked, again, surface, hot, trouble>>
  BY DEF DeleteProfile
<1>2. PICK s \in Known(nvs) :
        /\ Deletable(Profile(nvs, s))
        /\ Start("delete",
                 {Drop(SelectorKey(s), "commit")} \cup Cleanup(s, 0) \cup Cleanup(s, 1),
                 [Authority EXCEPT !.profiles = @ \ {Profile(nvs, s)}])
  BY DEF DeleteProfile
<1>3. /\ Has(nvs, SchemaKey) /\ Typed(nvs) /\ GoodStore(nvs) /\ NewerThan(nvs, seen)
      /\ Authority = [profiles |-> Profiles(nvs), preset |-> nvs[PresetKey],
                      default |-> DefaultCredentials(nvs)]
      /\ ~trouble => Clean(nvs)
  BY <1>1, ReadyFacts
<1>4. s \in Slot /\ s \in Used(nvs)
  BY <1>3, ProfileParts
<1>5. /\ Known(nvs) = Used(nvs) /\ Sound(nvs)
      /\ DefaultProfile(nvs) \in Profiles(nvs) /\ DefaultProfile(nvs)[1] = nvs[DefaultKey][1]
      /\ \A t, u \in Used(nvs) : Profile(nvs, t)[1] = Profile(nvs, u)[1] => t = u
  BY <1>3, DefaultIsProfile
<1>6. Profile(nvs, s)[1] # nvs[DefaultKey][1]
  BY <1>2 DEF Deletable, IsDefault
<1> DEFINE sel == SelectorKey(s)
           P == {Drop(sel, "commit")} \cup Cleanup(s, 0) \cup Cleanup(s, 1)
           G == Goal(P, nvs)
           w0 == Drop(sel, "commit")
           after == [profiles |-> Profiles(nvs) \ {Profile(nvs, s)}, preset |-> nvs[PresetKey],
                     default |-> DefaultCredentials(nvs)]
<1>7. /\ sel \in NvsKey /\ sel \notin RecordKey /\ sel[1] = "sel"
      /\ RecordKey \subseteq NvsKey /\ SlotRecords(s) \subseteq RecordKey
      /\ SlotRecords(s) \subseteq SlotKeys(s) /\ sel \in SlotKeys(s)
  <2>1. SlotRecords(s) \subseteq RecordKey
    BY <1>4 DEF SlotRecords, RecordKey
  <2>2. sel \notin RecordKey
    BY <1>4, KeysDiffer DEF RecordKey
  <2>3. SlotRecords(s) \subseteq SlotKeys(s) /\ sel \in SlotKeys(s)
    BY DEF SlotRecords, SlotKeys
  <2>4. sel \in NvsKey /\ sel[1] = "sel"
    BY <1>4 DEF NvsKey, SelectorKey
  <2> QED
    BY <2>1, <2>2, <2>3, <2>4, OtherKeys
<1>8. w0.key = sel /\ w0.value = Absent /\ w0.phase = "commit" /\ w0 \in P
  BY DEF Drop
<1>9. P = {w0} \cup Present({Drop(k, "cleanup") : k \in SlotRecords(s)})
  BY DEF SlotRecords, Cleanup, Present, Generation
<1>10. ASSUME NEW w \in P
       PROVE  /\ w.value = Absent /\ w = [phase |-> w.phase, key |-> w.key, value |-> Absent]
              /\ w = w0 \/ (w.phase = "cleanup" /\ w.key \in SlotRecords(s))
  BY <1>9 DEF Present, Drop
<1>11. ASSUME NEW k \in SlotRecords(s), Has(nvs, k) PROVE \E w \in P : w.key = k
  <2>1. Drop(k, "cleanup").key = k
    BY DEF Drop
  <2>2. Drop(k, "cleanup") \in P
    BY <1>9, <1>11, <2>1 DEF Present
  <2> QED
    BY <2>1, <2>2
<1> HIDE DEF P, w0, sel
<1>12. PlanTypes(P, left'.id)
  <2>1. \A k \in NvsKey : Absent \in ValuesOf(k)
    BY DEF ValuesOf
  <2>2. ASSUME NEW w \in P PROVE w \in Writes /\ w.value \in ValuesOf(w.key)
    <3>1. w.phase \in Phases /\ w.key \in NvsKey
      BY <1>7, <1>8, <1>10 DEF Phases
    <3>2. Absent \in Value
      BY DEF Value
    <3> QED
      BY <2>1, <3>1, <3>2, <1>10 DEF Writes
  <2> QED
    BY <2>2, <1>10 DEF PlanTypes
<1>13. \A w \in P : Effective("delete", w) <=> w = w0
  BY <1>8, <1>10 DEF Effective, Initializes
<1>14. \A v, w \in P : v.key = w.key => v = w
  <2> SUFFICES ASSUME NEW v \in P, NEW w \in P, v.key = w.key PROVE v = w
    OBVIOUS
  <2>1. CASE v = w0 \/ w = w0
    BY <2>1, <1>7, <1>8, <1>10
  <2>2. CASE v # w0 /\ w # w0
    BY <2>2, <1>10
  <2> QED
    BY <2>1, <2>2
<1>15. WrittenOnce("delete", P) /\ Pending("delete", P)
  BY <1>8, <1>13, <1>14 DEF WrittenOnce, Pending
<1>16. /\ \A w \in P : w.phase # "prepare" => G[w.key] = w.value
       /\ \A k \in NvsKey : (\A w \in P : w.key # k) => G[k] = nvs[k]
       /\ Typed(G)
  BY <1>3, <1>12, <1>15, GoalIsWritten DEF WrittenOnce
<1>17. OnlySlot(G, nvs, s)
  <2>1. \A w \in P : w.key \in SlotKeys(s)
    BY <1>7, <1>8, <1>10
  <2> QED
    BY <2>1, <1>4, <1>16, PlanOfSlot
<1> HIDE DEF G
<1>18. G[sel] = Absent
  BY <1>8, <1>16
<1>19. \A k \in SlotRecords(s) : G[k] = Absent
  <2> TAKE k \in SlotRecords(s)
  <2>1. CASE \E w \in P : w.key = k
    <3>1. PICK w \in P : w.key = k
      BY <2>1
    <3>2. w.phase # "prepare" /\ w.value = Absent
      BY <3>1, <1>8, <1>10
    <3> QED
      BY <3>1, <3>2, <1>16
  <2>2. CASE \A w \in P : w.key # k
    BY <2>2, <1>7, <1>11, <1>16 DEF Has
  <2> QED
    BY <2>1, <2>2
<1>20. /\ G[DefaultKey] = nvs[DefaultKey] /\ G[SchemaKey] = nvs[SchemaKey]
       /\ G[PresetKey] = nvs[PresetKey]
  BY <1>17 DEF OnlySlot
<1>21. Used(G) = Used(nvs) \ {s}
  <2>1. s \notin Used(G)
    BY <1>18 DEF Used, Has, sel
  <2>2. \A t \in Slot \ {s} : t \in Used(G) <=> t \in Used(nvs)
    BY <1>3, <1>4, <1>17, OtherSlots
  <2> QED
    BY <2>1, <2>2 DEF Used
<1>22. ASSUME NEW t \in Used(G) PROVE Profile(G, t) = Profile(nvs, t) /\ Complete(G, t)
  <2>1. t \in Slot \ {s} /\ t \in Used(nvs) /\ Complete(nvs, t)
    BY <1>5, <1>21 DEF Used, Known
  <2>2. Metadata(G, t) = Metadata(nvs, t) /\ Secret(G, t) = Secret(nvs, t)
    BY <2>1, <1>3, <1>4, <1>17, OtherSlots
  <2> QED
    BY <2>1, <2>2 DEF Complete, Profile
<1>23. Known(G) = Used(G)
  BY <1>22 DEF Known
<1>24. Profiles(G) = Profiles(nvs) \ {Profile(nvs, s)}
  <2>1. \A t \in Used(nvs) : Profile(nvs, t) = Profile(nvs, s) <=> t = s
    BY <1>4, <1>5
  <2>2. Profiles(G) = {Profile(nvs, t) : t \in Used(nvs) \ {s}}
    BY <1>21, <1>22, <1>23 DEF Profiles
  <2> QED
    BY <2>1, <2>2, <1>5 DEF Profiles
<1>25. Has(G, SchemaKey) /\ Has(G, DefaultKey)
  BY <1>3, <1>5, <1>20 DEF Has, Sound
<1>26. DefaultProfile(nvs) \in Profiles(G)
  BY <1>5, <1>6, <1>24
<1>27. Sound(G)
  <2>1. Used(G) # {}
    BY <1>26, <1>23 DEF Profiles
  <2> QED
    BY <2>1, <1>5, <1>20, <1>23, <1>25, <1>26 DEF Sound
<1>28. GoodStore(G)
  BY <1>5, <1>21, <1>22, <1>27 DEF GoodStore, Profile
<1>29. DefaultProfile(G) = DefaultProfile(nvs)
  BY <1>5, <1>16, <1>20, <1>25, <1>26, <1>28, DefaultIsProfile
<1>30. AuthorityOf(G) = after
  BY <1>20, <1>24, <1>25, <1>27, <1>29 DEF AuthorityOf, DefaultCredentials
<1>31. NewerThan(G, seen)
  BY <1>3, <1>21, <1>22 DEF NewerThan
<1>32. Leads(P, nvs, after, seen)
  BY <1>25, <1>28, <1>30, <1>31 DEF Leads, G
<1>33. Aside("delete", P, nvs)
  <2>1. \A k \in SlotRecords(s) : k \notin InForce(G)
    <3> TAKE k \in SlotRecords(s)
    <3>1. k \in RecordKey /\ k[2] = s
      BY <1>7 DEF SlotRecords, MetadataKey, SecretKey
    <3>2. ~InUse(G, k)
      BY <3>1, <1>21 DEF InUse
    <3> QED
      BY <3>1, <3>2, <1>25, RecordNotInForce
  <2>2. \A w \in P : w.phase \in {"cleanup", "legacy"} => w.key \notin InForce(G)
    BY <2>1, <1>8, <1>10
  <2> QED
    BY <2>2, <1>8, <1>10, <1>13, <1>15 DEF Aside, Initializes, G
<1>34. GoodPlan("delete", P, nvs, after, seen, left'.id)
  BY <1>12, <1>15, <1>32, <1>33 DEF GoodPlan
<1>35. ~trouble => Clean(G)
  <2>1. \A g \in Generation : ~Has(G, SecretKey(s, g))
    BY <1>19 DEF SlotRecords, Has
  <2> QED
    BY <2>1, <1>3, <1>4, <1>17, SlotIsClean
<1>36. [Authority EXCEPT !.profiles = @ \ {Profile(nvs, s)}] = after
  BY <1>3
<1> HIDE DEF after
<1>37. Start("delete", P, after)
  BY <1>2, <1>36 DEF P, sel
<1> QED
  BY <1>1, <1>34, <1>35, <1>37, UserStarts DEF G

-----------------------------------------------------------------------------
(* The first profile.                                                      *)

\* The plan of an initial store leads to one profile, whatever was left before.
LEMMA InitialPlanIsGood ==
  ASSUME NEW kind, Initializes(kind), Typed(nvs), ~Has(nvs, SchemaKey),
         NEW id \in Nat, NEW url \in Nat, NEW key \in Nat, NEW bound \in Nat, id < bound,
         NEW S, \A p \in S : p[1] # id
  PROVE  LET P == InitialPlan(id, url, key)
         IN /\ GoodPlan(kind, P, nvs, [profiles |-> {<<id, 1, url, key>>}, default |-> <<url, key>>,
                                       preset |-> Absent], S, bound)
            /\ Pending(kind, P)
<1> DEFINE P == InitialPlan(id, url, key)
           G == Goal(P, nvs)
           sel == SelectorKey(0)
           md == MetadataKey(0, 0)
           sk == SecretKey(0, 0)
           w1 == Put(md, <<id, 1, url>>, "stage")
           w2 == Put(sk, <<1, key>>, "stage")
           w3 == Put(sel, <<0>>, "commit")
           w4 == Put(DefaultKey, <<id>>, "commit")
           w5 == Put(SchemaKey, <<1>>, "commit")
           W == {w1, w2, w3, w4, w5}
           A == NvsKey \ {SchemaKey, LegacyKey, LegacyUrl}
           new == <<id, 1, url, key>>
           after == [profiles |-> {new}, default |-> <<url, key>>, preset |-> Absent]
<1>1. 0 \in Slot /\ 0 \in Generation
  BY ProviderAssumption DEF Slot, Generation
<1>2. /\ {sel, md, sk, DefaultKey} \subseteq A /\ A \subseteq NvsKey /\ SchemaKey \in NvsKey
      /\ md # sk /\ sel \notin {md, sk} /\ DefaultKey \notin {sel, md, sk}
      /\ SchemaKey \notin {sel, md, sk, DefaultKey}
  <2>1. {sel, md, sk} \subseteq NvsKey
    BY <1>1, KeysDiffer, OtherKeys
  <2>2. {sel, md, sk} \cap {DefaultKey, SchemaKey, LegacyKey, LegacyUrl} = {}
    BY DEF SelectorKey, MetadataKey, SecretKey, DefaultKey, SchemaKey, LegacyKey, LegacyUrl
  <2>3. md # sk /\ sel \notin {md, sk}
    BY DEF SelectorKey, MetadataKey, SecretKey
  <2> QED
    BY <2>1, <2>2, <2>3, OtherKeys
<1>3. /\ w1.key = md /\ w1.value = <<id, 1, url>> /\ w1.phase = "stage"
      /\ w2.key = sk /\ w2.value = <<1, key>> /\ w2.phase = "stage"
      /\ w3.key = sel /\ w3.value = <<0>> /\ w3.phase = "commit"
      /\ w4.key = DefaultKey /\ w4.value = <<id>> /\ w4.phase = "commit"
      /\ w5.key = SchemaKey /\ w5.value = <<1>> /\ w5.phase = "commit"
  BY DEF Put
<1>4. W \subseteq P
  BY DEF InitialPlan, Stage
<1>5. ASSUME NEW w \in P
      PROVE  \/ w \in W
             \/ /\ w.value = Absent /\ w = [phase |-> "prepare", key |-> w.key, value |-> Absent]
                /\ w.phase = "prepare" /\ w.key \in A
  BY DEF InitialPlan, Stage, Present, Drop
<1>6. ASSUME NEW k \in A, Has(nvs, k) PROVE \E w \in P : w.key = k
  <2>1. Drop(k, "prepare").key = k
    BY DEF Drop
  <2>2. Drop(k, "prepare") \in P
    BY <1>6, <2>1 DEF InitialPlan, Present
  <2> QED
    BY <2>1, <2>2
<1>7. /\ md[1] = "meta" /\ sk[1] = "secret" /\ sel[1] = "sel"
      /\ DefaultKey[1] = "default" /\ SchemaKey[1] = "schema"
      /\ \A t \in Slot, h \in Generation : MetadataKey(t, h)[1] = "meta"
  BY DEF MetadataKey, SecretKey, SelectorKey, DefaultKey, SchemaKey
<1> HIDE DEF P, sel, md, sk, w1, w2, w3, w4, w5, W, A
<1>8. PlanTypes(P, bound)
  <2>1. /\ <<id, 1, url>> \in Value /\ <<1, key>> \in Value /\ <<0>> \in Value /\ Absent \in Value
        /\ <<id>> \in Value /\ <<1>> \in Value
    BY DEF Value
  <2>2. /\ <<id, 1, url>> \in ValuesOf(md) /\ <<1, key>> \in ValuesOf(sk)
        /\ <<0>> \in ValuesOf(sel) /\ <<id>> \in ValuesOf(DefaultKey) /\ <<1>> \in ValuesOf(SchemaKey)
        /\ \A k \in NvsKey : Absent \in ValuesOf(k)
    BY <1>1, <1>7 DEF ValuesOf
  <2>3. ASSUME NEW w \in P
        PROVE  /\ w \in Writes /\ w.value \in ValuesOf(w.key)
               /\ w.phase \in {"prepare", "cleanup", "legacy"} => w.value = Absent
               /\ \A t \in Slot, h \in Generation :
                    w.key = MetadataKey(t, h) /\ w.value # Absent => w.value[1] < bound
    <3>1. CASE w \in W
      <4>1. w \in Writes
        BY <3>1, <2>1, <1>2 DEF W, w1, w2, w3, w4, w5, Put, Writes, Phases
      <4>2. w = w1 => w.value[1] = id
        BY <1>3
      <4>3. w # w1 => \A t \in Slot, h \in Generation : w.key # MetadataKey(t, h)
        BY <3>1, <1>3, <1>7 DEF W
      <4>4. w.value \in ValuesOf(w.key)
        BY <3>1, <2>2, <1>3 DEF W
      <4>5. w.phase \in {"stage", "commit"}
        BY <3>1, <1>3 DEF W
      <4> QED
        BY <4>1, <4>2, <4>3, <4>4, <4>5
    <3>2. CASE w \notin W
      <4>1. w.phase \in Phases /\ w.key \in NvsKey /\ w.value = Absent
        BY <3>2, <1>2, <1>5 DEF Phases
      <4>2. w = [phase |-> w.phase, key |-> w.key, value |-> Absent]
        BY <3>2, <1>5
      <4>3. w \in Writes
        BY <4>1, <4>2, <2>1 DEF Writes
      <4> QED
        BY <4>1, <4>3, <2>2
    <3> QED
      BY <3>1, <3>2
  <2> QED
    BY <2>3 DEF PlanTypes
<1>9. \A v, w \in W : v.key = w.key => v = w
  BY <1>2, <1>3 DEF W
<1>10. \A w \in W : w.phase \in {"stage", "commit"} /\ w.key \in A \cup {SchemaKey}
  BY <1>2, <1>3 DEF W
<1>11. \A v, w \in P : v.key = w.key => v = w \/ (v.phase = "prepare") # (w.phase = "prepare")
  <2> SUFFICES ASSUME NEW v \in P, NEW w \in P, v.key = w.key,
                      (v.phase = "prepare") <=> (w.phase = "prepare")
               PROVE  v = w
    OBVIOUS
  <2>1. CASE v \in W /\ w \in W
    BY <2>1, <1>9
  <2>2. CASE v \notin W /\ w \notin W
    BY <2>2, <1>5
  <2>3. v \in W <=> w \in W
    BY <1>5, <1>10
  <2> QED
    BY <2>1, <2>2, <2>3
<1>12. \A w \in P : Effective(kind, w) <=> w = w5
  <2> TAKE w \in P
  <2>1. CASE w \in W
    BY <2>1, <1>2, <1>3 DEF Effective, W
  <2>2. CASE w \notin W
    BY <2>2, <1>3, <1>5 DEF Effective
  <2> QED
    BY <2>1, <2>2
<1>13. WrittenOnce(kind, P) /\ Pending(kind, P)
  BY <1>4, <1>11, <1>12 DEF WrittenOnce, Pending, W
<1>14. Aside(kind, P, nvs)
  <2>1. InForce(nvs) = {SchemaKey, LegacyKey, LegacyUrl}
    BY DEF InForce
  <2>2. ASSUME NEW w \in P, ~Effective(kind, w) PROVE w.key \in A
    <3>1. CASE w \in W
      BY <2>2, <3>1, <1>2, <1>3, <1>12 DEF W
    <3>2. CASE w \notin W
      BY <3>2, <1>5
    <3> QED
      BY <3>1, <3>2
  <2>3. \A w \in P : w.phase \notin {"cleanup", "legacy"}
    BY <1>5, <1>10
  <2> QED
    BY <2>1, <2>2, <2>3, <1>13 DEF Aside, A
<1>15. /\ \A w \in P : w.phase # "prepare" => G[w.key] = w.value
       /\ \A k \in NvsKey : Lasting(P, k) = {} /\ (\E w \in P : w.key = k) => G[k] = Absent
       /\ \A k \in NvsKey : (\A w \in P : w.key # k) => G[k] = nvs[k]
       /\ Typed(G)
  BY <1>8, <1>11, GoalIsWritten
<1> HIDE DEF G
<1>16. /\ G[md] = <<id, 1, url>> /\ G[sk] = <<1, key>> /\ G[sel] = <<0>>
       /\ G[DefaultKey] = <<id>> /\ G[SchemaKey] = <<1>>
  <2>1. \A w \in W : G[w.key] = w.value
    BY <1>4, <1>10, <1>15
  <2> QED
    BY <2>1, <1>3 DEF W
<1>17. ASSUME NEW k \in A, k \notin {md, sk, sel, DefaultKey} PROVE G[k] = Absent
  <2>1. \A w \in W : w.key # k
    BY <1>17, <1>3, OtherKeys DEF W, A
  <2>2. \A w \in P : w.key = k => w.phase = "prepare"
    BY <2>1, <1>5
  <2>3. Lasting(P, k) = {}
    BY <2>2 DEF Lasting
  <2>4. k \in NvsKey
    BY <1>2
  <2>5. CASE \E w \in P : w.key = k
    BY <2>3, <2>4, <2>5, <1>15
  <2>6. CASE \A w \in P : w.key # k
    BY <2>4, <2>6, <1>6, <1>15 DEF Has
  <2> QED
    BY <2>5, <2>6
<1>18. Used(G) = {0}
  <2>1. 0 \in Used(G)
    BY <1>1, <1>16 DEF Used, Has, Absent, sel
  <2>2. ASSUME NEW t \in Slot, t # 0 PROVE t \notin Used(G)
    <3>1. SelectorKey(t) \in NvsKey
      BY DEF NvsKey
    <3>2. SelectorKey(t) \notin {SchemaKey, LegacyKey, LegacyUrl, DefaultKey, md, sk, sel}
      BY <2>2 DEF SelectorKey, SchemaKey, LegacyKey, LegacyUrl, DefaultKey, md, sk, sel, MetadataKey,
                  SecretKey
    <3>3. G[SelectorKey(t)] = Absent
      BY <3>1, <3>2, <1>17 DEF A
    <3> QED
      BY <3>3 DEF Used, Has
  <2> QED
    BY <2>1, <2>2 DEF Used
<1>19. /\ Chosen(G, 0) = 0
       /\ Metadata(G, 0) = <<id, 1, url>> /\ Secret(G, 0) = <<1, key>>
  <2>1. Chosen(G, 0) = 0
    BY <1>16 DEF Chosen, sel
  <2> QED
    BY <2>1, <1>16 DEF Metadata, Secret, md, sk
<1>20. Profile(G, 0) = new /\ Complete(G, 0)
  BY <1>19 DEF Profile, Complete, Absent
<1>21. Known(G) = {0} /\ Profiles(G) = {new}
  <2>1. Known(G) = {0}
    BY <1>18, <1>20 DEF Known
  <2> QED
    BY <2>1, <1>20 DEF Profiles
<1>22. Has(G, SchemaKey) /\ Has(G, DefaultKey) /\ G[DefaultKey][1] = id
  BY <1>16 DEF Has, Absent
<1>23. new[1] = id /\ new[3] = url /\ new[4] = key
  OBVIOUS
<1> HIDE DEF new
<1>24. Sound(G)
  BY <1>18, <1>21, <1>22, <1>23 DEF Sound
<1>25. GoodStore(G)
  BY <1>18, <1>24 DEF GoodStore
<1>26. DefaultCredentials(G) = <<url, key>>
  <2>1. DefaultProfile(G) = new
    BY <1>21, <1>22, <1>23 DEF DefaultProfile
  <2> QED
    BY <2>1, <1>23 DEF DefaultCredentials
<1>27. G[PresetKey] = Absent
  BY <1>7, <1>17, OtherKeys DEF A, PresetKey, md, sk, sel
<1>28. AuthorityOf(G) = after
  BY <1>21, <1>22, <1>24, <1>26, <1>27 DEF AuthorityOf
<1>29. NewerThan(G, S)
  BY <1>18, <1>20, <1>23 DEF NewerThan
<1>30. Leads(P, nvs, after, S)
  BY <1>22, <1>25, <1>28, <1>29 DEF Leads, G
<1>31. GoodPlan(kind, P, nvs, after, S, bound) /\ Pending(kind, P)
  BY <1>8, <1>13, <1>14, <1>30 DEF GoodPlan
<1> QED
  BY <1>31 DEF P, new

-----------------------------------------------------------------------------
(* The first profile, and the start.                                       *)

\* Beginning to write the first profile keeps the invariant.
LEMMA InitialKeeps ==
  ASSUME ProviderInv, Idle, NEW kind \in {"bootstrap", "migrate"}, NEW url \in Nat, NEW key \in Nat,
         StartInitial(kind, url, key), SeenStep, ~Has(nvs, SchemaKey),
         UNCHANGED <<surface, trouble>>, surface = "device",
         left' \in [ops : Nat, faults : Nat, resets : Nat, id : Nat], left'.id = left.id + 1,
         state' = (IF kind = "migrate" THEN "legacy" ELSE "unconfigured"),
         DOMAIN hot' = Surface, hot'[surface] = Authority.default, again' \in BOOLEAN
  PROVE  ProviderInv'
<1> DEFINE P == InitialPlan(left.id, url, key)
           after == [profiles |-> {<<left.id, 1, url, key>>}, default |-> <<url, key>>, preset |-> Absent]
<1>1. /\ Start(kind, P, after) /\ UNCHANGED <<nvs, blocked>>
  BY DEF StartInitial
<1>2. /\ Typed(nvs) /\ left.id \in Nat /\ left'.id \in Nat /\ left.id < left'.id
      /\ \A p \in seen : p[1] < left.id /\ p[1] \in Nat
  BY DEF ProviderInv, StoreInv, SeenInv
<1>3. seen' = seen
  BY DEF SeenStep
<1>4. \A p \in seen' : p[1] # left.id
  BY <1>2, <1>3
<1>5. Initializes(kind) /\ kind \in Kinds
  BY DEF Initializes, Kinds
<1>6. GoodPlan(kind, P, nvs, after, seen', left'.id) /\ Pending(kind, P)
  BY <1>2, <1>4, <1>5, InitialPlanIsGood
<1> HIDE DEF P, after
<1>7. left.id <= left'.id
  BY <1>2
<1> QED
  BY <1>1, <1>5, <1>6, <1>7, StartKeeps

\* A settings value of the older firmware is a number.
LEMMA LegacyIsNumbers ==
  ASSUME NEW n, Typed(n)
  PROVE  Legacy(n)[1] \in Nat /\ Legacy(n)[2] \in Nat
BY WhatIsStored DEF Legacy, Has

\* The start reads what is in force, whichever settings those are.
LEMMA BootKeeps ==
  ASSUME ProviderInv, Boot, SeenStep
  PROVE  ProviderInv'
<1>1. state = "off" /\ Idle /\ UNCHANGED <<surface, trouble, nvs, blocked>>
  BY DEF Boot, StartInitial
<1>2. StoreInv /\ SeenInv /\ StateInv /\ TypeOK /\ OldOrNew
  BY DEF ProviderInv
<1>3. /\ surface = "device" /\ surface \in Surface
      /\ left \in [ops : Nat, faults : Nat, resets : Nat, id : Nat] /\ left.id \in Nat
  BY <1>1, <1>2, SurfaceIsOne DEF StateInv, StoreInv
<1>4. CASE Has(nvs, SchemaKey)
  <2>1. Sound(nvs) /\ Typed(nvs) /\ GoodStore(nvs)
    BY <1>2, <1>4, DefaultIsProfile DEF StoreInv
  <2>2. /\ Start("inspect", InspectPlan, Authority)
        /\ state' = "ready" /\ again' = FALSE
        /\ hot' = [s \in Surface |-> DefaultCredentials(nvs)]
        /\ UNCHANGED left
    BY <1>4, <2>1 DEF Boot
  <2>3. DOMAIN hot' = Surface /\ hot'[surface] = Authority.default
    BY <1>3, <1>4, <2>1, <2>2, ProfilesOfAuthority DEF Authority
  <2>4. NewerThan(nvs, seen')
    <3>1. seen' = seen \cup Authority.profiles
      BY <1>1, <2>2 DEF SeenStep, Authority
    <3> QED
      BY <1>2, <2>1, <3>1, NewerThanItself DEF SeenInv, Authority
  <2>5. /\ GoodPlan("inspect", InspectPlan, nvs, Authority, seen', left'.id)
        /\ Clean(Goal(InspectPlan, nvs))
    BY <1>4, <2>1, <2>4, InspectIsGood
  <2>6. "inspect" \in Kinds /\ ~Initializes("inspect")
    BY DEF Kinds, Initializes
  <2>7. left' \in [ops : Nat, faults : Nat, resets : Nat, id : Nat] /\ left.id <= left'.id
    BY <1>3, <2>2
  <2>8. UNCHANGED <<nvs, surface, trouble, blocked>> /\ again' \in BOOLEAN
    BY <1>1, <2>2
  <2> DEFINE P == InspectPlan  after == Authority
  <2>9. Start("inspect", P, after) /\ GoodPlan("inspect", P, nvs, after, seen', left'.id) /\ Clean(Goal(P, nvs))
    BY <2>2, <2>5
  <2> HIDE DEF P, after
  <2> QED
    BY <1>1, <1>4, <2>2, <2>3, <2>6, <2>7, <2>8, <2>9, StartKeeps
<1>5. CASE ~Has(nvs, SchemaKey)
  <2>1. /\ again' = TRUE
        /\ hot' = [s \in Surface |-> Legacy(nvs)]
        /\ IF Legacy(nvs) = <<0, 0>>
             THEN state' = "unconfigured" /\ UNCHANGED <<nvs, blocked, op, report, left>>
             ELSE /\ state' = "legacy"
                  /\ IF 0 \in {Legacy(nvs)[1], Legacy(nvs)[2]}
                       THEN UNCHANGED <<nvs, blocked, op, report, left>>
                       ELSE /\ StartInitial("migrate", Legacy(nvs)[1], Legacy(nvs)[2])
                            /\ left' = [left EXCEPT !.id = @ + 1]
    BY <1>5 DEF Boot
  <2>2. Authority.default = Legacy(nvs)
    BY <1>5 DEF Authority, AuthorityOf
  <2>3. DOMAIN hot' = Surface /\ hot'[surface] = Authority.default
    BY <1>3, <2>1, <2>2
  <2>4. CASE UNCHANGED <<op, report, left>> /\ state' \in {"legacy", "unconfigured"}
    <3>1. StoreInv' /\ Authority' = Authority /\ Idle'
      BY <1>1, <1>2, <2>4 DEF StoreInv, OldIds, Authority, Idle
    <3>2. SeenInv'
      BY <1>1, <1>2, <1>3, <2>4, <3>1, SeenKept DEF SeenInv
    <3>3. StateInv' /\ HotInv' /\ PlanInv'
      BY <1>1, <1>3, <1>5, <2>3, <2>4, <3>1 DEF StateInv, HotInv, PlanInv, Busy
    <3>4. OldOrNew' /\ NeverCorrupt' /\ SecretsAreInUse'
      BY <1>2, <2>4, <3>1 DEF OldOrNew, NeverCorrupt, SecretsAreInUse, Busy
    <3>5. TypeOK'
      BY <1>1, <1>2, <2>1, <2>3, <2>4 DEF TypeOK
    <3> QED
      BY <3>1, <3>2, <3>3, <3>4, <3>5 DEF ProviderInv
  <2>5. CASE /\ state' = "legacy" /\ left' = [left EXCEPT !.id = @ + 1]
             /\ StartInitial("migrate", Legacy(nvs)[1], Legacy(nvs)[2])
    <3>1. left' \in [ops : Nat, faults : Nat, resets : Nat, id : Nat] /\ left'.id = left.id + 1
      BY <1>3, <2>5
    <3>2. Legacy(nvs)[1] \in Nat /\ Legacy(nvs)[2] \in Nat
      BY <1>2, LegacyIsNumbers DEF StoreInv
    <3>3. again' \in BOOLEAN
      BY <2>1
    <3> QED
      BY <1>1, <1>3, <1>5, <2>3, <2>5, <3>1, <3>2, <3>3, InitialKeeps
  <2> QED
    BY <2>1, <2>4, <2>5
<1> QED
  BY <1>4, <1>5

\* What the menu and the portal find before there is a profile.
LEMMA BeforeTheFirst ==
  ASSUME ProviderInv, Idle, state \in {"legacy", "unconfigured"}, surface = "device",
         left.ops > 0, SpendFresh
  PROVE  /\ ~Has(nvs, SchemaKey) /\ Typed(nvs) /\ again \in BOOLEAN
         /\ DOMAIN hot = Surface /\ hot[surface] = Authority.default
         /\ left' \in [ops : Nat, faults : Nat, resets : Nat, id : Nat] /\ left'.id = left.id + 1
<1>1. StoreInv /\ StateInv /\ HotInv /\ TypeOK
  BY DEF ProviderInv
<1>2. PICK o, f, r, i \in Nat : left = [ops |-> o, faults |-> f, resets |-> r, id |-> i]
  BY <1>1 DEF StoreInv
<1>3. left' = [ops |-> o - 1, faults |-> f, resets |-> r, id |-> i + 1]
  BY <1>2 DEF SpendFresh
<1>4. o - 1 \in Nat
  BY <1>2
<1>5. left' \in [ops : Nat, faults : Nat, resets : Nat, id : Nat] /\ left'.id = left.id + 1
  BY <1>2, <1>3, <1>4
<1> QED
  BY <1>1, <1>5 DEF StoreInv, StateInv, HotInv, TypeOK

\* Trying a migration again keeps the invariant.
LEMMA RetryKeeps ==
  ASSUME ProviderInv, RetryMigration, SeenStep
  PROVE  ProviderInv'
<1>1. /\ state = "legacy" /\ Idle /\ left.ops > 0 /\ surface = "device"
      /\ StartInitial("migrate", Legacy(nvs)[1], Legacy(nvs)[2])
      /\ SpendFresh
      /\ UNCHANGED <<state, again, surface, hot, trouble>>
  BY DEF RetryMigration
<1>2. /\ ~Has(nvs, SchemaKey) /\ Typed(nvs) /\ again \in BOOLEAN
      /\ DOMAIN hot = Surface /\ hot[surface] = Authority.default
      /\ left' \in [ops : Nat, faults : Nat, resets : Nat, id : Nat] /\ left'.id = left.id + 1
  BY <1>1, BeforeTheFirst
<1>3. Legacy(nvs)[1] \in Nat /\ Legacy(nvs)[2] \in Nat
  BY <1>2, LegacyIsNumbers
<1> QED
  BY <1>1, <1>2, <1>3, InitialKeeps

\* The provisioning portal keeps the invariant.
LEMMA ProvisionKeeps ==
  ASSUME ProviderInv, Provision, SeenStep
  PROVE  ProviderInv'
<1>1. /\ Idle /\ left.ops > 0 /\ surface = "device" /\ SpendFresh
      /\ UNCHANGED <<state, again, surface, hot, trouble>>
  BY DEF Provision
<1>2. PICK url \in Url, key \in Key :
        \/ state = "unconfigured" /\ StartInitial("bootstrap", url, key)
        \/ state = "legacy" /\ StartInitial("migrate", url, key)
  BY DEF Provision
<1>3. /\ ~Has(nvs, SchemaKey) /\ Typed(nvs) /\ again \in BOOLEAN
      /\ DOMAIN hot = Surface /\ hot[surface] = Authority.default
      /\ left' \in [ops : Nat, faults : Nat, resets : Nat, id : Nat] /\ left'.id = left.id + 1
  BY <1>1, <1>2, BeforeTheFirst
<1>4. url \in Nat /\ key \in Nat
  BY ProviderAssumption
<1>5. CASE state = "unconfigured" /\ StartInitial("bootstrap", url, key)
  <2>1. state' = (IF "bootstrap" = "migrate" THEN "legacy" ELSE "unconfigured")
    BY <1>1, <1>5
  <2> QED
    BY <1>1, <1>3, <1>4, <1>5, <2>1, InitialKeeps
<1>6. CASE state = "legacy" /\ StartInitial("migrate", url, key)
  BY <1>1, <1>3, <1>4, <1>6, InitialKeeps
<1> QED
  BY <1>2, <1>5, <1>6

-----------------------------------------------------------------------------
(* The invariant, and the theorem.                                         *)

\* The store as it is before this firmware has run: at most older settings.
LEMMA InitProvider == Init => ProviderInv
<1> SUFFICES ASSUME Init PROVE ProviderInv
  OBVIOUS
<1>1. PICK u \in {<<1>>, Absent}, y \in {<<1>>, Absent} :
        nvs = [k \in NvsKey |-> IF k = LegacyUrl THEN u ELSE IF k = LegacyKey THEN y ELSE Absent]
  BY DEF Init
<1>2. /\ state = "off" /\ blocked = FALSE /\ again = FALSE /\ surface = "device"
      /\ hot = [s \in Surface |-> <<0, 0>>]
      /\ op = NoOp /\ report = NoReport /\ seen = {} /\ trouble = FALSE
      /\ left = [ops |-> MaxOps, faults |-> MaxFaults, resets |-> MaxResets, id |-> 1]
  BY DEF Init
<1>3. /\ ~Has(nvs, SchemaKey)
      /\ \A s \in Slot, g \in Generation : ~Has(nvs, MetadataKey(s, g))
  <2>1. SchemaKey \in NvsKey \ {LegacyUrl, LegacyKey}
    BY OtherKeys
  <2>2. \A s \in Slot, g \in Generation : MetadataKey(s, g) \in NvsKey \ {LegacyUrl, LegacyKey}
    BY KeysDiffer, OtherKeys
  <2> QED
    BY <1>1, <2>1, <2>2 DEF Has
<1>4. Typed(nvs)
  <2>1. ASSUME NEW k \in NvsKey PROVE nvs[k] \in Value /\ nvs[k] \in ValuesOf(k)
    <3>1. CASE k \in {LegacyUrl, LegacyKey}
      <4>1. k[1] \notin {"sel", "meta", "secret"} /\ nvs[k] \in {<<1>>, Absent}
        BY <1>1, <3>1 DEF LegacyUrl, LegacyKey
      <4> QED
        BY <4>1 DEF Value, ValuesOf
    <3>2. CASE k \notin {LegacyUrl, LegacyKey}
      <4>1. nvs[k] = Absent
        BY <1>1, <3>2
      <4> QED
        BY <4>1 DEF Value, ValuesOf
    <3> QED
      BY <3>1, <3>2
  <2>2. nvs \in [NvsKey -> Value]
    <3>1. nvs = [k \in NvsKey |-> nvs[k]]
      BY <1>1
    <3> QED
      BY <2>1, <3>1
  <2> QED
    BY <2>1, <2>2 DEF Typed
<1>5. left \in [ops : Nat, faults : Nat, resets : Nat, id : Nat]
  BY <1>2, ProviderAssumption
<1>6. StoreInv
  BY <1>3, <1>4, <1>5 DEF StoreInv, GoodStore, OldIds
<1>7. SeenInv
  BY <1>2 DEF SeenInv, RevisionTellsChange, NewerThan
<1>8. op.kind = "none" /\ report.verdict = "none"
  BY <1>2 DEF NoOp, NoReport
<1>9. StateInv /\ HotInv /\ PlanInv /\ OldOrNew /\ NeverCorrupt /\ SecretsAreInUse
  BY <1>2, <1>8 DEF StateInv, HotInv, PlanInv, OldOrNew, NeverCorrupt, SecretsAreInUse, Busy, Idle
<1>10. TypeOK
  BY <1>2, <1>3, <1>4, <1>5, <1>8 DEF TypeOK, Typed, Surface
<1> QED
  BY <1>6, <1>7, <1>9, <1>10 DEF ProviderInv

\* Every step keeps the invariant.
LEMMA ProviderInvKept == ProviderInv /\ [Next]_vars => ProviderInv'
<1>1. ASSUME ProviderInv, Next PROVE ProviderInv'
  <2>1. SeenStep
    BY <1>1 DEF Next, SeenStep
  <2>2. \/ CreateProfile \/ UpdateProfile \/ SetDefaultProfile \/ DeleteProfile \/ ChangePreset
        \/ RetryMigration \/ Provision
        \/ Write \/ Finish \/ CleanupFails \/ WriteFails
        \/ OpenWebConsole \/ CloseWebConsole \/ Boot \/ Reset
    BY <1>1 DEF Next, Operate
  <2> QED
    BY <1>1, <2>1, <2>2, CreateKeeps, UpdateKeeps, SetDefaultKeeps, DeleteKeeps, PresetKeeps,
       RetryKeeps, ProvisionKeeps, WriteKeeps, FinishKeeps, CleanupFailsKeeps, WriteFailsKeeps,
       SurfacesKeep, BootKeeps, ResetKeeps
<1>2. ASSUME ProviderInv, UNCHANGED vars PROVE ProviderInv'
  <2>1. UNCHANGED <<nvs, state, blocked, again, surface, hot, op, report, seen, trouble, left>>
    BY <1>2 DEF vars
  <2>2. TypeOK' /\ OldOrNew' /\ NeverCorrupt' /\ SecretsAreInUse'
    BY <1>2, <2>1 DEF ProviderInv, TypeOK, OldOrNew, NeverCorrupt, SecretsAreInUse, Busy, Idle, Authority
  <2>3. StoreInv' /\ SeenInv' /\ StateInv' /\ HotInv'
    BY <1>2, <2>1 DEF ProviderInv, StoreInv, OldIds, SeenInv, RevisionTellsChange, StateInv, HotInv,
                      Idle, Authority
  <2>4. PlanInv'
    BY <1>2, <2>1 DEF ProviderInv, PlanInv, Busy, Idle, Initial, Authority
  <2> QED
    BY <2>2, <2>3, <2>4 DEF ProviderInv
<1> QED
  BY <1>1, <1>2

\* What the invariant says of the settings held is what the property says.
LEMMA ProviderInvSays == ProviderInv => ProfilesAreAtomic
<1> SUFFICES ASSUME ProviderInv PROVE ProfilesAreAtomic
  OBVIOUS
<1>1. StoreInv /\ SeenInv /\ StateInv /\ HotInv
  BY DEF ProviderInv
<1>2. ASSUME state = "ready", Idle PROVE hot[surface] = DefaultCredentials(nvs)
  <2>1. Has(nvs, SchemaKey) /\ Typed(nvs) /\ GoodStore(nvs)
    BY <1>1, <1>2 DEF StateInv, StoreInv
  <2>2. Sound(nvs)
    BY <2>1, DefaultIsProfile
  <2>3. Authority.default = DefaultCredentials(nvs)
    BY <2>1, <2>2, ProfilesOfAuthority DEF Authority
  <2> QED
    BY <1>1, <1>2, <2>3 DEF HotInv
<1>3. HotIsDefault
  BY <1>2 DEF HotIsDefault
<1> QED
  BY <1>1, <1>3 DEF ProviderInv, ProfilesAreAtomic, SeenInv

(* ProfilesAreAtomic: wherever power is lost or a write fails, what is in   *)
(* force is what was before an operation or what it asked for, and what    *)
(* the user was told; the store can be read at the next start; no key      *)
(* outlives its profile; a revision never stands for two credentials; and  *)
(* the surface in use holds those of the default profile.                  *)
THEOREM ProfilesStayAtomic == Spec => []ProfilesAreAtomic
<1>1. Init => ProviderInv
  BY InitProvider
<1>2. ProviderInv /\ [Next]_vars => ProviderInv'
  BY ProviderInvKept
<1>3. ProviderInv => ProfilesAreAtomic
  BY ProviderInvSays
<1> QED
  BY <1>1, <1>2, <1>3, PTL DEF Spec
=============================================================================

--------------------------- MODULE ProviderProfiles ---------------------------
(***************************************************************************)
(* The API profiles: each has a URL and a secret key, one is the default,  *)
(* and all of them are separate keys of the NVS, which can lose power, or  *)
(* answer that it does not know, between any two writes.  A profile has    *)
(* two generations; a change is staged in the idle one and takes effect    *)
(* with one byte, its selector.  The first profile is made from the        *)
(* settings of an older firmware, which stay in force until the schema     *)
(* marker is written, or from what the provisioning portal was given.      *)
(*                                                                         *)
(* Every operation is a plan: a set of writes carried out one by one, in   *)
(* the order of their phases and, within a phase, of their keys.  The NVS  *)
(* itself (one key is written or not) is external.  All the API keys are   *)
(* taken to have one length: the metadata also repeats the length, which   *)
(* would only tell some of the mismatches the revision is there to tell.   *)
(***************************************************************************)
EXTENDS Integers

CONSTANTS
  Slots,      \* places for a profile, kMaximumApiProfiles
  Url, Key,   \* base URLs and API keys, positive numbers
  MaxOps,     \* operations of the user
  MaxFaults,  \* writes that fail
  MaxResets

ASSUME ProviderAssumption ==
  /\ Slots \in Nat \ {0} /\ Url \subseteq Nat \ {0} /\ Key \subseteq Nat \ {0}
  /\ {MaxOps, MaxFaults, MaxResets} \subseteq Nat

VARIABLES
  nvs,      \* what is stored under each key; <<>> when nothing is
  state,    \* state_
  blocked,  \* profileMutationBlocked_
  again,    \* migrationRetryAllowed_
  surface,  \* who runs: the device's own screens or the Web Console
  hot,      \* the default URL and key each of them holds: settings, consoleSettings
  op,       \* the operation under way
  report,   \* what the user was told of the last one
  seen,     \* every <<id, revision, url, key>> a request could have used
  trouble,  \* a write has failed since the start
  left      \* what is left of the bounds, and the next identifier

vars == <<nvs, state, blocked, again, surface, hot, op, report, seen, trouble, left>>

Slot == 0..Slots - 1
Generation == {0, 1}
Surface == {"device", "web"}

SelectorKey(s) == <<"sel", s, 0>>
MetadataKey(s, g) == <<"meta", s, g>>
SecretKey(s, g) == <<"secret", s, g>>
DefaultKey == <<"default", 0, 0>>
SchemaKey == <<"schema", 0, 0>>
PresetKey == <<"preset", 0, 0>>
LegacyKey == <<"legacyKey", 0, 0>>
LegacyUrl == <<"legacyUrl", 0, 0>>

RecordKey ==
  {MetadataKey(s, g) : s \in Slot, g \in Generation}
    \cup {SecretKey(s, g) : s \in Slot, g \in Generation}
NvsKey == {SelectorKey(s) : s \in Slot} \cup RecordKey
            \cup {DefaultKey, SchemaKey, PresetKey, LegacyKey, LegacyUrl}

Absent == <<>>
Drop(k, phase) == [phase |-> phase, key |-> k, value |-> Absent]
Put(k, v, phase) == [phase |-> phase, key |-> k, value |-> v]

-----------------------------------------------------------------------------
(* What is in force in a state n of the NVS.                               *)

Has(n, k) == n[k] # Absent
Present(plan) == {w \in plan : Has(nvs, w.key)}

Chosen(n, s) == n[SelectorKey(s)][1]
Metadata(n, s) == n[MetadataKey(s, Chosen(n, s))]
Secret(n, s) == n[SecretKey(s, Chosen(n, s))]

Used(n) == {s \in Slot : Has(n, SelectorKey(s))}

(* A record is in use when it is of the chosen generation of its slot.     *)
InUse(n, r) == r[2] \in Used(n) /\ Chosen(n, r[2]) = r[3]

(* A profile is complete when both halves are there, of one revision.      *)
Complete(n, s) ==
  /\ Metadata(n, s) # Absent /\ Secret(n, s) # Absent
  /\ Metadata(n, s)[2] = Secret(n, s)[1]

(* Its identifier, revision, URL and key.                                  *)
Profile(n, s) == <<Metadata(n, s)[1], Metadata(n, s)[2], Metadata(n, s)[3], Secret(n, s)[2]>>

Known(n) == {s \in Used(n) : Complete(n, s)}
Profiles(n) == {Profile(n, s) : s \in Known(n)}

Legacy(n) == <<IF Has(n, LegacyUrl) THEN n[LegacyUrl][1] ELSE 0,
               IF Has(n, LegacyKey) THEN n[LegacyKey][1] ELSE 0>>

Sound(n) ==
  /\ Has(n, DefaultKey) /\ Used(n) # {} /\ Known(n) = Used(n)
  /\ \E p \in Profiles(n) : p[1] = n[DefaultKey][1]

DefaultProfile(n) == CHOOSE p \in Profiles(n) : p[1] = n[DefaultKey][1]
DefaultCredentials(n) == <<DefaultProfile(n)[3], DefaultProfile(n)[4]>>

(* The profiles, the default's URL and key, and the model preset in force. *)
AuthorityOf(n) ==
  IF ~Has(n, SchemaKey) THEN [profiles |-> {}, default |-> Legacy(n), preset |-> Absent]
  ELSE [profiles |-> Profiles(n), preset |-> n[PresetKey],
        default |-> IF Sound(n) THEN DefaultCredentials(n) ELSE <<>>]
Authority == AuthorityOf(nvs)

-----------------------------------------------------------------------------
(* Operations.                                                             *)

NoOp == [kind |-> "none"]
NoReport == [verdict |-> "none"]

Idle == op.kind = "none"
Alive == state # "off"
Mutable == state = "ready" /\ Idle /\ left.ops > 0

Start(kind, plan, after) ==
  /\ op' = [kind |-> kind, plan |-> plan, before |-> Authority, after |-> after,
            reload |-> after.default # Authority.default]
  /\ report' = NoReport

Verdict(v) == [verdict |-> v, before |-> op.before, after |-> op.after]

Spend == left' = [left EXCEPT !.ops = @ - 1]

SpendFresh == left' = [left EXCEPT !.ops = @ - 1, !.id = @ + 1]

Stage(s, g, id, rev, url, key) ==
  {Put(MetadataKey(s, g), <<id, rev, url>>, "stage"), Put(SecretKey(s, g), <<rev, key>>, "stage")}

Prepare(s, g) == Present({Drop(MetadataKey(s, g), "prepare"), Drop(SecretKey(s, g), "prepare")})

Cleanup(s, g) == Present({Drop(MetadataKey(s, g), "cleanup"), Drop(SecretKey(s, g), "cleanup")})

Free == Slot \ Used(nvs)

CreateProfile ==
  /\ Mutable /\ ~blocked /\ Free # {}
  /\ \E url \in Url, key \in Key :
       LET s == CHOOSE c \in Free : \A d \in Free : c =< d
           id == left.id
       IN Start("create",
                Prepare(s, 0) \cup Prepare(s, 1) \cup Stage(s, 0, id, 1, url, key)
                  \cup {Put(SelectorKey(s), <<0>>, "commit")},
                [Authority EXCEPT !.profiles = @ \cup {<<id, 1, url, key>>}])
  /\ SpendFresh
  /\ UNCHANGED <<nvs, state, blocked, again, surface, hot, trouble>>

NextRevision(p, url, key) == IF url # p[3] \/ key # p[4] THEN p[2] + 1 ELSE p[2]

OtherGeneration(g) == 1 - g

IsDefault(p) == p[1] = nvs[DefaultKey][1]

Update(s, url, key) ==
  LET p == Profile(nvs, s)
      g == OtherGeneration(Chosen(nvs, s))
      rev == NextRevision(p, url, key)
  IN Start("update",
           Prepare(s, g) \cup Stage(s, g, p[1], rev, url, key)
             \cup {Put(SelectorKey(s), <<g>>, "commit")} \cup Cleanup(s, Chosen(nvs, s)),
           [Authority EXCEPT !.profiles = (@ \ {p}) \cup {<<p[1], rev, url, key>>},
                             !.default = IF IsDefault(p) THEN <<url, key>> ELSE @])

(* The key is kept when none is given, as when only the default's URL is   *)
(* edited; the provisioning portal changes both of the default.            *)
UpdateProfile ==
  /\ Mutable /\ ~blocked
  /\ \E s \in Known(nvs), url \in Url, key \in Key : Update(s, url, key)
  /\ Spend
  /\ UNCHANGED <<nvs, state, blocked, again, surface, hot, trouble>>

SetDefaultProfile ==
  /\ Mutable
  /\ \E p \in Profiles(nvs) :
       /\ ~IsDefault(p)
       /\ Start("default", {Put(DefaultKey, <<p[1]>>, "commit")},
                [Authority EXCEPT !.default = <<p[3], p[4]>>])
  /\ Spend
  /\ UNCHANGED <<nvs, state, blocked, again, surface, hot, trouble>>

Deletable(p) == ~IsDefault(p)

DeleteProfile ==
  /\ Mutable /\ ~blocked
  /\ \E s \in Known(nvs) :
       /\ Deletable(Profile(nvs, s))
       /\ Start("delete",
                {Drop(SelectorKey(s), "commit")} \cup Cleanup(s, 0) \cup Cleanup(s, 1),
                [Authority EXCEPT !.profiles = @ \ {Profile(nvs, s)}])
  /\ Spend
  /\ UNCHANGED <<nvs, state, blocked, again, surface, hot, trouble>>

(* A model preset is one value, created, replaced or deleted with one      *)
(* write.                                                                  *)
ChangePreset ==
  /\ Mutable
  /\ LET v == IF Has(nvs, PresetKey) THEN Absent ELSE <<left.ops>>
     IN \E w \in {v, <<left.ops>>} :
          Start("preset", {Put(PresetKey, w, "commit")}, [Authority EXCEPT !.preset = w])
  /\ Spend
  /\ UNCHANGED <<nvs, state, blocked, again, surface, hot, trouble>>

-----------------------------------------------------------------------------
(* The first profile, and the start.                                       *)

\* Mutant: the schema marker is written with the profile.
InitialPlanSchemaFirst(id, url, key) ==
  Stage(0, 0, id, 1, url, key)
    \cup {Put(SchemaKey, <<1>>, "stage"), Put(SelectorKey(0), <<0>>, "commit"),
          Put(DefaultKey, <<id>>, "commit")}

(* cleanupMigrationKeys clears whatever an earlier attempt left; the       *)
(* marker comes last.                                                      *)
InitialPlan(id, url, key) ==
  Present({Drop(k, "prepare") : k \in NvsKey \ {SchemaKey, LegacyKey, LegacyUrl}})
    \cup Stage(0, 0, id, 1, url, key)
    \cup {Put(SelectorKey(0), <<0>>, "commit"), Put(DefaultKey, <<id>>, "commit"),
          Put(SchemaKey, <<1>>, "commit")}

StartInitial(kind, url, key) ==
  /\ Start(kind, InitialPlan(left.id, url, key),
           [profiles |-> {<<left.id, 1, url, key>>}, default |-> <<url, key>>, preset |-> Absent])
  /\ UNCHANGED <<nvs, blocked>>

(* inspectReadyStore: what is not in use goes, then the older firmware's   *)
(* settings.                                                               *)
InspectPlan ==
  Present({Drop(k, "cleanup") : k \in {r \in RecordKey : ~InUse(nvs, r)}}
            \cup {Drop(LegacyKey, "legacy"), Drop(LegacyUrl, "legacy")})

Boot ==
  /\ state = "off" /\ Idle
  /\ IF Has(nvs, SchemaKey)
       THEN IF Sound(nvs)
              THEN /\ Start("inspect", InspectPlan, Authority)
                   /\ state' = "ready" /\ again' = FALSE
                   /\ hot' = [s \in Surface |-> DefaultCredentials(nvs)]
                   /\ UNCHANGED <<nvs, blocked, left>>
              ELSE /\ state' = "corrupt"
                   /\ UNCHANGED <<nvs, blocked, again, op, report, left, hot>>
       ELSE /\ again' = TRUE
            /\ hot' = [s \in Surface |-> Legacy(nvs)]
            /\ IF Legacy(nvs) = <<0, 0>>
                 THEN state' = "unconfigured" /\ UNCHANGED <<nvs, blocked, op, report, left>>
                 ELSE /\ state' = "legacy"
                      /\ IF 0 \in {Legacy(nvs)[1], Legacy(nvs)[2]}
                           THEN UNCHANGED <<nvs, blocked, op, report, left>>
                           ELSE /\ StartInitial("migrate", Legacy(nvs)[1], Legacy(nvs)[2])
                                /\ left' = [left EXCEPT !.id = @ + 1]
  /\ UNCHANGED <<surface, trouble>>

(* The device's menu offers to try the migration again.                    *)
RetryMigration ==
  /\ state = "legacy" /\ again /\ ~blocked /\ Idle /\ left.ops > 0 /\ surface = "device"
  /\ 0 \notin {Legacy(nvs)[1], Legacy(nvs)[2]}
  /\ StartInitial("migrate", Legacy(nvs)[1], Legacy(nvs)[2])
  /\ SpendFresh
  /\ UNCHANGED <<state, again, surface, hot, trouble>>

(* The portal writes the first profile; with settings of an older firmware *)
(* retained, what was submitted replaces them.  It restarts the device     *)
(* once the other settings are saved.                                      *)
Provision ==
  /\ Idle /\ ~blocked /\ left.ops > 0 /\ surface = "device"
  /\ \E url \in Url, key \in Key :
       \/ state = "unconfigured" /\ StartInitial("bootstrap", url, key)
       \/ state = "legacy" /\ again /\ StartInitial("migrate", url, key)
  /\ SpendFresh
  /\ UNCHANGED <<state, again, surface, hot, trouble>>

-----------------------------------------------------------------------------
(* One write.                                                              *)

(* What an earlier attempt left goes first; slot by slot, a selector       *)
(* before its records; the default before the marker.                      *)
PhaseNo == [prepare |-> 0, stage |-> 1, commit |-> 2, cleanup |-> 3, legacy |-> 4]
Rank(k) ==
  CASE k[1] = "sel" -> 5 * k[2]
    [] k[1] = "meta" -> 5 * k[2] + 2 * k[3] + 1
    [] k[1] = "secret" -> 5 * k[2] + 2 * k[3] + 2
    [] OTHER -> 5 * Slots + [preset |-> 0, default |-> 1, schema |-> 2,
                             legacyKey |-> 3, legacyUrl |-> 4][k[1]]
Sooner(v, w) ==
  \/ PhaseNo[v.phase] < PhaseNo[w.phase]
  \/ v.phase = w.phase /\ Rank(v.key) < Rank(w.key)

Next1 == CHOOSE w \in op.plan : \A v \in op.plan : ~Sooner(v, w)
Rest == op.plan \ {Next1}
Initial == op.kind \in {"bootstrap", "migrate"}
Committed == Next1.phase \in {"cleanup", "legacy"}
Store == [nvs EXCEPT ![Next1.key] = Next1.value]

Busy == ~Idle

Write ==
  /\ Busy /\ op.plan # {}
  /\ nvs' = Store
  /\ op' = [op EXCEPT !.plan = Rest]
  /\ UNCHANGED <<state, blocked, again, surface, hot, report, trouble, left>>

(* After a committed change of the default, whoever made it reads it anew. *)
Reloaded == op.reload

Refresh ==
  hot' = IF Reloaded /\ Has(nvs, SchemaKey) /\ Sound(nvs)
         THEN [hot EXCEPT ![surface] = DefaultCredentials(nvs)] ELSE hot

(* The plan is done: after the initial store's last write it is inspected, *)
(* anything else is reported.                                              *)
Finish ==
  /\ Busy /\ op.plan = {}
  /\ IF Initial
       THEN /\ op' = [op EXCEPT !.kind = "inspect", !.plan = InspectPlan]
            /\ state' = "ready" /\ again' = FALSE
            /\ UNCHANGED <<hot, report>>
       ELSE /\ op' = NoOp /\ report' = Verdict("saved")
            /\ Refresh
            /\ UNCHANGED <<state, again>>
  /\ UNCHANGED <<nvs, blocked, surface, trouble, left>>

(* After the commit: what is saved is saved, the rest of the cleanup waits *)
(* for the next start, and until then the profiles cannot be changed,      *)
(* unless only the older firmware's settings were left to remove.          *)
CleanupFails ==
  /\ Busy /\ op.plan # {} /\ Committed /\ left.faults > 0
  /\ \E done \in BOOLEAN : nvs' = IF done THEN Store ELSE nvs
  /\ blocked' = (blocked \/ Next1.phase = "cleanup")
  /\ op' = NoOp /\ report' = Verdict("saved")
  /\ Refresh
  /\ trouble' = TRUE
  /\ left' = [left EXCEPT !.faults = @ - 1]
  /\ UNCHANGED <<state, again, surface>>

Outcome(unknown) == IF unknown THEN "unknown" ELSE "failed"

(* Before or at the commit: a failure is known to have changed nothing, or *)
(* its outcome is unknown, and the store is not used until it can be read  *)
(* at the next start.                                                      *)
WriteFails ==
  /\ Busy /\ op.plan # {} /\ ~Committed /\ left.faults > 0
  /\ \E unknown \in BOOLEAN, done \in BOOLEAN :
       LET commit == Next1.phase = "commit"
       IN /\ unknown \/ ~done
          /\ nvs' = IF done THEN Store ELSE nvs
          /\ blocked' = (blocked \/ (unknown /\ op.kind \notin {"default", "delete", "preset"}))
          /\ report' = Verdict(Outcome(unknown))
          /\ IF Initial
               THEN /\ state' = (IF unknown /\ (Next1.key = SchemaKey \/ (commit /\ op.kind = "migrate"))
                                   THEN "uncertain"
                                 ELSE IF op.kind = "migrate" THEN "legacy" ELSE "unconfigured")
                    /\ again' = (op.kind = "migrate" /\ ~unknown)
               ELSE /\ state' = (IF unknown /\ commit THEN "uncertain" ELSE state)
                    /\ UNCHANGED again
  /\ op' = NoOp
  /\ trouble' = TRUE
  /\ left' = [left EXCEPT !.faults = @ - 1]
  /\ UNCHANGED <<surface, hot>>

-----------------------------------------------------------------------------
(* The surfaces, and the reset.                                            *)

(* The Web Console works on a copy of the device's settings, which the     *)
(* device reads anew when the console closes, if the store can be read.    *)
OpenWebConsole ==
  /\ Idle /\ state \in {"ready", "legacy"} /\ surface = "device"
  /\ surface' = "web"
  /\ hot' = [hot EXCEPT !["web"] = hot["device"]]
  /\ UNCHANGED <<nvs, state, blocked, again, op, report, trouble, left>>

ReloadOnClose ==
  IF state = "ready" /\ Sound(nvs) THEN DefaultCredentials(nvs)
  ELSE IF state = "legacy" THEN Legacy(nvs) ELSE hot["device"]

CloseWebConsole ==
  /\ Idle /\ surface = "web"
  /\ surface' = "device"
  /\ hot' = [hot EXCEPT !["device"] = ReloadOnClose]
  /\ UNCHANGED <<nvs, state, blocked, again, op, report, trouble, left>>

Reset ==
  /\ Alive /\ left.resets > 0
  /\ state' = "off" /\ blocked' = FALSE /\ again' = FALSE /\ surface' = "device"
  /\ op' = NoOp
  /\ report' = IF Busy THEN Verdict("unknown") ELSE report
  /\ trouble' = FALSE
  /\ left' = [left EXCEPT !.resets = @ - 1]
  /\ UNCHANGED <<nvs, hot>>

Init ==
  /\ nvs \in {[k \in NvsKey |-> IF k = LegacyUrl THEN u ELSE IF k = LegacyKey THEN y ELSE Absent] :
                u \in {<<1>>, Absent}, y \in {<<1>>, Absent}}
  /\ state = "off" /\ blocked = FALSE /\ again = FALSE /\ surface = "device"
  /\ hot = [s \in Surface |-> <<0, 0>>]
  /\ op = NoOp /\ report = NoReport /\ seen = {} /\ trouble = FALSE
  /\ left = [ops |-> MaxOps, faults |-> MaxFaults, resets |-> MaxResets, id |-> 1]

Operate == \/ CreateProfile \/ UpdateProfile \/ SetDefaultProfile \/ DeleteProfile \/ ChangePreset
           \/ RetryMigration \/ Provision

Next ==
  /\ \/ Operate \/ Write \/ Finish \/ CleanupFails \/ WriteFails
     \/ OpenWebConsole \/ CloseWebConsole \/ Boot \/ Reset
  /\ seen' = seen \cup (IF state' = "ready" THEN Authority.profiles' ELSE {})

Spec == Init /\ [][Next]_vars

-----------------------------------------------------------------------------
(* The values of the variables; every profile's identifier was new.        *)
TypeOK ==
  /\ DOMAIN nvs = NvsKey
  /\ state \in {"off", "unconfigured", "legacy", "ready", "uncertain", "corrupt"}
  /\ {blocked, again, trouble} \subseteq BOOLEAN /\ surface \in Surface
  /\ report.verdict \in {"none", "saved", "failed", "unknown"}
  /\ DOMAIN hot = Surface /\ {left.ops, left.faults, left.resets, left.id} \subseteq Nat
  /\ \A s \in Slot, g \in Generation :
       Has(nvs, MetadataKey(s, g)) => nvs[MetadataKey(s, g)][1] < left.id

(* Wherever power is lost or a write fails, what is in force is what was   *)
(* before the operation or what it asked for, whole; and it is what the    *)
(* user was told, unless he was told that nobody knows.  Without a schema  *)
(* marker what is in force is the older firmware's settings, so this is    *)
(* also why a migration cannot lose them.                                  *)
OldOrNew ==
  /\ Busy => Authority \in {op.before, op.after}
  /\ report.verdict = "saved" => Authority = report.after
  /\ report.verdict = "failed" => Authority = report.before
  /\ report.verdict = "unknown" => Authority \in {report.before, report.after}

(* No failure and no reset leaves a store the next start refuses, which    *)
(* would stop the device for good.                                         *)
NeverCorrupt == state # "corrupt"

(* Two requests that saw the same profile at the same revision went to the *)
(* same URL with the same key: the approvals of tool calls are bound to    *)
(* the revision and to nothing else of the profile.                        *)
RevisionTellsChange ==
  \A p \in seen, q \in seen : p[1] = q[1] /\ p[2] = q[2] => p = q

(* Unless a write has failed since the start, no API key stays in the NVS  *)
(* that no profile uses: not the old key of a profile whose key was        *)
(* changed, not a deleted profile's, and not the older firmware's.         *)
SecretsAreInUse ==
  state = "ready" /\ Idle /\ ~trouble =>
    /\ ~Has(nvs, LegacyKey)
    /\ \A s \in Slot, g \in Generation :
         Has(nvs, SecretKey(s, g)) => InUse(nvs, SecretKey(s, g))

(* The settings the surface in the foreground holds are those of the       *)
(* default profile.                                                        *)
HotIsDefault == state = "ready" /\ Idle => hot[surface] = DefaultCredentials(nvs)

(* Of the store and what is sent with it: every operation is done or not   *)
(* done, no key outlives its profile, and requests use what is in force.   *)
ProfilesAreAtomic ==
  /\ TypeOK
  /\ OldOrNew /\ NeverCorrupt /\ SecretsAreInUse
  /\ RevisionTellsChange /\ HotIsDefault
=============================================================================

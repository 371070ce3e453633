----------------------------- MODULE SshProfiles -----------------------------
(***************************************************************************)
(* The SSH profiles and private keys that ssh_client.cpp keeps in the NVS  *)
(* namespace "cardmind_ssh".  Every key of the namespace is stored on its  *)
(* own; there is no transaction, so an operation is the order in which it  *)
(* writes.  The main loop runs one operation at a time, and it computes    *)
(* everything it writes from what it reads first: an operation is a PLAN,  *)
(* a sequence of writes and checks that the actions execute one by one,    *)
(* while a write may be refused (NVS is full) and a reset may fall between *)
(* any two.                                                                *)
(*                                                                         *)
(* What a profile consists of is abstracted to its public part (n h p u),  *)
(* its secret part (w a k), its id (i) and its key reference (q); a value  *)
(* tells whose it is, so that a mix of two profiles can be seen.           *)
(***************************************************************************)
EXTENDS Integers, SequencesExt

CONSTANTS MaxProfiles,    \* kMaximumSshProfiles; there is one key record more
          Id,     \* profile ids
          Legacy, \* the one a profile stored without index gets, if there is one
          Card,   \* the owner of the key that older firmware kept on the card
          None,   \* a key that NVS does not hold
          MaxFaults \* bound on resets and refused writes

ASSUME MaxAssumption == MaxProfiles \in Nat \ {0}
ASSUME FaultsAssumption == MaxFaults \in Nat
ASSUME MarkersAssumption == Legacy \in Id /\ Card \notin Id /\ None \notin Id \cup {Card}

VARIABLES nvs,    \* every stored value, and the legacy key file on the card
          todo,   \* what is left of the plan in progress
          op,     \* the operation it belongs to
          failed, \* a write of it was refused
          picks,  \* history: the profiles that may be the selected one
          torn,   \* history: profiles whose last edit did not complete
          gone,   \* history: profiles deleted with success
          cut,    \* history: what did not complete
          owed,   \* history: the legacy key has not been replaced or deleted
          faults  \* resets and refused writes so far

history == <<picks, torn, gone, cut, owed>>
vars == <<nvs, todo, op, failed, history, faults>>

Idx == 0..(MaxProfiles - 1)
Slot == 0..MaxProfiles
Content == Id \X {1, 2}            \* whose, and which edit of it
Half == <<Legacy, 0>>              \* of the profile without index, all but the host is gone
Key == (Id \cup {Card}) \X {1, 2}  \* whose private key, and which one
Stored == [cnt : [{0} -> Idx \cup {MaxProfiles, None}], sel : [{0} -> Idx],
           pub : [Idx -> Content \cup {None}], secret : [Idx -> Content \cup {None}],
           pid : [Idx -> Id \cup {None}], ref : [Idx -> Key \cup {None}],
           rid : [Slot -> Key \cup {None}], blob : [Slot -> Key \cup {None}],
           owner : [{0} -> Key \cup {None}], legacy : [{0} -> Content \cup {Half, None}],
           file : [{0} -> {Card, None}]]
OpName == {"none", "init", "save", "create", "select", "delete", "install"}

TypeOK ==
  /\ nvs \in Stored /\ failed \in BOOLEAN /\ owed \in BOOLEAN
  /\ op \in [name : OpName, id : Id \cup {None}, migrates : BOOLEAN]
  /\ {picks, torn, gone} \subseteq SUBSET Id /\ faults \in 0..MaxFaults
  /\ cut \subseteq {"deletion", "creation", "migration"}

-----------------------------------------------------------------------------
(* Reading: n is a state of NVS                                            *)

Count(n) == IF n.cnt[0] = None THEN 0 ELSE n.cnt[0]
Unindexed(n) == Count(n) = 0 /\ n.legacy[0] # None
Logical(n) == IF Unindexed(n) THEN 1 ELSE Count(n)
Active(n) == 0..(Logical(n) - 1)
Public(n, i) ==
  IF Count(n) # 0 THEN n.pub[i] ELSE IF n.legacy[0] = Half THEN None ELSE n.legacy[0]
Secret(n, i) == IF Count(n) = 0 THEN n.legacy[0] ELSE n.secret[i]
Selected(n) == IF Count(n) = 0 THEN 0 ELSE n.sel[0]

\* loadSshProfileSummaries: what it accepts, and the ids it gives to profiles
\* of older firmware.  (A random new id is that of the profile's content.)
Loads(n) ==
  /\ Selected(n) \in Active(n) \cup {0}
  /\ \A i \in Active(n) : Public(n, i) # None
  /\ \A i, j \in Active(n) : i # j /\ n.pid[i] = n.pid[j] => n.pid[i] = None
IdOf(n, i) == IF n.pid[i] = None THEN Public(n, i)[1] ELSE n.pid[i]

Refs(n) == {n.ref[i] : i \in Active(n)} \ {None}
Complete(n, k) == \E s \in Slot : n.rid[s] = k /\ n.blob[s] # None

-----------------------------------------------------------------------------
(* Plans.  "go": a refusal is remembered; "and": and the rest of the chain  *)
(* for this position is not tried; "try": ignored; "must": the end; "undo": *)
(* the records are cleaned up first.  Check ends an operation with a        *)
(* remembered refusal, Stop in any case; Verify reads back what was written.*)

W(field, i, value, mode) == [field |-> field, at |-> i, value |-> value, mode |-> mode]
Check == W("none", 0, None, "check")
Stop == W("none", 0, None, "stop")
Verify(list, sel) == W("none", sel, list, "verify")
Writing == {"go", "and", "try", "must", "undo"}
Effect(n, w) ==
  IF w.mode \in Writing THEN [n EXCEPT ![w.field][w.at] = w.value] ELSE n
After(n, plan) == FoldLeft(Effect, n, plan)
\* Without the writes that change nothing: no key is written twice in a plan.
Needed(n, plan) ==
  LET Add(acc, w) ==
        IF w.mode \in Writing /\ Effect(acc[1], w) = acc[1] THEN acc
        ELSE <<Effect(acc[1], w), Append(acc[2], w)>>
  IN FoldLeft(Add, <<n, <<>>>>, plan)[2]
\* Steps(i) for every i of a range, in order
ForEach(from, to, Steps(_)) ==
  FlattenSeq([j \in 1..(to - from + 1) |-> Steps(from + j - 1)])

\* assignMissingSshProfileIds
Assign(n) ==
  LET Missing(i) == IF n.pid[i] = None THEN <<W("pid", i, IdOf(n, i), "must")>> ELSE <<>>
  IN ForEach(0, Logical(n) - 1, Missing)

\* cleanupSshPrivateKeyRecords: the unreferenced records go, unless a reference
\* is not understood.
Cleanup(n) ==
  LET claimed == n.owner[0] \in Refs(n)
      kept == Refs(n) \cup (IF claimed THEN {} ELSE {n.owner[0]} \ {None})
      Drop(s) ==
        IF n.rid[s] \in kept \/ (n.rid[s] = None /\ n.blob[s] = None) THEN <<>>
        ELSE <<W("rid", s, None, "go"), W("blob", s, None, "go"), Check>>
  IN IF Logical(n) = 0 /\ \E i \in Idx : n.ref[i] # None THEN <<Stop>>
     ELSE (IF claimed THEN <<W("owner", 0, None, "must")>> ELSE <<>>)
          \o (IF \A k \in kept : Complete(n, k) THEN ForEach(0, MaxProfiles, Drop)
              ELSE <<Stop>>)

\* createSshPrivateKeyRecord, behind its cleanup: the record first, then its id
FreeSlots(n) == {s \in Slot : n.rid[s] = None /\ n.blob[s] = None}
Create(n, k) ==
  IF FreeSlots(n) = {} THEN <<Stop>>
  ELSE LET s == CHOOSE s \in FreeSlots(n) : \A t \in FreeSlots(n) : s <= t
       IN <<W("blob", s, k, "undo"), W("rid", s, k, "undo")>>
\* Which of two unused ids a new record gets does not matter.
Fresh(n, k, who) ==
  LET used == {n.rid[s] : s \in Slot}
  IN k[1] = who /\ k \notin used /\ (k[2] = 2 => <<who, 1>> \in used)

\* writeIndexedProfile and the id: a profile is [pub, secret, pid, ref]
Put(k, p) ==
  <<W("pub", k, p.pub, "and"), W("secret", k, p.secret, "and"), W("ref", k, p.ref, "go")>>
PutId(k, p, mode) == <<W("pid", k, p.pid, mode)>>
\* removeIndexedProfile
RemoveProfile(k, mode) ==
  <<W("pub", k, None, mode), W("secret", k, None, mode),
    W("pid", k, None, mode), W("ref", k, None, mode)>>
\* Mutant: the public and secret parts before the id, as it once was.
ShiftIdLast(k, p) == Put(k, p) \o <<Check>> \o PutId(k, p, "must")
\* One turn of the loop of writeProfilesAfterIndexedDelete: while the id is
\* stored twice, nothing loads.
Shift(k, p) == PutId(k, p, "must") \o Put(k, p) \o <<Check>>

\* verifyWrittenSshProfiles: number, selection, ids and key references are those
\* of the list, and behind it there are none.
Verified(n, list, sel) ==
  /\ Loads(n) /\ Logical(n) = Len(list) /\ (list # <<>> => Selected(n) = sel)
  /\ \A i \in Idx :
       IF i < Len(list) THEN n.pid[i] = list[i + 1].pid /\ n.ref[i] = list[i + 1].ref
       ELSE n.pid[i] = None /\ n.ref[i] = None

\* writeProfiles: all of a list
WriteProfiles(n, list, sel) ==
  LET Write(k) == Put(k, list[k + 1]) \o PutId(k, list[k + 1], "go")
      Drop(k) == RemoveProfile(k, "and")
  IN Cleanup(n)
     \o ForEach(0, Len(list) - 1, Write)
     \o ForEach(Len(list), MaxProfiles - 1, Drop)
     \o <<W("cnt", 0, Len(list), "go"), W("sel", 0, sel, "go"),
          W("legacy", 0, None, "try"), Check, Verify(list, sel)>>
Profiles(n) ==
  [k \in 1..Logical(n) |->
     [pub |-> Public(n, k - 1), secret |-> Secret(n, k - 1),
      pid |-> IdOf(n, k - 1), ref |-> n.ref[k - 1]]]

\* saveSshProfileAt for a stored profile
SavePlan(n, i) ==
  LET old == Profiles(n)[i + 1]
      edit == <<old.pub[1], 2>>
      new == [old EXCEPT !.pub = edit, !.secret = edit]
  IN Assign(n) \o WriteProfiles(n, [Profiles(n) EXCEPT ![i + 1] = new], Selected(n))

\* saveSshProfileAt for a new one: the first takes over the legacy key.
CreatePlan(n, x) ==
  LET takes == Logical(n) = 0 /\ n.owner[0] # None
      new == [pub |-> <<x, 1>>, secret |-> <<x, 1>>, pid |-> x,
              ref |-> IF takes THEN n.owner[0] ELSE None]
  IN Assign(n) \o WriteProfiles(n, Append(Profiles(n), new), Logical(n))
     \o (IF takes THEN <<W("owner", 0, None, "try")>> ELSE <<>>)

\* deleteSshProfile: the index of the selected profile without profile i
SelectedAfter(n, i) ==
  IF Logical(n) = 1 THEN 0
  ELSE IF Selected(n) > i THEN Selected(n) - 1
  ELSE IF Selected(n) >= Logical(n) - 1 THEN Logical(n) - 2
  ELSE Selected(n)

\* writeProfilesAfterIndexedDelete: the count, written last, is the commit.  It
\* begins only if it is the number of profiles (not so for one without index).
DeletePlan(n, i) ==
  LET list == RemoveAt(Profiles(n), i + 1)
      sel == SelectedAfter(n, i)
      Turn(k) == Shift(k, list[k + 1])
      Drop(k) == RemoveProfile(k, "must")
      ready == Assign(n) \o Cleanup(n)
      commit == ready \o ForEach(i, Len(list) - 1, Turn)
                \o ForEach(Len(list), MaxProfiles - 1, Drop)
                \o <<W("sel", 0, sel, "must"), W("cnt", 0, Len(list), "must"),
                     Verify(list, sel)>>
  IN CASE n.cnt[0] = None -> Assign(n) \o WriteProfiles(n, list, sel)
       [] n.cnt[0] = Logical(n) -> commit \o Cleanup(After(n, commit))
       [] OTHER -> ready \o <<Stop>>

\* installSshPrivateKey for the profile at i
InstallPlan(n, i, k) ==
  LET cleaned == Assign(n) \o Cleanup(n)
  IN cleaned \o Create(After(n, cleaned), k) \o <<W("ref", i, k, "undo")>>

\* migrateLegacySshPrivateKey with the record k
Migrate(n, k) ==
  (IF Complete(n, k) THEN <<>> ELSE Create(n, k))
  \o (IF Logical(n) = 0 THEN <<W("owner", 0, k, "must")>>
      ELSE LET Bind(i) == IF n.ref[i] = None THEN <<W("ref", i, k, "must")>> ELSE <<>>
           IN ForEach(0, Logical(n) - 1, Bind)
              \o (IF n.owner[0] # None THEN <<W("owner", 0, None, "must")>> ELSE <<>>))
  \o <<W("file", 0, None, "must")>>

\* The one record that profiles and owner may refer to while the file is there
Migrating(n) == Refs(n) \cup ({n.owner[0]} \ {None})
InitPlan(n, k) ==
  LET ready == Assign(n) \o Cleanup(n)
      m == After(n, ready)
  IN ready
     \o (IF m.file[0] = None THEN <<>>
         ELSE IF Migrating(m) \subseteq {k} /\ k[1] = Card THEN Migrate(m, k)
         ELSE <<Stop>>)
\* Any record that exists, or a new one when there is none
MigrationKey(n, k) ==
  k \in Key /\ IF Migrating(n) = {} THEN Fresh(n, k, Card) ELSE k \in Migrating(n)

-----------------------------------------------------------------------------
(* Operations                                                              *)

NoOp == [name |-> "none", id |-> None, migrates |-> FALSE]
Idle == op = NoOp
\* Every operation loads the profiles first, and ends there if they do not load.
Ready == Idle /\ Loads(nvs)
Begin(name, x, plan) ==
  /\ op' = [name |-> name, id |-> x, migrates |-> Unindexed(nvs)]
  /\ todo' = Needed(nvs, plan) /\ failed' = FALSE

\* What older firmware left: nothing, one profile without an index, or indexed
\* ones without ids; with or without a key on the card.
Empty ==
  [cnt |-> [i \in {0} |-> None], sel |-> [i \in {0} |-> 0],
   pub |-> [i \in Idx |-> None], secret |-> [i \in Idx |-> None],
   pid |-> [i \in Idx |-> None], ref |-> [i \in Idx |-> None],
   rid |-> [s \in Slot |-> None], blob |-> [s \in Slot |-> None],
   owner |-> [i \in {0} |-> None], legacy |-> [i \in {0} |-> None],
   file |-> [i \in {0} |-> None]]
One(x) ==
  [Empty EXCEPT !.cnt[0] = 1, !.pub[0] = <<x, 1>>, !.secret[0] = <<x, 1>>]
Init ==
  /\ \E old \in {Empty, [Empty EXCEPT !.legacy[0] = <<Legacy, 1>>]}
              \cup {One(x) : x \in Id \ {Legacy}} :
       \E f \in {Card, None} : nvs = [old EXCEPT !.file[0] = f]
  /\ todo = <<>> /\ op = NoOp /\ failed = FALSE
  /\ picks = (IF Logical(nvs) = 0 THEN {} ELSE {Public(nvs, 0)[1]})
  /\ torn = {} /\ gone = {} /\ cut = {} /\ owed = (nvs.file[0] = Card)
  /\ faults = 0

\* initializeSshStorage, at start
Initialize ==
  /\ Ready
  /\ \E k \in Key : MigrationKey(nvs, k) /\ Begin("init", None, InitPlan(nvs, k))
  /\ UNCHANGED <<nvs, history>>
\* installSshKeyFromWorkspace; handleSshKeyUploadData is Initialize, then this.
Install ==
  /\ Ready /\ Logical(nvs) > 0
  /\ LET i == Selected(nvs)
         x == IdOf(nvs, i)
     IN \E k \in Key :
          Fresh(nvs, k, x) /\ Begin("install", x, InstallPlan(nvs, i, k))
  /\ UNCHANGED <<nvs, history>>
\* saveSshProfile: the selected profile, edited; once (the bound on edits), or
\* again after an edit that did not complete
Save ==
  /\ Ready /\ Logical(nvs) > 0
  /\ LET i == Selected(nvs)
     IN /\ {Public(nvs, i), Secret(nvs, i)} # {<<Public(nvs, i)[1], 2>>}
        /\ Begin("save", IdOf(nvs, i), SavePlan(nvs, i))
  /\ UNCHANGED <<nvs, history>>
CreateProfile ==
  /\ Ready /\ Logical(nvs) < MaxProfiles
  /\ \E x \in Id \ gone :
       /\ \A i \in Active(nvs) : IdOf(nvs, i) # x
       /\ Begin("create", x, CreatePlan(nvs, x))
       /\ picks' = picks \cup {x}
  /\ UNCHANGED <<nvs, torn, gone, cut, owed>>
\* selectSshProfile
Select ==
  /\ Ready
  /\ \E i \in Active(nvs) \ {Selected(nvs)} :
       /\ Begin("select", IdOf(nvs, i), Assign(nvs) \o <<W("sel", 0, i, "must")>>)
       /\ picks' = picks \cup {IdOf(nvs, i)}
  /\ UNCHANGED <<nvs, torn, gone, cut, owed>>
\* deleteSshProfile
Delete ==
  /\ Ready
  /\ \E i \in Active(nvs) :
       /\ Begin("delete", IdOf(nvs, i), DeletePlan(nvs, i))
       /\ picks' = picks \cup
            (IF i = Selected(nvs) THEN {IdOf(nvs, j) : j \in Active(nvs) \ {i}} ELSE {})
  /\ UNCHANGED <<nvs, torn, gone, cut, owed>>

-----------------------------------------------------------------------------
(* Steps of a plan                                                         *)

End == op' = NoOp /\ todo' = <<>> /\ failed' = FALSE
ReplacesKey == op.name \in {"delete", "install"}
\* A save goes on behind a refused write: the profile without index is removed
\* although its place in the list has not been written.
CreationRefused == op.name = "create" /\ failed
MigrationRefused == op.migrates /\ op.name \in {"save", "create"} /\ failed
Fail ==
  /\ End
  /\ cut' = cut \cup (IF op.name = "delete" THEN {"deletion"} ELSE {})
                 \cup (IF CreationRefused THEN {"creation"} ELSE {})
                 \cup (IF MigrationRefused THEN {"migration"} ELSE {})
  /\ torn' = torn \cup (IF op.name = "save" THEN {op.id} ELSE {})
  /\ owed' = (owed /\ ~ReplacesKey)
  /\ picks' = picks \cup (IF Unindexed(nvs) THEN {Legacy} ELSE {})   \* alone again
  /\ UNCHANGED gone

head == Head(todo)
Stopped == /\ todo # <<>>
           /\ head.mode = "stop" \/ (head.mode = "check" /\ failed)
           /\ Fail /\ UNCHANGED nvs
Pass == todo' = Tail(todo) /\ UNCHANGED <<nvs, op, failed, history>>
Checked == todo # <<>> /\ head.mode = "check" /\ ~failed /\ Pass
ReadBack ==
  /\ todo # <<>> /\ head.mode = "verify"
  /\ IF Verified(nvs, head.value, head.at) THEN Pass ELSE Fail /\ UNCHANGED nvs
Write ==
  /\ todo # <<>> /\ head.mode \in Writing
  /\ nvs' = Effect(nvs, head) /\ todo' = Tail(todo)
  /\ UNCHANGED <<op, failed, history>>
\* The writes a refused one leaves to be tried
Others == LET Apart(w) == head.mode = "and" => w.mode # "and" \/ w.at # head.at
          IN SelectSeq(Tail(todo), Apart)
\* NVS refuses: it is full, or a value cannot be removed.
Refused ==
  /\ todo # <<>> /\ Effect(nvs, head) # nvs
  /\ \/ UNCHANGED nvs
     \/ head.field = "legacy" /\ nvs' = [nvs EXCEPT !.legacy[0] = Half]
  /\ \/ /\ head.mode \in {"go", "and", "try"}
        /\ todo' = Others /\ failed' = (failed \/ head.mode # "try")
        /\ UNCHANGED <<op, history>>
     \/ head.mode = "must" /\ Fail
     \/ /\ head.mode = "undo"
        /\ todo' = Needed(nvs, Cleanup(nvs)) \o <<Stop>> /\ UNCHANGED <<op, failed, history>>
Done ==
  /\ todo = <<>> /\ op.name # "none" /\ End
  /\ picks' = IF op.name \in {"select", "create"} THEN {op.id}
              ELSE IF Logical(nvs) = 0 THEN {} ELSE {IdOf(nvs, Selected(nvs))} \cap picks
  /\ torn' = IF op.name = "save" THEN torn \ {op.id} ELSE torn
  /\ gone' = IF op.name = "delete" THEN gone \cup {op.id} ELSE gone
  /\ owed' = (owed /\ ~ReplacesKey)
  /\ UNCHANGED <<nvs, cut>>
Reset == ~Idle /\ Fail /\ UNCHANGED nvs

Fault ==
  /\ faults < MaxFaults /\ faults' = faults + 1
  /\ Refused \/ Reset
Next ==
  \/ /\ \/ Initialize \/ Install \/ Save
        \/ CreateProfile \/ Select \/ Delete
        \/ Stopped \/ Checked \/ ReadBack \/ Write \/ Done
     /\ UNCHANGED faults
  \/ Fault
Spec == Init /\ [][Next]_vars

-----------------------------------------------------------------------------
(* Properties                                                              *)

\* A creation goes on behind a refused write: over what an earlier one, also
\* interrupted, has left behind the list, that makes one profile of two.
Overlaid == faults > 1 /\ (CreationRefused \/ "creation" \in cut)

\* Whatever write was the last before a reset or a refusal: a profile that
\* loads never has the secrets or the private key of another one.
CredentialsBelong ==
  Loads(nvs) /\ ~Overlaid => \A i \in Active(nvs) :
    /\ Public(nvs, i)[1] = IdOf(nvs, i)
    /\ Secret(nvs, i) # None => Secret(nvs, i)[1] = IdOf(nvs, i)
    /\ nvs.ref[i] # None => nvs.ref[i][1] \in {IdOf(nvs, i), Card}

\* A key that a profile refers to can be read, in every state.
ReferencedKeyIsThere == \A k \in Refs(nvs) : Complete(nvs, k)

\* An edit that does not complete mixes old and new only in its own profile,
\* although every save writes all of them.
OnlyEditedIsTorn ==
  Loads(nvs) /\ Idle /\ ~Overlaid => \A i \in Active(nvs) :
    Secret(nvs, i) \in {Public(nvs, i), None} \/ IdOf(nvs, i) \in torn

\* The selection is a position, and it still means the profile the user picked,
\* before or after whatever operation was cut (see EveryDeletionLasts for the
\* profile that comes back).
SelectionIsPicked ==
  Loads(nvs) /\ ~Overlaid /\ Count(nvs) > 0 /\ Legacy \notin gone =>
    IdOf(nvs, Selected(nvs)) \in picks

\* The key of older firmware is on the card or bound until the user replaces
\* it or deletes a profile; not so if a write was refused when the profile without
\* index was saved, which loses that profile.
LegacyKeyIsKept ==
  owed /\ ~ReplacesKey /\ ~MigrationRefused /\ "migration" \notin cut =>
    \/ nvs.file[0] = Card
    \/ \E k \in Refs(nvs) \cup ({nvs.owner[0]} \ {None}) :
         k[1] = Card /\ Complete(nvs, k)

\* A profile in the list that is saved, selected or given a key never stops the
\* list from loading: only a deletion that did not complete, or a refused write
\* of a creation or of the first list, does.
SavesNeverLock ==
  ~Loads(nvs) /\ Idle => cut # {}

\* A profile with an index that was deleted does not come back.
DeletedStaysDeleted ==
  Loads(nvs) /\ Idle /\ ~Overlaid =>
    \A i \in Active(nvs) : Public(nvs, i)[1] \notin gone \ {Legacy}

\* The same of every profile, once the deletion was answered with success.
EveryDeletionLasts ==
  Loads(nvs) /\ Idle =>
    \A i \in Active(nvs) : Public(nvs, i)[1] \notin gone

\* Of the stored profiles: each keeps its own secrets and its own key, only the
\* edited one can be torn, what was deleted stays away, and the selection means
\* the profile that was picked.
ProfilesKeepTheirOwn ==
  /\ TypeOK
  /\ CredentialsBelong /\ ReferencedKeyIsThere /\ OnlyEditedIsTorn
  /\ SelectionIsPicked /\ LegacyKeyIsKept /\ SavesNeverLock /\ DeletedStaysDeleted
=============================================================================

----------------------------- MODULE ProjectStore -----------------------------
(***************************************************************************)
(* The projects, their chats and their links to Shared files, as they lie  *)
(* on the card.  What belongs together is spread over files that are each  *)
(* replaced atomically (module AtomicFile), but one after the other: the   *)
(* project index repeats the summary in a project's metadata, which counts *)
(* the lines of the project's chat index, which repeats the summary in the *)
(* metadata of a chat.  An operation of the main loop is a plan, a         *)
(* sequence of such replacements; behind a replacement that fails come the *)
(* writes that undo what was done.  A reset may fall between any two.      *)
(*                                                                         *)
(* At every start the whole of it is validated, and storage stays closed   *)
(* when anything does not fit.  Of the contents, summaries are abstracted  *)
(* to their revision, the history of a chat to its being there (module     *)
(* ChatHistory has it).                                                    *)
(***************************************************************************)
EXTENDS Integers, FiniteSets, SequencesExt

CONSTANTS Project, Chat, File,  \* ids; File: Shared files of the workspace
          Legacy,      \* the chats that older firmware left on the card
          None,        \* not on the card
          MaxOps,      \* bound on operations
          MaxFaults    \* bound on resets and failing writes

ASSUME IdsAssumption ==
  /\ Legacy \subseteq Chat /\ None \notin Project \cup Chat \cup Nat
  /\ IsFiniteSet(Chat) /\ IsFiniteSet(Project) /\ IsFiniteSet(File)
ASSUME BoundsAssumption == MaxOps \in Nat /\ MaxFaults \in Nat

VARIABLES card,    \* what is on the card
          mode,    \* "off", "boot", "ready", or "failed": storage stays closed
          op,      \* the operation in progress
          todo,    \* what is left of its plan, or of undoing it
          failing, \* a write failed, and todo undoes the operation
          hurt,    \* history: what is not undone (see Ended)
          behind,  \* history: chats whose last save did not reach the index
          absent,  \* history: links to a file that was not there
          ops, faults

history == <<hurt, behind, absent>>
vars == <<card, mode, op, todo, failing, history, ops, faults>>

Spot == Project \X Chat
Link == Project \X File
State == {"uninitialized", "staging", "validated", "committed"}

\* Revisions are Nat on purpose: one that goes below zero or a count that does
\* is the error to look for.
Card == [index : [Project -> {None} \cup [rev : Nat, count : Nat]],
         meta : [Project -> {None} \cup
                   [rev : Nat, count : Nat, active : Chat \cup {None}]],
         listed : [Spot -> Nat \cup {None}],  \* the revision in the chat index
         doc : [Spot -> Nat \cup {None}],     \* in the metadata; 0: incomplete
         link : [Link -> BOOLEAN],
         file : [File -> BOOLEAN],
         man : [{0} -> [state : State, active : Project \cup {None}]]]

TypeOK ==
  /\ card \in Card /\ mode \in {"off", "boot", "ready", "failed"}
  /\ failing \in BOOLEAN /\ hurt \subseteq {"late", "reset", "half", "order", "undo"}
  /\ behind \subseteq Spot /\ absent \subseteq Link
  /\ ops \in 0..MaxOps /\ faults \in 0..MaxFaults

-----------------------------------------------------------------------------
(* Reading the card n                                                      *)

Listed(n) == {p \in Project : n.index[p] # None}
Chats(n, p) == {c \in Chat : n.listed[<<p, c>>] # None}
Summary(n, p) == [rev |-> n.meta[p].rev, count |-> n.meta[p].count]
ActiveChat(n, p) == n.meta[p].active
Active(n) == n.man[0].active
Linked(n, f) == \E p \in Listed(n) : n.link[<<p, f>>]
Unused(n) == {p \in Project : n.index[p] = None /\ n.meta[p] = None
                               /\ \A c \in Chat : n.doc[<<p, c>>] = None}
FreeChats(n, p) == {c \in Chat : n.doc[<<p, c>>] = None} \ Chats(n, p)

\* validateProjectChats and validateProjectChat
ChatsFit(n, p) ==
  /\ \A c \in Chats(n, p) : n.doc[<<p, c>>] = n.listed[<<p, c>>]
  /\ Cardinality(Chats(n, p)) = n.meta[p].count
  /\ ActiveChat(n, p) \in Chats(n, p) \cup {None}
\* validateProjectSharedLinks
LinksFit(n, p) == \A f \in File : n.link[<<p, f>>] => n.file[f]
\* validateCommittedProjectStorage
Valid(n) ==
  /\ n.man[0].state = "committed" /\ Active(n) \in Listed(n)
  /\ \A p \in Listed(n) :
       /\ n.meta[p] # None /\ n.index[p] = Summary(n, p)
       /\ ChatsFit(n, p) /\ LinksFit(n, p)

-----------------------------------------------------------------------------
(* Plans: sequences of writes.  undo: the writes behind a failure of this   *)
(* one.  "stop" fails by itself, "rest" stands for what is left of a        *)
(* project's directory when its chats are gone, "all" for every project.    *)

W(field, at, value) == [field |-> field, at |-> at, value |-> value, undo |-> <<>>]
Stop == W("stop", 0, None)
Behind(plan, undo) == [i \in DOMAIN plan |-> [plan[i] EXCEPT !.undo = @ \o undo]]
When(condition, plan) == IF condition THEN plan ELSE <<>>

Without(n, P) ==
  [n EXCEPT !.meta = [p \in Project |-> IF p \in P THEN None ELSE @[p]],
            !.doc = [s \in Spot |-> IF s[1] \in P THEN None ELSE @[s]],
            !.listed = [s \in Spot |-> IF s[1] \in P THEN None ELSE @[s]],
            !.link = [l \in Link |-> IF l[1] \in P THEN FALSE ELSE @[l]]]
Effect(n, w) ==
  CASE w.field = "stop" -> n
    [] w.field = "rest" -> Without(n, {w.at})
    [] w.field = "all" ->
         [Without(n, Project) EXCEPT !.index = [p \in Project |-> None]]
    [] OTHER -> [n EXCEPT ![w.field][w.at] = w.value]
After(n, plan) == FoldLeft(Effect, n, plan)
Manifest(state, p) == W("man", 0, [state |-> state, active |-> p])

\* removeSdDirectoryTree of a chat, of a project
RemoveChatTree(p, c) == <<W("doc", <<p, c>>, 0), W("doc", <<p, c>>, None)>>
RemoveTree(n, p) ==
  LET there == {c \in Chat : n.doc[<<p, c>>] # None}
      Gone(c) == W("doc", <<p, c>>, None)
  IN SetToSeq({Gone(c) : c \in there}) \o <<W("rest", p, None)>>

\* Mutant: the rollback of the metadata is forgotten.
SaveNoRollback(n, p, c) ==
  LET new == [n.meta[p] EXCEPT !.rev = @ + 1, !.active = c]
  IN IF p \notin Listed(n) \/ n.meta[p] = None THEN <<Stop>>
     ELSE <<W("meta", p, new), W("index", p, [rev |-> new.rev, count |-> new.count])>>
\* saveProject, with c as the active chat: the metadata, then the index
Save(n, p, c) ==
  LET new == [n.meta[p] EXCEPT !.rev = @ + 1, !.active = c]
  IN IF p \notin Listed(n) \/ n.meta[p] = None THEN <<Stop>>
     ELSE <<W("meta", p, new)>>
          \o Behind(<<W("index", p, [rev |-> new.rev, count |-> new.count])>>,
                    <<W("meta", p, n.meta[p])>>)

\* persistProjectCounterUpdate and patchProjectCounters: the index, then the
\* metadata
Count(n, p, delta) ==
  LET new == [n.meta[p] EXCEPT !.rev = @ + 1, !.count = @ + delta]
  IN <<W("index", p, [rev |-> new.rev, count |-> new.count])>>
     \o Behind(<<W("meta", p, new)>>, <<W("index", p, n.index[p])>>)
\* upsertProjectChatSummary
Upsert(n, p, c, rev) ==
  IF p \notin Listed(n) \/ n.meta[p] = None THEN <<Stop>>
  ELSE <<W("listed", <<p, c>>, rev)>>
       \o Behind(Count(n, p, IF c \in Chats(n, p) THEN 0 ELSE 1),
                 <<W("listed", <<p, c>>, n.listed[<<p, c>>])>>)
\* removeProjectChatSummary
RemoveSummary(n, p, c) ==
  IF c \notin Chats(n, p) THEN <<Stop>>
  ELSE <<W("listed", <<p, c>>, None)>>
       \o Behind(Count(n, p, IF n.meta[p].count > 0 THEN -1 ELSE 0),
                 <<W("listed", <<p, c>>, n.listed[<<p, c>>])>>)

\* createProjectWithId
CreateProject(p) ==
  <<W("meta", p, [rev |-> 1, count |-> 0, active |-> None])>>
  \o Behind(<<W("index", p, [rev |-> 1, count |-> 0])>>, <<W("rest", p, None)>>)
\* deleteProject
DeleteProject(n, p) ==
  <<W("index", p, None)>> \o Behind(RemoveTree(n, p), <<W("index", p, n.index[p])>>)

\* The documents of a chat, then the indexes; removed again when an index fails.
AddChat(n, p, c) ==
  <<W("doc", <<p, c>>, 1)>>
  \o Behind(Upsert(n, p, c, 1), <<W("doc", <<p, c>>, None)>>)
\* createProjectChat, duplicateProjectChat
CreateChat(n, p, c) == AddChat(n, p, c)
CopyChat(n, p, c, d) == IF n.doc[<<p, c>>] \in {None, 0} THEN <<Stop>> ELSE AddChat(n, p, d)
\* cloneProjectChat
CloneChat(n, p, q, c) ==
  IF n.doc[<<p, c>>] \in {None, 0} \/ n.doc[<<q, c>>] # None THEN <<Stop>> ELSE AddChat(n, q, c)
\* importLegacyChatToProject and importProjectChatBundleRecords
ImportLegacyChat(n, p, c) == IF n.doc[<<p, c>>] # None THEN <<Stop>> ELSE AddChat(n, p, c)
ImportChatRecords(n, p, c) == IF n.doc[<<p, c>>] # None THEN <<Stop>> ELSE AddChat(n, p, c)
\* deleteProjectChat
DeleteChat(n, p, c) ==
  LET m == After(n, RemoveSummary(n, p, c))
      Bare(plan) == [i \in DOMAIN plan |-> [plan[i] EXCEPT !.undo = <<>>]]
  IN RemoveSummary(n, p, c)
     \o Behind(RemoveChatTree(p, c), Bare(Upsert(m, p, c, n.doc[<<p, c>>])))

\* linkSharedFileToProject
LinkFile(n, p, f) ==
  When(~n.link[<<p, f>>],
       <<W("link", <<p, f>>, TRUE)>>
       \o Behind(Save(n, p, ActiveChat(n, p)), <<W("link", <<p, f>>, FALSE)>>))
\* unlinkSharedFileFromProject
UnlinkFile(n, p, f) ==
  <<W("link", <<p, f>>, FALSE)>>
  \o Behind(Save(n, p, ActiveChat(n, p)), <<W("link", <<p, f>>, TRUE)>>)

\* One plan behind the other, each made for the card as the one before leaves it
Then(n, plan, More(_)) == plan \o More(After(n, plan))
\* A plan for every element of a set
Each(n, S, Plan(_, _)) ==
  FoldSet(LAMBDA x, plan : Then(n, plan, LAMBDA m : Plan(m, x)), <<>>, S)

\* selectActiveProject, activateProject with activateChat: the manifest, then a
\* chat: c, which is the first one or, if there is none, a new one.
Open(n, p, c) ==
  IF n.meta[p] = None THEN <<Stop>>
  ELSE IF Chats(n, p) = {} THEN
         Then(n, CreateChat(n, p, c), LAMBDA m : Save(m, p, c))
  ELSE IF ActiveChat(n, p) = None THEN Save(n, p, c)
  ELSE When(n.doc[<<p, ActiveChat(n, p)>>] \in {None, 0}, <<Stop>>)
Select(n, p, c) ==
  When(Active(n) # p, <<Manifest(n.man[0].state, p)>>) \o Open(n, p, c)
\* What c may be
Opens(n, p, c) ==
  c \in (IF p \in Listed(n) /\ Chats(n, p) # {} THEN Chats(n, p) ELSE FreeChats(n, p))

\* Mutant: committed before the chats are there.
MigrateCommitFirst(n, p) ==
  When(n.man[0].state # "uninitialized", <<W("all", 0, None), Manifest("uninitialized", None)>>)
  \o <<Manifest("staging", None)>> \o CreateProject(p)
  \o <<Manifest("validated", p), Manifest("committed", p)>>
  \o Each(After(n, <<W("all", 0, None)>> \o CreateProject(p)), Legacy,
          LAMBDA m, c : ImportLegacyChat(m, p, c))
\* migrateLegacyStorageToProjects, behind resetInterruptedMigration
Migrate(n, p) ==
  When(n.man[0].state # "uninitialized", <<W("all", 0, None), Manifest("uninitialized", None)>>)
  \o <<Manifest("staging", None)>> \o CreateProject(p)
  \o Each(After(n, <<W("all", 0, None)>> \o CreateProject(p)), Legacy,
          LAMBDA m, c : ImportLegacyChat(m, p, c))
  \o <<Manifest("validated", p), Manifest("committed", p)>>

\* duplicateProject: p as q.  Whatever fails behind the creation, the copy is
\* deleted.
Duplicate(n, p, q) ==
  LET Fill(m) ==
        Then(m, Save(m, q, ActiveChat(n, p)), LAMBDA k :
          Then(k, Each(k, Chats(n, p), LAMBDA j, c : CloneChat(j, p, q, c)), LAMBDA j :
            Each(j, {f \in File : n.link[<<p, f>>]}, LAMBDA i, f : LinkFile(i, q, f))))
      fill == Fill(After(n, CreateProject(q)))
  IN CreateProject(q) \o Behind(fill, <<W("index", q, None), W("rest", q, None)>>)
\* importProjectBundle: as q a project with chats C, the active one a of them,
\* and links to the files L
Import(n, q, C, a, L) ==
  LET Fill(m) ==
        Then(m, Save(m, q, a), LAMBDA k :
          Then(k, Each(k, L, LAMBDA j, f : LinkFile(j, q, f)), LAMBDA j :
            Each(j, C, LAMBDA i, c : ImportChatRecords(i, q, c))))
      fill == Fill(After(n, CreateProject(q)))
  IN CreateProject(q) \o Behind(fill, <<W("index", q, None), W("rest", q, None)>>)

-----------------------------------------------------------------------------
(* Start                                                                   *)

NoOp == [name |-> "none", project |-> None, chat |-> None]
Fresh ==
  [index |-> [p \in Project |-> None], meta |-> [p \in Project |-> None],
   listed |-> [s \in Spot |-> None], doc |-> [s \in Spot |-> None],
   link |-> [l \in Link |-> FALSE], file |-> [f \in File |-> FALSE],
   man |-> [i \in {0} |-> [state |-> "uninitialized", active |-> None]]]
Init ==
  /\ card = Fresh /\ mode = "off" /\ op = NoOp /\ todo = <<>> /\ failing = FALSE
  /\ hurt = {} /\ behind = {} /\ absent = {} /\ ops = 0 /\ faults = 0

Run(name, p, c, plan) ==
  /\ op' = [name |-> name, project |-> p, chat |-> c]
  /\ todo' = plan /\ failing' = FALSE
\* setup: validation, the migration before it, and initializeChats behind it
StartPlan(n, p, c) ==
  LET migration == IF n.man[0].state = "committed" THEN <<>> ELSE Migrate(n, p)
      m == After(n, migration)
  IN migration \o (IF Valid(m) THEN Open(m, Active(m), c) ELSE <<Stop>>)
Start ==
  /\ mode = "off" /\ mode' = "boot"
  /\ \E p \in Project, c \in Chat :
       /\ IF card.man[0].state = "committed"
          THEN p = Active(card) /\ (Valid(card) => Opens(card, p, c))
          ELSE c \in (IF Legacy = {} THEN Chat ELSE Legacy)
       /\ Run("start", p, c, StartPlan(card, p, c))
  /\ UNCHANGED <<card, history, ops>>
PowerOff ==
  /\ op = NoOp /\ mode \in {"ready", "failed"} /\ mode' = "off"
  /\ UNCHANGED <<card, op, todo, failing, history, ops>>

-----------------------------------------------------------------------------
(* Operations, of the device and of the web console; a is the active        *)
(* project.                                                                 *)

Ready == mode = "ready" /\ op = NoOp /\ ops < MaxOps
Do(name, p, c, plan) ==
  /\ Run(name, p, c, plan) /\ ops' = ops + 1
  /\ UNCHANGED <<card, mode, hurt, behind>>
a == Active(card)

\* handleNewProject, and the first line of the project list
NewProject ==
  /\ Ready
  /\ \E p \in Unused(card), c \in Chat :
       Do("newProject", p, c,
          Then(card, CreateProject(p), LAMBDA m : Select(m, p, c)))
  /\ UNCHANGED absent
SelectProject ==
  /\ Ready
  /\ \E p \in Listed(card) \ {a}, c \in Chat :
       Opens(card, p, c) /\ Do("selectProject", p, c, Select(card, p, c))
  /\ UNCHANGED absent
\* renameProject, setProjectArchived, the settings of a project
EditProject ==
  /\ Ready
  /\ \E p \in Listed(card) :
       /\ card.meta[p] # None
       /\ Do("editProject", p, None, Save(card, p, ActiveChat(card, p)))
  /\ UNCHANGED absent
\* The plan, and p opened behind it
AndOpen(plan, p, d) ==
  Opens(After(card, plan), p, d) /\ Do("open", p, d, Then(card, plan, LAMBDA m : Select(m, p, d)))
\* duplicateProject of the device; handleDuplicateProject opens the copy.
DuplicateProject ==
  /\ Ready
  /\ \E p \in Listed(card), q \in Unused(card), d \in Chat :
       /\ card.meta[p] # None
       /\ \/ Do("duplicate", q, None, Duplicate(card, p, q))
          \/ p = a /\ AndOpen(Duplicate(card, p, q), q, d)
       /\ absent' = absent \cup {<<q, f>> : f \in {g \in File : <<p, g>> \in absent}}

\* Where the active project goes: another one, or a new one if there is none
Replacement(p, r) ==
  IF Listed(card) \subseteq {p} THEN r \in Unused(card) ELSE r \in Listed(card) \ {p}
Created(n, r) == When(r \notin Listed(n), CreateProject(r))
\* An active project is left before it is deleted.
SwitchAndDelete(n, p, r, c) ==
  LET away == Then(n, Created(n, r), LAMBDA m : Select(m, r, c))
  IN Then(n, When(p = Active(n), away), LAMBDA m : DeleteProject(m, p))
\* Screen::ProjectDeleteConfirm
DeviceDeleteProject ==
  /\ Ready
  /\ \E p \in Listed(card), r \in Project, c \in Chat :
       /\ Replacement(p, r) /\ (p = a => Opens(card, r, c))
       /\ Do("deleteProject", p, None, SwitchAndDelete(card, p, r, c))
  /\ UNCHANGED absent
\* handleDeleteProject
WebDeleteProject ==
  /\ Ready /\ a \in Listed(card)
  /\ \E r \in Project, c \in Chat :
       /\ Replacement(a, r) /\ Opens(card, r, c)
       /\ Do("webDeleteProject", a, None,
             Then(card, DeleteProject(card, a), LAMBDA m :
               Then(m, Created(m, r), LAMBDA k : Select(k, r, c))))
  /\ UNCHANGED absent

\* What the operations on the active project need
Here == Ready /\ a \in Listed(card) /\ card.meta[a] # None
NewChat ==
  /\ Here
  /\ \E c \in FreeChats(card, a) :
       Do("newChat", a, c, Then(card, CreateChat(card, a, c), LAMBDA m : Save(m, a, c)))
  /\ UNCHANGED absent
\* duplicateProjectChat of the device; handleDuplicateChat selects the copy.
DuplicateChat ==
  /\ Here
  /\ \E c \in Chats(card, a), d \in FreeChats(card, a) :
       \/ Do("duplicateChat", a, d, CopyChat(card, a, c, d))
       \/ Do("duplicateChat", a, d,
             Then(card, CopyChat(card, a, c, d), LAMBDA m : Save(m, a, d)))
  /\ UNCHANGED absent
\* activateChat, handleSelectChat
SelectChat ==
  /\ Here
  /\ \E c \in Chats(card, a) \ {ActiveChat(card, a)} :
       card.doc[<<a, c>>] \notin {None, 0} /\ Do("selectChat", a, c, Save(card, a, c))
  /\ UNCHANGED absent
\* saveProjectChatMetadata: the metadata, then the index, which nothing undoes
SaveChat ==
  /\ Here
  /\ \E c \in Chats(card, a) :
       LET rev == card.doc[<<a, c>>]
       IN /\ rev \notin {None, 0}
          /\ Do("saveChat", a, c,
                <<W("doc", <<a, c>>, rev + 1)>> \o Upsert(card, a, c, rev + 1))
  /\ UNCHANGED absent
\* handleDeleteChat, Screen::DeleteChatConfirm: d is the next active chat
RemoveChat ==
  /\ Here
  /\ \E c \in Chats(card, a), d \in Chat :
       /\ card.doc[<<a, c>>] \notin {None, 0}
       /\ LET m == After(card, DeleteChat(card, a, c))
              more == IF c # ActiveChat(card, a) THEN <<>>
                      ELSE IF Chats(m, a) = {} THEN Then(m, CreateChat(m, a, d), LAMBDA k : Save(k, a, d))
                      ELSE Save(m, a, d)
          IN /\ Opens(m, a, d)
             /\ Do("deleteChat", a, c, DeleteChat(card, a, c) \o more)
  /\ UNCHANGED absent

\* handleProjectLinkUpdate and the lists of the device; a link to a file that
\* is not there is accepted.
ChangeLink ==
  /\ Here
  /\ \E f \in File :
       IF card.link[<<a, f>>]
       THEN Do("unlink", a, None, UnlinkFile(card, a, f)) /\ UNCHANGED absent
       ELSE /\ Do("link", a, None, LinkFile(card, a, f))
            /\ absent' = IF card.file[f] THEN absent \ {<<a, f>>} ELSE absent \cup {<<a, f>>}
\* A bundle of another card: its chats, and links to what may not be here; the
\* new project is opened.
ImportProject ==
  /\ Ready
  /\ \E q \in Unused(card), C \in SUBSET Chat, L \in SUBSET File, d \in Chat :
       \E c \in C \cup {None} :
         /\ AndOpen(Import(card, q, C, c, L), q, d)
         /\ absent' = absent \cup {<<q, f>> : f \in {g \in L : ~card.file[g]}}

\* A file of the workspace: uploaded or downloaded; written by the tool, which
\* links it; removed; renamed (its new name is not one of File, or is).
Upload ==
  /\ Ready
  /\ \E f \in File : ~card.file[f] /\ Do("upload", None, None, <<W("file", f, TRUE)>>)
  /\ UNCHANGED absent
WriteFileTool ==
  /\ Here
  /\ \E f \in File :
       /\ ~card.file[f]
       /\ Do("writeFile", a, None,
             <<W("file", f, TRUE)>>
             \o Behind(LinkFile([card EXCEPT !.file[f] = TRUE], a, f),
                       When(~Linked(card, f), <<W("file", f, FALSE)>>)))
       /\ absent' = IF card.link[<<a, f>>] THEN absent ELSE absent \ {<<a, f>>}
\* sharedFileHasAnyProjectLink
MayRemove(n, f) == n.file[f] /\ ~Linked(n, f)
RemoveFile ==
  /\ Ready
  /\ \E f \in File : MayRemove(card, f) /\ Do("removeFile", None, None, <<W("file", f, FALSE)>>)
  /\ UNCHANGED absent

-----------------------------------------------------------------------------
(* Steps of a plan                                                         *)

head == Head(todo)
\* What an operation leaves behind that did not end well: a half-removed
\* directory, an active project or chat that is gone, because the console
\* deletes it before it selects another, a save that the index does not know.
Half == head.field \in {"doc", "rest"} /\ op.name \in {"deleteChat", "deleteProject", "webDeleteProject"}
        /\ head.value # 0
Unordered ==
  \/ op.name = "webDeleteProject" /\ op.project \notin Listed(card)
  \/ op.name = "deleteChat" /\ op.project \in Listed(card)
     /\ op.chat \notin Chats(card, op.project) /\ ActiveChat(card, op.project) = op.chat
Finish(success) ==
  /\ op' = NoOp /\ todo' = <<>> /\ failing' = FALSE
  /\ mode' = IF op.name # "start" THEN mode ELSE IF success THEN "ready" ELSE "failed"
Settle(n) ==
  /\ behind' = {s \in Spot : s[1] \in Listed(n) /\ n.listed[s] # None
                             /\ n.doc[s] \notin {None, 0} /\ n.doc[s] # n.listed[s]}
  /\ absent' = {l \in absent : n.link[l]}

Write ==
  /\ todo # <<>> /\ head.field # "stop"
  /\ card' = Effect(card, head) /\ todo' = Tail(todo)
  /\ UNCHANGED <<mode, op, failing, history>>
\* A write fails, or a check does: the undoing begins.
Fail ==
  /\ todo # <<>>
  /\ IF failing THEN todo' = Tail(todo) ELSE todo' = head.undo
  /\ failing' = TRUE /\ UNCHANGED <<mode, op, behind, absent>>
Stopped == todo # <<>> /\ head.field = "stop" /\ Fail /\ UNCHANGED <<card, hurt>>
Done ==
  /\ todo = <<>> /\ op # NoOp
  /\ Finish(~failing) /\ Settle(card)
  /\ hurt' = hurt \cup {h \in {"order"} : failing /\ Unordered}
  /\ UNCHANGED card

\* The card refuses a write, ...
Refused ==
  /\ todo # <<>> /\ head.field # "stop" /\ Fail /\ UNCHANGED card
  /\ hurt' = hurt \cup (IF failing THEN {"undo"} ELSE IF Half THEN {"half"} ELSE {})
\* ... or replaces a file and fails behind that (commitAtomicSdFile).
Late ==
  /\ todo # <<>> /\ head.field \in {"index", "meta", "listed", "link", "man"} /\ Fail
  /\ card' = Effect(card, head) /\ hurt' = hurt \cup {"late"}
Reset ==
  /\ op # NoOp /\ op' = NoOp /\ todo' = <<>> /\ failing' = FALSE /\ mode' = "off"
  /\ hurt' = hurt \cup {"reset"} \cup {h \in {"order"} : Unordered} /\ Settle(card) /\ UNCHANGED card

Fault ==
  /\ faults < MaxFaults /\ faults' = faults + 1
  /\ Refused \/ Late \/ Reset
Step ==
  \/ Start \/ PowerOff
  \/ NewProject \/ SelectProject \/ EditProject \/ DuplicateProject
  \/ DeviceDeleteProject \/ WebDeleteProject
  \/ NewChat \/ DuplicateChat \/ SelectChat \/ SaveChat \/ RemoveChat
  \/ ChangeLink \/ ImportProject \/ Upload \/ WriteFileTool \/ RemoveFile
Next ==
  \/ Step /\ UNCHANGED faults
  \/ (Write \/ Stopped \/ Done) /\ UNCHANGED <<ops, faults>>
  \/ Fault /\ UNCHANGED ops
Spec == Init /\ [][Next]_vars

-----------------------------------------------------------------------------
(* Properties                                                              *)

Idle == op = NoOp
\* Whatever was done, and whichever write of it was refused: what is on the
\* card is accepted at the next start.
RestIsValid ==
  Idle /\ card.man[0].state = "committed" /\ hurt = {} /\ behind = {} /\ absent = {}
    => Valid(card)

\* A reset may leave what is not accepted, but not a name without the thing:
\* every project of the index has metadata, every chat of its index too.
ListedLoads ==
  hurt \subseteq {"reset", "order"} =>
    \A p \in Listed(card) :
      /\ card.meta[p] # None
      /\ \A c \in Chats(card, p) : card.doc[<<p, c>>] \notin {None, 0}

\* A file that was there when it was linked stays as long as the link does.
LinkedFilesExist ==
  Idle /\ hurt \subseteq {"reset", "order"} =>
    \A p \in Listed(card), f \in File :
      card.link[<<p, f>>] /\ ~card.file[f] => <<p, f>> \in absent

\* The step that commits the migration finds every chat of the old storage in
\* the project that becomes the active one, and nothing takes it back.
CommitsEverything ==
  [][/\ card.man[0].state # "committed" /\ card'.man[0].state = "committed" =>
          \A c \in Legacy :
            /\ c \in Chats(card', Active(card'))
            /\ card'.doc[<<Active(card'), c>>] = card'.listed[<<Active(card'), c>>]
     /\ card.man[0].state = "committed" => card'.man[0].state = "committed"]_vars

\* What the manifest names is listed, however the last operation ended, unless
\* the web console was cut off between deleting and selecting.
ActiveIsListed ==
  card.man[0].state = "committed" /\ "order" \notin hurt /\ "late" \notin hurt
  /\ op.name # "webDeleteProject"
    => Active(card) \in Listed(card)

\* The import accepts links to files that are not on this card, to be "recreated
\* or relinked" (docs/projects-workspace.md:80): storage must open after it.
OpensAfterImport == absent # {} /\ hurt = {} => mode # "failed"

\* Of the indexes on the card: what they name is there, and after every
\* operation that was not cut off they are accepted at the next start.
IndexesAreTrue ==
  TypeOK /\ RestIsValid /\ ListedLoads /\ LinkedFilesExist /\ ActiveIsListed
=============================================================================

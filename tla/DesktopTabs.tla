---------------------------- MODULE DesktopTabs ----------------------------
(***************************************************************************)
(* The desktop workspace of postly-app: request tabs, the one editor they   *)
(* share, the files they show, the recovery snapshot of unsaved drafts and  *)
(* the saved tab list, over frames, saves, exits, crashes and restarts.     *)
(*                                                                         *)
(* The editor's fields of PostlyApp belong to the active tab; its entry in  *)
(* `open_tabs` is brought up to date by sync_active_tab, which fails while  *)
(* the editor holds text that does not parse.  A Request is abstracted to   *)
(* its id and the number of the edit that made it what it is; a path to its *)
(* collection and a number in listing order.                                *)
(***************************************************************************)
EXTENDS Naturals, Sequences, FiniteSets, SequencesExt, FiniteSetsExt

CONSTANTS
  NCollections,   \* collections of the workspace
  MaxFiles,       \* bound on the request files of a collection
  InitialFiles,   \* bound on the request files there are at first
  MaxIds,         \* bound on the requests and drafts that exist at a time
  MaxTabs,        \* bound on the open tabs
  MaxEdits,       \* bound on the edits of a behaviour
  MaxCommands,    \* bound on its commands
  MaxStarts       \* bound on the starts of the program

ASSUME DesktopAssumption ==
  /\ NCollections \in Nat \ {0} /\ MaxFiles \in Nat \ {0}
  /\ InitialFiles \in Nat
  /\ MaxIds \in Nat /\ MaxTabs \in Nat \ {0} /\ MaxEdits \in Nat
  /\ MaxCommands \in Nat /\ MaxStarts \in Nat

VARIABLES
  app,          \* the fields of PostlyApp, at the end of a frame
  disk,         \* what the workspace directory holds
  unreadable,   \* collections whose `requests` fail: one file does not parse
  running,      \* whether the program is
  edits,        \* history: number of edits made
  commands,     \* number of commands given
  starts,       \* number of starts of the program
  fresh,        \* history: edits since the last due recovery write
  owed,         \* history: drafts that the next start has to bring back ...
  allowed       \* ... and that it may bring back

vars == <<app, disk, unreadable, running, edits, commands, starts, fresh,
          owed, allowed>>

Collections == 1 .. NCollections
Path == Collections \X (1 .. MaxFiles)
NoPath == <<0, 0>>
Ids == 1 .. MaxIds
Doc == [id : Ids, edit : 0 .. MaxEdits]
NoDoc == [id |-> 0, edit |-> 0]
NoSnapshot == [drafts |-> <<>>, active |-> 0]

Tab == [coll : Collections, path : Path \cup {NoPath}, doc : Doc,
        dirty : BOOLEAN, recovered : BOOLEAN]
Draft == [coll : Collections, doc : Doc,
          file : Path \cup {NoPath}]    \* history: the file it is a draft of
Entry == [path : Path, doc : Doc]

App ==
  [open_tabs : Seq(Tab), active_tab : 1 .. MaxTabs + 1,
   selected_collection : Collections, requests : Seq(Entry),
   selected_request : 0 .. MaxFiles,                       \* 0: None
   request_path : Path \cup {NoPath}, request : Doc \cup {NoDoc}, valid : BOOLEAN,
   dirty : BOOLEAN, recovery_restored : BOOLEAN,
   recovery_last_saved : {"none", "recent", "due"},
   tabs_settings_dirty : BOOLEAN,
   pending : {0} \cup Ids, response : {0} \cup Ids]        \* 0: None
Disk ==
  [files : [Path -> Doc \cup {NoDoc}],
   recovery : [drafts : Seq(Draft), active : 0 .. MaxTabs],
   tabs : [paths : Seq(Path), active : Path \cup {NoPath}]]

world == [app |-> app, disk |-> disk]

-----------------------------------------------------------------------------
(* Helpers of PostlyApp: each takes the fields as they are and returns them   *)
(* as it leaves them.                                                         *)

(* The k-th position of a set, and what a sequence has at its positions.       *)
Nth(ks, k) == CHOOSE i \in ks : Cardinality({j \in ks : j <= i}) = k
Picked(s, ks) == [k \in 1 .. Cardinality(ks) |-> s[Nth(ks, k)]]

(* A collection's request files in path order.                                *)
Listing(files, c) ==
  Picked([n \in 1 .. MaxFiles |-> [path |-> <<c, n>>, doc |-> files[<<c, n>>]]],
         {n \in 1 .. MaxFiles : files[<<c, n>>] # NoDoc})

Positions(entries, p) == {k \in DOMAIN entries : entries[k].path = p}
First(ks) == IF ks = {} THEN 0 ELSE Min(ks)

UsedIds ==
  {disk.files[p].id : p \in Path}
    \cup {app.open_tabs[i].doc.id : i \in DOMAIN app.open_tabs}
    \cup {disk.recovery.drafts[i].doc.id : i \in DOMAIN disk.recovery.drafts}
    \cup {app.requests[k].doc.id : k \in DOMAIN app.requests} \cup {app.request.id}
NewDoc == [id |-> Min(Ids \ UsedIds), edit |-> 0]
MayCreate == Ids \ UsedIds # {} /\ Len(app.open_tabs) < MaxTabs

SyncFails(a) == a.open_tabs # <<>> /\ ~a.valid

CurrentTab(a) ==
  [coll |-> a.selected_collection, path |-> a.request_path, doc |-> a.request,
   dirty |-> a.dirty, recovered |-> a.recovery_restored]

SyncActiveTabSelected(a) ==
  IF SyncFails(a) \/ a.open_tabs = <<>> THEN a
  ELSE [a EXCEPT !.open_tabs[a.active_tab] = CurrentTab(a)]

(* sync_active_tab: a tab's collection follows the selected one only if that  *)
(* is the one that lists its file.                                            *)
SyncActiveTab(a) ==
  IF a.open_tabs = <<>> \/ ~a.valid THEN a
  ELSE [a EXCEPT !.open_tabs[a.active_tab] =
          [CurrentTab(a) EXCEPT
             !.coll = IF Positions(a.requests, a.request_path) # {} THEN @
                      ELSE a.open_tabs[a.active_tab].coll]]

(* Dropping the receivers, what a worker still sends goes nowhere.            *)
ClearResponseNot(a) == a
ClearResponse(a) == [a EXCEPT !.pending = 0, !.response = 0]

InstallTabKeepDirty(a, i) ==
  LET tab == a.open_tabs[i]
  IN [ClearResponse(a) EXCEPT
        !.active_tab = i, !.selected_collection = tab.coll,
        !.selected_request = First(Positions(a.requests, tab.path)),
        !.request_path = tab.path, !.request = tab.doc, !.valid = TRUE,
        !.recovery_restored = tab.recovered]

InstallTab(a, i) ==
  LET tab == a.open_tabs[i]
  IN [ClearResponse(a) EXCEPT
        !.active_tab = i,
        !.selected_collection = tab.coll,
        !.selected_request = First(Positions(a.requests, tab.path)),
        !.request_path = tab.path, !.request = tab.doc, !.valid = TRUE,
        !.dirty = tab.dirty, !.recovery_restored = tab.recovered]

LoadRequestsForTab(a, files, i) ==
  LET c == a.open_tabs[i].coll
  IN IF c \in unreadable THEN a ELSE [a EXCEPT !.requests = Listing(files, c)]

ShowTab(a, files, i) == InstallTab(LoadRequestsForTab(a, files, i), i)

(* A draft with no file: its editor is dirty from the start.                  *)
ResetNewRequest(a) ==
  [ClearResponse(a) EXCEPT
     !.selected_request = 0, !.request_path = NoPath, !.request = NewDoc,
     !.valid = TRUE, !.dirty = TRUE, !.recovery_restored = FALSE]

DraftOf(tab) == [coll |-> tab.coll, doc |-> tab.doc, file |-> tab.path]
DirtyTabs(a) == {i \in DOMAIN a.open_tabs : a.open_tabs[i].dirty}

Drafts(a) ==
  IF a.open_tabs = <<>> /\ a.dirty THEN <<DraftOf(CurrentTab(a))>>
  ELSE Picked([i \in DOMAIN a.open_tabs |-> DraftOf(a.open_tabs[i])], DirtyTabs(a))

ActiveDraft(a) ==
  IF a.open_tabs # <<>> /\ a.open_tabs[a.active_tab].dirty
  THEN Cardinality({i \in 1 .. a.active_tab : a.open_tabs[i].dirty}) ELSE 1

(* persist_recovery: the snapshot is replaced as a whole, and left alone when  *)
(* the editor does not parse or nothing is dirty.                             *)
PersistRecovery(w) ==
  LET b == SyncActiveTab(w.app)
  IN IF ~w.app.valid THEN w
     ELSE IF Drafts(b) = <<>> THEN [w EXCEPT !.app = b]
     ELSE [app |-> [b EXCEPT !.recovery_last_saved = "recent"],
           disk |-> [w.disk EXCEPT !.recovery =
                       [drafts |-> Drafts(b), active |-> ActiveDraft(b)]]]
PersistIfDirty(w) == IF w.app.dirty THEN PersistRecovery(w) ELSE w

SelectEntryAgain(w, k) ==
  LET v == PersistIfDirty(w)
      b == SyncActiveTab(v.app)
      opened == [b EXCEPT !.tabs_settings_dirty = TRUE,
                   !.open_tabs = Append(@, [coll |-> b.selected_collection,
                      path |-> b.requests[k].path, doc |-> b.requests[k].doc,
                      dirty |-> FALSE, recovered |-> FALSE])]
  IN IF SyncFails(v.app) THEN v
     ELSE [v EXCEPT !.app = ShowTab(opened, v.disk.files, Len(opened.open_tabs))]

(* select_request: the tab that shows the file, or a new one.                 *)
SelectEntry(w, k) ==
  LET v == PersistIfDirty(w)
      b == SyncActiveTab(v.app)
      entry == b.requests[k]
      i == First({j \in DOMAIN b.open_tabs : b.open_tabs[j].path = entry.path})
      opened == [b EXCEPT !.tabs_settings_dirty = TRUE,
                   !.open_tabs = Append(@, [coll |-> b.selected_collection,
                      path |-> entry.path, doc |-> entry.doc,
                      dirty |-> FALSE, recovered |-> FALSE])]
      shown == IF i # 0 THEN ShowTab(b, v.disk.files, i)
               ELSE ShowTab(opened, v.disk.files, Len(opened.open_tabs))
  IN IF SyncFails(v.app) THEN v
     ELSE [v EXCEPT !.app = [shown EXCEPT !.selected_request = k]]

(* The result of the sync before a new draft is ignored.                      *)
OpenDraft(w) ==
  LET v == PersistIfDirty(w)
      b == ResetNewRequest(SyncActiveTab(v.app))
  IN [v EXCEPT !.app = [b EXCEPT !.open_tabs = Append(@, CurrentTab(b)),
                                 !.active_tab = Len(b.open_tabs) + 1,
                                 !.tabs_settings_dirty = TRUE]]

(* refresh_requests: list the selected collection, then show the preferred     *)
(* file, the one at the selected position, the first, or a new draft.         *)
RefreshFails(w) == w.app.selected_collection \in unreadable
RefreshRequests(w, preferred) ==
  LET entries == Listing(w.disk.files, w.app.selected_collection)
      v == [w EXCEPT !.app.requests = entries]
      k == First(Positions(entries, preferred))
      selected == w.app.selected_request
  IN IF entries = <<>> THEN OpenDraft(v)
     ELSE IF k # 0 THEN SelectEntry(v, k)
     ELSE IF selected \in DOMAIN entries THEN SelectEntry(v, selected)
     ELSE SelectEntry(v, 1)

SettingsChanged(w) == [w EXCEPT !.app.tabs_settings_dirty = TRUE]
RemoveRecovery(w) == [w EXCEPT !.disk.recovery = NoSnapshot]

(* save_tabs_settings: only tabs with a file are remembered.                  *)
SaveTabsSettings(w) ==
  LET b == SyncActiveTab(w.app)
      saved == {i \in DOMAIN b.open_tabs : b.open_tabs[i].path # NoPath}
  IN IF ~w.app.tabs_settings_dirty \/ SyncFails(w.app) THEN w
     ELSE [app |-> [b EXCEPT !.tabs_settings_dirty = FALSE],
           disk |-> [w.disk EXCEPT !.tabs =
             [paths |-> Picked([i \in DOMAIN b.open_tabs |-> b.open_tabs[i].path], saved),
              active |-> IF saved = {} THEN NoPath
                         ELSE b.open_tabs[b.active_tab].path]]]

HasDirtyWork(a) == a.dirty \/ \E i \in DOMAIN a.open_tabs : a.open_tabs[i].dirty

-----------------------------------------------------------------------------
(***************************************************************************)
(* Frames: a frame obeys at most one command, then syncs the tab, saves the  *)
(* tab list, and saves the drafts if the last snapshot is a second old       *)
(***************************************************************************)
Become(w) == app' = w.app /\ disk' = w.disk

RecoveryDue(w) == HasDirtyWork(w.app) /\ w.app.recovery_last_saved # "recent"
EndOfFrame(w) ==
  LET v == SaveTabsSettings([w EXCEPT !.app = SyncActiveTab(@)])
  IN IF RecoveryDue(v) THEN PersistRecovery(v) ELSE v

UnsavedEdits(a) ==
  {a.open_tabs[i].doc.edit : i \in {j \in DOMAIN a.open_tabs : a.open_tabs[j].dirty}} \ {0}

(* The program ends; its memory is gone.                                      *)
Blank ==
  [open_tabs |-> <<>>, active_tab |-> 1, selected_collection |-> 1,
   requests |-> <<>>, selected_request |-> 0, request_path |-> NoPath,
   request |-> NoDoc, valid |-> TRUE, dirty |-> FALSE,
   recovery_restored |-> FALSE, recovery_last_saved |-> "none",
   tabs_settings_dirty |-> FALSE, pending |-> 0, response |-> 0]
Stop(d, must, may) ==
  /\ running' = FALSE /\ app' = Blank /\ disk' = d
  /\ fresh' = {} /\ owed' = must /\ allowed' = may

(* A frame whose command leaves `w` and made the edits `new`; the program may  *)
(* crash between the command and the end of the frame.                        *)
Frame(w, new) ==
  /\ running /\ UNCHANGED <<unreadable, starts>>
  /\ edits' = edits + Cardinality(new)
  /\ \/ /\ Become(EndOfFrame(w))
        /\ fresh' = IF RecoveryDue(w) /\ w.app.valid THEN {} ELSE fresh \cup new
        /\ UNCHANGED <<running, owed, allowed>>
     \/ Stop(w.disk, {}, 1 .. edits')
Command(w) ==
  /\ commands < MaxCommands /\ commands' = commands + 1
  /\ Frame(w, {})

(* A frame with no command, drawn again for some other reason.                *)
IdleFrame == UNCHANGED commands /\ Frame(world, {})

(* Typing; the new text may be one that edited_request cannot parse.          *)
Edit ==
  /\ edits < MaxEdits /\ commands < MaxCommands /\ commands' = commands + 1
  /\ \E v \in BOOLEAN :
       Frame([world EXCEPT !.app = [app EXCEPT !.request.edit = edits + 1,
                                              !.valid = v, !.dirty = TRUE]],
             {edits + 1})

SwitchToTab(i) ==
  /\ i \in DOMAIN app.open_tabs /\ i # app.active_tab
  /\ LET v == PersistIfDirty(world)
     IN IF SyncFails(v.app) THEN Command(v)
        ELSE Command(SettingsChanged(
               [v EXCEPT !.app = ShowTab(SyncActiveTab(@), disk.files, i)]))

CloseTabAnyway(i) ==
  /\ i \in DOMAIN app.open_tabs /\ Len(app.open_tabs) > 1
  /\ LET left == [app EXCEPT !.open_tabs = RemoveAt(@, i)]
         next == IF i < app.active_tab THEN app.active_tab - 1
                 ELSE Min({app.active_tab, Len(left.open_tabs)})
     IN Command(SettingsChanged([world EXCEPT
          !.app = ShowTab(left, disk.files, next)]))

(* The tab's own flag decides, and there is no sync before it.                *)
CloseTab(i) ==
  /\ i \in DOMAIN app.open_tabs /\ ~app.open_tabs[i].dirty
  /\ LET rest == RemoveAt(app.open_tabs, i)
         left == [app EXCEPT !.open_tabs = rest]
         empty == ResetNewRequest([left EXCEPT !.active_tab = 1])
         next == IF i < app.active_tab THEN app.active_tab - 1
                 ELSE Min({app.active_tab, Len(rest)})
     IN IF rest = <<>>
        THEN /\ MayCreate
             /\ Command(SettingsChanged([world EXCEPT
                  !.app = [empty EXCEPT !.open_tabs = <<CurrentTab(empty)>>]]))
        ELSE Command(SettingsChanged([world EXCEPT
               !.app = ShowTab(left, disk.files, next)]))

CloseOtherTabs ==
  /\ Len(app.open_tabs) > 1
  /\ \A i \in DOMAIN app.open_tabs : i # app.active_tab => ~app.open_tabs[i].dirty
  /\ Command(SettingsChanged([world EXCEPT
       !.app.open_tabs = <<app.open_tabs[app.active_tab]>>, !.app.active_tab = 1]))

MoveActiveTab(target) ==
  /\ target \in DOMAIN app.open_tabs
  /\ target \in {app.active_tab - 1, app.active_tab + 1}
  /\ LET moved == [app.open_tabs EXCEPT ![target] = app.open_tabs[app.active_tab],
                                        ![app.active_tab] = app.open_tabs[target]]
     IN Command(SettingsChanged([world EXCEPT
          !.app = [app EXCEPT !.open_tabs = moved, !.active_tab = target]]))

NewRequest == MayCreate /\ Command(OpenDraft(world))

(* The draft takes the place of whatever the editor holds.                    *)
ImportCurl ==
  /\ Ids \ UsedIds # {}
  /\ Command([world EXCEPT !.app = ResetNewRequest(@)])

SelectRequest(k) ==
  /\ k \in DOMAIN app.requests /\ Len(app.open_tabs) < MaxTabs
  /\ Command(SelectEntry(world, k))

(* A click on a collection selects it before its requests are read.           *)
SelectCollection(c) ==
  LET v == [world EXCEPT !.app.selected_collection = c]
  IN MayCreate /\ Command(IF RefreshFails(v) THEN v ELSE RefreshRequests(v, NoPath))

OpenSearchResult(p) ==
  /\ unreadable = {} /\ disk.files[p] # NoDoc /\ MayCreate
  /\ Command(RefreshRequests([world EXCEPT !.app.selected_collection = p[1]], p))

(* The first collection in which the request of the entry is found.           *)
ReopenHistory(id) ==
  LET found == {p \in Path : disk.files[p].id = id}
      c == Min({p[1] : p \in found})
      entries == Listing(disk.files, c)
  IN /\ found # {} /\ Len(app.open_tabs) < MaxTabs
     /\ \A b \in 1 .. c : b \notin unreadable
     /\ Command(SelectEntry(
          [world EXCEPT !.app.selected_collection = c, !.app.requests = entries],
          Min({k \in DOMAIN entries : entries[k].doc.id = id})))

(* Where a save may put a file: where it is, or at a free path (another name).*)
Targets(c, current) ==
  {p \in Path : p[1] = c /\ (p = current \/ disk.files[p] = NoDoc)}

(* save_current and save_response_example: write the file, remove the old     *)
(* one, forget the snapshot of every draft, show the request.                 *)
SaveNotDue(a) == [a EXCEPT !.recovery_last_saved = "recent"]
Saved(a) == [a EXCEPT !.recovery_last_saved = "none"]

SaveCurrent ==
  /\ app.valid /\ MayCreate
  /\ \E p \in Targets(app.selected_collection, app.request_path) :
       LET old == app.request_path
           moved == [q \in Path |-> IF q = p THEN app.request
                                    ELSE IF q = old THEN NoDoc ELSE disk.files[q]]
           a == SyncActiveTab([Saved(app) EXCEPT !.request_path = p, !.dirty = FALSE,
                                                 !.recovery_restored = FALSE])
           v == SettingsChanged([app |-> a,
                  disk |-> [disk EXCEPT !.files = moved, !.recovery = NoSnapshot]])
       IN IF old \notin {p, NoPath} /\ disk.files[old] = NoDoc
          THEN Command(world)                      \* the old file is not there
          ELSE Command(IF RefreshFails(v) THEN v ELSE RefreshRequests(v, p))

(* The copy is the edited request; the edits stay in the old tab.             *)
DuplicateCurrent ==
  /\ app.request_path # NoPath /\ app.valid /\ MayCreate
  /\ \E p \in Targets(app.selected_collection, NoPath) :
       LET copy == [NewDoc EXCEPT !.edit = app.request.edit]
           w == [world EXCEPT !.disk.files[p] = copy]
           v == RefreshRequests(w, p)
           a == SyncActiveTab([Saved(v.app) EXCEPT !.dirty = FALSE,
                                                   !.recovery_restored = FALSE])
       IN Command(IF RefreshFails(w) THEN w
                  ELSE SettingsChanged(RemoveRecovery([v EXCEPT !.app = a])))

(* The tab of the file goes first; refresh_requests then finds the editor     *)
(* still holding the deleted request, and the tab after it active.            *)
DeleteCurrent ==
  LET path == app.request_path
      i == First({j \in DOMAIN app.open_tabs : app.open_tabs[j].path = path})
      rest == IF i = 0 THEN app.open_tabs ELSE RemoveAt(app.open_tabs, i)
      shifted == IF i # 0 /\ i < app.active_tab THEN app.active_tab - 1
                 ELSE app.active_tab
      left == [app EXCEPT !.open_tabs = rest,
                 !.active_tab = Max({1, Min({shifted, Len(rest)})}),
                 !.selected_request = 0, !.request_path = NoPath]
      w == [app |-> left, disk |-> [disk EXCEPT !.files[path] = NoDoc]]
      v == RefreshRequests(w, NoPath)
  IN /\ path # NoPath /\ disk.files[path] # NoDoc /\ MayCreate
     /\ Command(IF RefreshFails(w) THEN w
                ELSE SettingsChanged(RemoveRecovery([v EXCEPT
                  !.app = [Saved(@) EXCEPT !.recovery_restored = FALSE]])))

DiscardRecovery ==
  LET rest == Picked(app.open_tabs, {i \in DOMAIN app.open_tabs : ~app.open_tabs[i].recovered})
      before == {i \in 1 .. app.active_tab - 1 : app.open_tabs[i].recovered}
      left == [Saved(app) EXCEPT !.open_tabs = rest, !.recovery_restored = FALSE]
      empty == ResetNewRequest([left EXCEPT !.active_tab = 1])
      next == Min({app.active_tab - Cardinality(before), Len(rest)})
  IN /\ app.recovery_restored /\ MayCreate
     /\ Command(SettingsChanged(RemoveRecovery([world EXCEPT
          !.app = IF rest = <<>>
                  THEN [empty EXCEPT !.open_tabs = <<CurrentTab(empty)>>]
                  ELSE ShowTab(left, disk.files, next)])))

(* send_current starts a worker; poll_http_pending takes its answer, an error *)
(* when it failed or was cancelled.                                           *)
SendCurrent ==
  /\ app.pending = 0 /\ app.valid
  /\ Command([world EXCEPT !.app = [ClearResponse(app) EXCEPT
                                      !.pending = app.request.id]])
PollPending ==
  /\ app.pending # 0
  /\ \E answer \in {app.pending, app.response} :
       Command([world EXCEPT !.app = [app EXCEPT !.pending = 0, !.response = answer]])

-----------------------------------------------------------------------------
(***************************************************************************)
(* Ends and starts                                                          *)
(***************************************************************************)
SecondPasses ==
  /\ running /\ app.recovery_last_saved = "recent"
  /\ app' = [app EXCEPT !.recovery_last_saved = "due"]
  /\ UNCHANGED <<disk, unreadable, running, edits, commands, starts, fresh, owed,
                 allowed>>

(* on_exit: the drafts once more, and the tab list.                           *)
OnExit ==
  LET w == SaveTabsSettings(IF HasDirtyWork(app) THEN PersistRecovery(world) ELSE world)
  IN /\ running
     /\ Stop(w.disk, IF app.valid THEN UnsavedEdits(app) ELSE {},
             IF app.valid THEN UnsavedEdits(app) ELSE 1 .. edits)
     /\ UNCHANGED <<unreadable, edits, commands, starts>>

(* A crash between two frames.                                                *)
Crash ==
  /\ running
  /\ Stop(disk, IF app.valid THEN UnsavedEdits(app) \ fresh ELSE {}, 1 .. edits)
  /\ UNCHANGED <<unreadable, edits, commands, starts>>

RestoreTabsUnchecked(w) ==
  LET paths == w.disk.tabs.paths
      tabs == [i \in DOMAIN paths |->
                 [coll |-> paths[i][1], path |-> paths[i], doc |-> w.disk.files[paths[i]],
                  dirty |-> FALSE, recovered |-> FALSE]]
      active == First({i \in DOMAIN paths : paths[i] = w.disk.tabs.active})
  IN IF paths = <<>> THEN w
     ELSE [w EXCEPT !.app = ShowTab([@ EXCEPT !.open_tabs = tabs], w.disk.files,
                                    Max({1, active}))]

(* PostlyApp::open: the first collection, the saved tabs in its place, then    *)
(* the drafts as new tabs.                                                    *)
RestoreTabs(w) ==
  LET saved == w.disk.tabs.paths
      paths == Picked(saved, {i \in DOMAIN saved : w.disk.files[saved[i]] # NoDoc})
      tabs == [i \in DOMAIN paths |->
                 [coll |-> paths[i][1], path |-> paths[i], doc |-> w.disk.files[paths[i]],
                  dirty |-> FALSE, recovered |-> FALSE]]
      active == First({i \in DOMAIN paths : paths[i] = w.disk.tabs.active})
      a == [w.app EXCEPT !.open_tabs = tabs]
  IN IF paths = <<>> THEN w
     ELSE [w EXCEPT !.app = [ShowTab(a, w.disk.files, Max({1, active})) EXCEPT
                               !.tabs_settings_dirty = FALSE]]

RestoreRecovery(w) ==
  LET drafts == w.disk.recovery.drafts
      tabs == [i \in DOMAIN drafts |->
                 [coll |-> drafts[i].coll, path |-> NoPath, doc |-> drafts[i].doc,
                  dirty |-> TRUE, recovered |-> TRUE]]
      offset == Len(w.app.open_tabs)
      a == [w.app EXCEPT !.open_tabs = @ \o tabs]
      active == offset + Min({w.disk.recovery.active, Len(drafts)})
  IN IF drafts = <<>> THEN w
     ELSE [w EXCEPT !.app = [ShowTab(a, w.disk.files, active) EXCEPT
                               !.recovery_last_saved = "recent",
                               !.tabs_settings_dirty = TRUE]]

OpenApp ==
  LET w == RestoreRecovery(RestoreTabs(RefreshRequests(world, NoPath)))
  IN /\ ~running /\ starts < MaxStarts /\ Ids \ UsedIds # {}
     /\ Len(w.app.open_tabs) <= MaxTabs
     /\ Become(EndOfFrame(w)) /\ running' = TRUE
     /\ fresh' = {} /\ owed' = {} /\ allowed' = {}
     /\ starts' = starts + 1
     /\ UNCHANGED <<unreadable, edits, commands>>

(* The workspace holds some requests, never edited; the program is not running.*)
Init ==
  /\ disk \in [files : {f \in [Path -> Doc \cup {NoDoc}] :
                         \A p \in Path :
                           f[p] \in {NoDoc, [id |-> (p[1] - 1) * MaxFiles + p[2],
                                            edit |-> 0]}},
               recovery : {NoSnapshot}, tabs : {[paths |-> <<>>, active |-> NoPath]}]
  /\ Cardinality({p \in Path : disk.files[p] # NoDoc}) <= InitialFiles
  /\ unreadable \in SUBSET (2 .. NCollections)
  /\ app = Blank /\ running = FALSE /\ edits = 0 /\ commands = 0 /\ starts = 0
  /\ fresh = {} /\ owed = {} /\ allowed = {}

TabCommand ==
  \/ IdleFrame \/ Edit \/ CloseOtherTabs \/ NewRequest \/ ImportCurl
  \/ SaveCurrent \/ DuplicateCurrent \/ DeleteCurrent \/ DiscardRecovery
  \/ \E i \in 1 .. MaxTabs : SwitchToTab(i) \/ CloseTab(i) \/ MoveActiveTab(i)
  \/ \E k \in 1 .. MaxFiles : SelectRequest(k)
  \/ \E c \in Collections : SelectCollection(c)
  \/ \E p \in Path : OpenSearchResult(p)
  \/ \E id \in Ids : ReopenHistory(id)
  \/ SendCurrent \/ PollPending

Next == TabCommand \/ SecondPasses \/ OnExit \/ Crash \/ OpenApp

Spec == Init /\ [][Next]_vars
-----------------------------------------------------------------------------
(***************************************************************************)
(* Properties                                                              *)
(***************************************************************************)
(* The fields keep their types; while there are tabs the active one is one of *)
(* them, and files, tabs and drafts stay within the bounds.                   *)
TypeOK ==
  /\ app \in App /\ disk \in Disk
  /\ app.open_tabs # <<>> => app.active_tab \in DOMAIN app.open_tabs
  /\ Len(app.open_tabs) <= MaxTabs
  /\ unreadable \subseteq 2 .. NCollections
  /\ running \in BOOLEAN /\ edits \in 0 .. MaxEdits
  /\ commands \in 0 .. MaxCommands /\ starts \in 0 .. MaxStarts
  /\ fresh \subseteq 1 .. edits /\ owed \subseteq allowed /\ allowed \subseteq 1 .. edits

(* Two tabs never show the same file: saving one could not silently undo what *)
(* was saved in the other.                                                    *)
OneTabPerFile ==
  unreadable = {} =>
    \A i, j \in DOMAIN app.open_tabs :
      i # j /\ app.open_tabs[i].path # NoPath =>
        app.open_tabs[i].path # app.open_tabs[j].path

CleanMeansSaved ==
  \A i \in DOMAIN app.open_tabs :
    LET tab == app.open_tabs[i]
    IN ~tab.dirty => tab.path # NoPath /\ disk.files[tab.path] = tab.doc

(* "A tab points to a canonical request file, while an unsaved draft remains  *)
(* in memory" (docs/architecture.md): no command but a deletion makes a tab    *)
(* look saved whose content is not what its file holds.                        *)
CleanTabsAreSaved ==
  [][unreadable = {} /\ CleanMeansSaved /\ ~CleanMeansSaved' => DeleteCurrent]_vars

Unsaved(a) == {tab \in {a.open_tabs[i] : i \in DOMAIN a.open_tabs} : tab.dirty}
Newer(d, e) == d.id = e.id /\ d.edit >= e.edit

KeepsDrafts ==
  \A tab \in Unsaved(app) :
    \/ \E t \in Unsaved(app') : Newer(t.doc, tab.doc)
    \/ \E p \in Path : Newer(disk'.files[p], tab.doc)
    \/ tab.recovered /\ DiscardRecovery
    \/ tab.path = app.request_path /\ tab.path # NoPath /\ DeleteCurrent

EditorHasItsTab ==
  app.open_tabs = <<>> \/ app.open_tabs[app.active_tab].doc.id = app.request.id

(* While every collection can be read, no command loses the unsaved draft of  *)
(* any tab, the active one included: not a save, a closed or a moved tab or    *)
(* another collection, and whether or not the editor parses.  (A deletion that *)
(* stops half-way leaves the editor with the deleted request over another tab. *)
(* With a collection that cannot be read the list of another one stays on      *)
(* screen, with entries whose files are gone; a duplicate may be given the     *)
(* path of such an entry, and a draft opened from it then counts as saved.)    *)
DraftsSurviveCommands ==
  [][running /\ running' /\ unreadable = {} /\ EditorHasItsTab /\ ~KeepsDrafts
       => DeleteCurrent \/ ImportCurl]_vars

Kept(doc) ==
  \/ \E t \in Unsaved(app') : Newer(t.doc, doc)
  \/ \E i \in DOMAIN disk'.recovery.drafts : Newer(disk'.recovery.drafts[i].doc, doc)

(* A deletion takes no unsaved edits of another request with it: the tab or    *)
(* the snapshot still has them ("If an unsaved editor disappears, reopen the   *)
(* workspace: the private recovery snapshot restores dirty tabs as new         *)
(* drafts", docs/debugging.md).                                               *)
DeletionKeepsOtherDrafts ==
  [][running /\ running' /\ unreadable = {} /\ DeleteCurrent =>
       \A tab \in Unsaved(app) :
         tab.doc.edit # 0 /\ tab.doc.id # app.request.id => Kept(tab.doc)]_vars

Restored == {app'.open_tabs[i].doc.edit : i \in {j \in DOMAIN app'.open_tabs :
                                                  app'.open_tabs[j].recovered}}

(* A restart brings back the drafts that were open at an exit and no other:   *)
(* none that was saved or discarded; after a crash between frames, all but     *)
(* those of the last second.                                                  *)
RestartRestoresDrafts ==
  [][~running /\ running' /\ unreadable = {} =>
       owed \subseteq Restored /\ Restored \subseteq allowed \cup {0}]_vars

(* A tab, and the draft that the snapshot keeps of it, belong to the collection *)
(* of their file, whatever collection was selected while they were open: it is *)
(* where a restart puts the draft and where saving it writes.                  *)
TabsKeepCollection ==
  unreadable = {} =>
    /\ \A i \in DOMAIN app.open_tabs :
         app.open_tabs[i].path # NoPath =>
           app.open_tabs[i].coll = app.open_tabs[i].path[1]
    /\ \A i \in DOMAIN disk.recovery.drafts :
         disk.recovery.drafts[i].file # NoPath =>
           disk.recovery.drafts[i].coll = disk.recovery.drafts[i].file[1]

(* What the response panel shows, and what "save as example" attaches to a     *)
(* file, is the answer to the request in the editor, however late it comes.    *)
ResponseOfShownRequest ==
  /\ app.response \in {0, app.request.id}
  /\ app.pending \in {0, app.request.id}
=============================================================================

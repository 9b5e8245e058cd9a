------------------------------ MODULE PreviewWall ------------------------------
(***************************************************************************)
(* Previews: one picture (run_preview_one) or a wall of them               *)
(* (run_preview_wall), called from the user interface                      *)
(* (ui/preview_run.py, ui/preview_wall.py).  A call stages the uploads,    *)
(* takes the process-wide GPU lane or is told that it is busy, opens one   *)
(* runtime session and generates its items in it.  Each item is published  *)
(* twice: as a private record in the evidence root and, after it, as a     *)
(* picture in the display root, which the browser may read.  A wall then   *)
(* publishes a manifest that lists the fate of every item.  When a process *)
(* starts, it reconciles the display root with the records.                *)
(*                                                                         *)
(* The file system keeps for every name whether it is there and whether    *)
(* its directory was fsynced since (volatile names may be lost with the    *)
(* power).  Any call of it may fail, the process may be killed, and a      *)
(* second process of the application may be started beside the first       *)
(* (Intruders).  File contents are fsynced before they are renamed.        *)
(***************************************************************************)
EXTENDS Naturals, Sequences

CONSTANTS
    Walls,      \* calls that ask for a wall
    Singles,    \* calls that ask for one picture
    WallSize,   \* items of a wall, at most 4
    Crashes,    \* bound: process deaths and power losses
    Intruders   \* bound: application processes started while this one runs

ASSUME WallAssumptions == WallSize \in Nat \ {0} /\ "free" \notin Walls \cup Singles

Calls == Walls \cup Singles
Count(c) == IF c \in Walls THEN WallSize ELSE 1
ItemsOf(c) == 1 .. Count(c)
Runs == Calls \X (1 .. WallSize)

VARIABLES
    record,     \* run -> the private record: "none", "named", "durable"
    picture,    \* run -> the display file: "none", "staged", "named", "durable"
    manifest,   \* wall -> "none", "named", "durable"
    listed,     \* wall -> the item results in its manifest
    previewPc,  \* call -> where it is
    staged,     \* call -> its staging directory exists
    session,    \* calls with an open runtime session
    previewLane, \* the call that holds the GPU lane
    results,    \* call -> the results of its items so far
    cleanup,    \* call -> the session's cleanup
    answer,     \* call -> what the caller was shown
    app,        \* the application: "down", "reconciling", "up"
    scan,       \* reconcilers at work: {[who, valid, left, removed]}
    crashes, intruders

callVars == <<previewPc, staged, session, previewLane, results, cleanup, answer>>
wallDisk == <<record, picture, manifest, listed>>
wallBounds == <<crashes, intruders>>
wallVars == <<callVars, wallDisk, app, scan, wallBounds>>

FreeLane == {"free"}
NoAnswer == [status |-> "none", shown |-> {}]
Item(status, reason) == [attempted |-> TRUE, status |-> status, reason |-> reason]
Unattempted(status, reason) == [attempted |-> FALSE, status |-> status, reason |-> reason]
Present == {"named", "durable"}

WallInit ==
    /\ record \in [Runs -> {"none"}]
    /\ picture \in [Runs -> {"none"}]
    /\ manifest = [w \in Walls |-> "none"]
    /\ listed = [w \in Walls |-> <<>>]
    /\ previewPc = [c \in Calls |-> "idle"]
    /\ staged = [c \in Calls |-> FALSE]
    /\ session = {}
    /\ previewLane = FreeLane
    /\ results = [c \in Calls |-> <<>>]
    /\ cleanup = [c \in Calls |-> "NOT_STARTED"]
    /\ answer = [c \in Calls |-> NoAnswer]
    /\ app = "down"
    /\ scan = {}
    /\ crashes = 0
    /\ intruders = 0

GoOn(c, l) == previewPc' = [previewPc EXCEPT ![c] = l]
At(c, l) == app = "up" /\ previewPc[c] = l

(***************************************************************************)
(* The staging of the uploads.  A failure in it removes what was staged;   *)
(* when that fails too, the directory stays.                               *)
(***************************************************************************)
ShowCaller(c, status, pictures) ==
    answer' = [answer EXCEPT ![c] = [status |-> status, shown |-> pictures]]

StageUploads(c) ==
    /\ At(c, "idle")
    /\ \/ GoOn(c, "bind") /\ staged' = [staged EXCEPT ![c] = TRUE] /\ UNCHANGED answer
       \/ /\ GoOn(c, "end")
          /\ \/ ShowCaller(c, "FAILED", {}) /\ UNCHANGED staged
             \/ ShowCaller(c, "STAGING_CLEANUP_FAILED", {}) /\ staged' = [staged EXCEPT ![c] = TRUE]
    /\ UNCHANGED <<session, previewLane, results, cleanup, wallDisk, app, scan, wallBounds>>

(* OpenPreviewUiFds: the roots and the staged files are opened and checked. *)
BindFds(c) ==
    /\ At(c, "bind")
    /\ \/ GoOn(c, "lane") /\ UNCHANGED answer
       \/ GoOn(c, "unstage") /\ ShowCaller(c, "UNAVAILABLE", {})
    /\ UNCHANGED <<staged, session, previewLane, results, cleanup, wallDisk, app, scan, wallBounds>>

(***************************************************************************)
(* The lane and the session.                                               *)
(***************************************************************************)
All(c, result) == [i \in ItemsOf(c) |-> result]
AfterSession(c) == IF c \in Walls THEN "manifest" ELSE "show"

TryLane(c) ==
    /\ At(c, "lane")
    /\ IF previewLane = FreeLane
       THEN previewLane' = {c} /\ GoOn(c, "open") /\ UNCHANGED results
       ELSE /\ results' = [results EXCEPT ![c] = All(c, Unattempted("BUSY", "GPU_BUSY"))]
            /\ GoOn(c, AfterSession(c))
            /\ UNCHANGED previewLane
    /\ UNCHANGED <<staged, session, cleanup, answer, wallDisk, app, scan, wallBounds>>

OpenSession(c) ==
    /\ At(c, "open")
    /\ \/ session' = session \cup {c} /\ GoOn(c, "generate") /\ UNCHANGED results
       \/ \E status \in {"FAILED", "UNAVAILABLE"} :
            /\ results' = [results EXCEPT ![c] = All(c, Unattempted(status, "SESSION"))]
            /\ GoOn(c, "close") /\ UNCHANGED session
    /\ UNCHANGED <<staged, previewLane, cleanup, answer, wallDisk, app, scan, wallBounds>>

(***************************************************************************)
(* The items: the job's input, its specification and the generation, then  *)
(* the two publications, then the close of the input, which turns a        *)
(* success into CLEANUP_FAILED.                                            *)
(***************************************************************************)
Current(c) == <<c, Len(results[c]) + 1>>
MustAbort(result) ==
    \/ result.status = "UNAVAILABLE"
    \/ result.reason \in {"PERSIST_FAILED", "CLEANUP_FAILED", "INTERNAL_FAILURE"}
Aborted(c, done) ==
    done \o [i \in 1 .. Count(c) - Len(done) |-> Unattempted("FAILED", "WALL_ABORTED")]
AfterItem(c, result) ==
    LET done == Append(results[c], result)
    IN  IF MustAbort(result) \/ Len(done) = Count(c)
        THEN results' = [results EXCEPT ![c] = Aborted(c, done)] /\ GoOn(c, "close")
        ELSE results' = [results EXCEPT ![c] = done] /\ GoOn(c, "generate")

Generate(c) ==
    /\ At(c, "generate")
    /\ \/ GoOn(c, "private") /\ UNCHANGED results
       \/ \E status \in {"FAILED", "UNAVAILABLE"} : AfterItem(c, Item(status, "GENERATION"))
    /\ UNCHANGED <<staged, session, previewLane, cleanup, answer, wallDisk, app, scan, wallBounds>>

PersistFailed(c) == AfterItem(c, Item("FAILED", "PERSIST_FAILED"))

(* _publish_private: staged, fsynced and renamed, then the root is fsynced. *)
PublishPrivate(c) ==
    /\ At(c, "private")
    /\ \/ record' = [record EXCEPT ![Current(c)] = "named"] /\ GoOn(c, "syncPrivate") /\ UNCHANGED results
       \/ PersistFailed(c) /\ UNCHANGED record
    /\ UNCHANGED <<picture, manifest, listed, staged, session, previewLane,
                   cleanup, answer, app, scan, wallBounds>>

SyncPrivate(c) ==
    /\ At(c, "syncPrivate")
    /\ \/ record' = [r \in Runs |-> IF record[r] = "named" THEN "durable" ELSE record[r]]
          /\ manifest' = [w \in Walls |-> IF manifest[w] = "named" THEN "durable" ELSE manifest[w]]
          /\ GoOn(c, "stageDisplay") /\ UNCHANGED results
       \/ PersistFailed(c) /\ UNCHANGED <<record, manifest>>
    /\ UNCHANGED <<picture, listed, staged, session, previewLane,
                   cleanup, answer, app, scan, wallBounds>>

(* _publish_display: a staged file in the display root, renamed, fsynced   *)
(* and read back; a failure unlinks the staged file only.                  *)
StageDisplay(c) ==
    /\ At(c, "stageDisplay")
    /\ \/ picture' = [picture EXCEPT ![Current(c)] = "staged"] /\ GoOn(c, "renameDisplay") /\ UNCHANGED results
       \/ PersistFailed(c) /\ UNCHANGED picture
    /\ UNCHANGED <<record, manifest, listed, staged, session, previewLane,
                   cleanup, answer, app, scan, wallBounds>>

RenameDisplay(c) ==
    /\ At(c, "renameDisplay")
    /\ \/ /\ picture[Current(c)] = "staged"
          /\ picture' = [picture EXCEPT ![Current(c)] = "named"]
          /\ GoOn(c, "syncDisplay") /\ UNCHANGED results
       \/ \E left \in {"none", picture[Current(c)]} :
            picture' = [picture EXCEPT ![Current(c)] = left] /\ PersistFailed(c)
    /\ UNCHANGED <<record, manifest, listed, staged, session, previewLane,
                   cleanup, answer, app, scan, wallBounds>>

Synced(pictures) == [r \in Runs |-> IF pictures[r] = "named" THEN "durable" ELSE pictures[r]]

NoSyncDisplay(c) ==  \* mutant: the display root is not fsynced
    /\ At(c, "syncDisplay")
    /\ GoOn(c, "closeInput") /\ UNCHANGED <<picture, results>>
    /\ UNCHANGED <<record, manifest, listed, staged, session, previewLane,
                   cleanup, answer, app, scan, wallBounds>>

SyncDisplay(c) ==
    /\ At(c, "syncDisplay")
    /\ \/ /\ picture[Current(c)] \in Present
          /\ picture' = Synced(picture)
          /\ GoOn(c, "closeInput") /\ UNCHANGED results
       \/ picture' \in {picture, Synced(picture)} /\ PersistFailed(c)
    /\ UNCHANGED <<record, manifest, listed, staged, session, previewLane,
                   cleanup, answer, app, scan, wallBounds>>

CloseInput(c) ==
    /\ At(c, "closeInput")
    /\ \E result \in {Item("COMPLETED", "OK"), Item("FAILED", "CLEANUP_FAILED")} : AfterItem(c, result)
    /\ UNCHANGED <<staged, session, previewLane, cleanup, answer, wallDisk, app, scan, wallBounds>>

(* An error the item does not translate (StoreIO from the close of a root) *)
(* ends the call: the session and the lane are given back, and the caller  *)
(* is shown an internal error.                                             *)
Escape(c) ==
    /\ At(c, "closeInput")
    /\ results' = [results EXCEPT ![c] = <<>>]
    /\ ShowCaller(c, "INTERNAL_ERROR", {})
    /\ session' = session \ {c} /\ previewLane' = FreeLane
    /\ GoOn(c, "unstage")
    /\ UNCHANGED <<staged, cleanup, wallDisk, app, scan, wallBounds>>

(***************************************************************************)
(* The end of the session: its resources are closed, then the lane.        *)
(***************************************************************************)
Degraded(c) ==
    IF c \in Singles /\ results[c][1].status = "COMPLETED"
    THEN results' = [results EXCEPT ![c] = <<Item("FAILED", "CLEANUP_FAILED")>>]
    ELSE UNCHANGED results

CloseSession(c) ==
    /\ At(c, "close")
    /\ session' = session \ {c}
    /\ \/ cleanup' = [cleanup EXCEPT ![c] = "COMPLETED"] /\ UNCHANGED results
       \/ /\ c \in session
          /\ cleanup' = [cleanup EXCEPT ![c] = "FAILED"]
          /\ Degraded(c)
    /\ GoOn(c, "release")
    /\ UNCHANGED <<staged, previewLane, answer, wallDisk, app, scan, wallBounds>>

ReleaseLane(c) ==
    /\ At(c, "release")
    /\ previewLane' = FreeLane /\ session' = session \ {c}
    /\ GoOn(c, AfterSession(c))
    /\ UNCHANGED <<staged, results, cleanup, answer, wallDisk, app, scan, wallBounds>>

(***************************************************************************)
(* The manifest of a wall.  Every completed item is read back from the     *)
(* evidence root before; the manifest is renamed, fsynced and read back.   *)
(***************************************************************************)
CompletedItems(items) == {i \in DOMAIN items : items[i].status = "COMPLETED"}
Status(items, cleaned) ==
    IF \A i \in DOMAIN items : items[i].status = "BUSY" THEN "BUSY"
    ELSE IF CompletedItems(items) = DOMAIN items /\ cleaned = "COMPLETED" THEN "COMPLETED"
    ELSE IF CompletedItems(items) # {} THEN "PARTIAL" ELSE "FAILED"

FailManifest(c) == ShowCaller(c, "FAILED", {}) /\ GoOn(c, "unstage")

PublishManifest(c) ==
    /\ At(c, "manifest")
    /\ \/ /\ \A i \in CompletedItems(results[c]) : record[<<c, i>>] \in Present
          /\ manifest' = [manifest EXCEPT ![c] = "named"]
          /\ listed' = [listed EXCEPT ![c] = results[c]]
          /\ GoOn(c, "syncManifest") /\ UNCHANGED answer
       \/ FailManifest(c) /\ UNCHANGED <<manifest, listed>>
    /\ UNCHANGED <<record, picture, staged, session, previewLane, results, cleanup, app, scan, wallBounds>>

SyncManifest(c) ==
    /\ At(c, "syncManifest")
    /\ \/ /\ record' = [r \in Runs |-> IF record[r] = "named" THEN "durable" ELSE record[r]]
          /\ manifest' = [w \in Walls |-> IF manifest[w] = "named" THEN "durable" ELSE manifest[w]]
          /\ GoOn(c, "show") /\ UNCHANGED answer
       \/ FailManifest(c) /\ UNCHANGED <<record, manifest>>
    /\ UNCHANGED <<picture, listed, staged, session, previewLane, results, cleanup, app, scan, wallBounds>>

(***************************************************************************)
(* The projection reads every completed picture again and compares its     *)
(* digest; then the staging directory is removed.                          *)
(***************************************************************************)
WallOverall(c) == IF c \in Walls THEN Status(results[c], cleanup[c]) ELSE results[c][1].status

Project(c) ==
    /\ At(c, "show")
    /\ \/ /\ \A i \in CompletedItems(results[c]) : picture[<<c, i>>] \in Present
          /\ ShowCaller(c, WallOverall(c), {<<c, i>> : i \in CompletedItems(results[c])})
       \/ CompletedItems(results[c]) # {} /\ ShowCaller(c, "UNAVAILABLE", {})
    /\ GoOn(c, "unstage")
    /\ UNCHANGED <<staged, session, previewLane, results, cleanup, wallDisk, app, scan, wallBounds>>

Unstage(c) ==
    /\ At(c, "unstage")
    /\ \/ staged' = [staged EXCEPT ![c] = FALSE] /\ UNCHANGED answer
       \/ ShowCaller(c, "STAGING_CLEANUP_FAILED", {}) /\ UNCHANGED staged
    /\ GoOn(c, "end")
    /\ UNCHANGED <<session, previewLane, results, cleanup, wallDisk, app, scan, wallBounds>>

(***************************************************************************)
(* reconcile_preview_display, when an application process starts: the      *)
(* valid records are read first, then every name of the display root that  *)
(* they do not back is removed.  It may fail in between; the previews are  *)
(* then bound as unavailable.                                              *)
(***************************************************************************)
Valid == {r \in Runs : record[r] \in Present}

Launch(who) ==
    /\ scan' = scan \cup {[who |-> who, valid |-> Valid, left |-> Runs, removed |-> FALSE]}

StartApplication ==
    /\ app = "down" /\ app' = "reconciling"
    /\ Launch("app")
    /\ UNCHANGED <<callVars, wallDisk, wallBounds>>

StartAnother ==
    /\ app = "up" /\ intruders < Intruders
    /\ intruders' = intruders + 1
    /\ Launch("other")
    /\ UNCHANGED <<callVars, wallDisk, app, crashes>>

Kept(s, r) == r \in s.valid /\ picture[r] \in Present

Reconcile(s) ==
    \E r \in s.left :
        /\ picture' = [picture EXCEPT ![r] = IF Kept(s, r) THEN @ ELSE "none"]
        /\ scan' = (scan \ {s}) \cup {[s EXCEPT !.left = @ \ {r},
                                         !.removed = @ \/ picture' # picture]}
        /\ UNCHANGED <<callVars, record, manifest, listed, app, wallBounds>>

(* The directory is fsynced only if something was removed from it. *)
Reconciled(s) ==
    /\ s.left = {}
    /\ scan' = scan \ {s}
    /\ app' = IF s.who = "app" THEN "up" ELSE app
    /\ picture' = IF s.removed THEN Synced(picture) ELSE picture
    /\ UNCHANGED <<callVars, record, manifest, listed, wallBounds>>

ReconcileFails(s) ==
    /\ scan' = scan \ {s}
    /\ app' = IF s.who = "app" THEN "unavailable" ELSE app
    /\ UNCHANGED <<callVars, wallDisk, wallBounds>>

(* The death of the processes, and the loss of the power: every name that  *)
(* was not fsynced may be gone.                                            *)

Die ==
    /\ app # "down" /\ crashes < Crashes
    /\ crashes' = crashes + 1
    /\ app' = "down" /\ scan' = {}
    /\ previewPc' = [c \in Calls |-> IF previewPc[c] = "idle" THEN "idle" ELSE "end"]
    /\ session' = {} /\ previewLane' = FreeLane
    /\ UNCHANGED <<staged, results, cleanup, answer, intruders>>

ProcessesDie == Die /\ UNCHANGED wallDisk

WallPowerLoss ==
    /\ Die
    /\ \E lostRecords \in SUBSET {r \in Runs : record[r] = "named"},
          lostPictures \in SUBSET {r \in Runs : picture[r] \in {"staged", "named"}},
          lostManifests \in SUBSET {w \in Walls : manifest[w] = "named"} :
        /\ record' = [r \in Runs |-> IF r \in lostRecords THEN "none" ELSE record[r]]
        /\ picture' = [r \in Runs |-> IF r \in lostPictures THEN "none" ELSE picture[r]]
        /\ manifest' = [w \in Walls |-> IF w \in lostManifests THEN "none" ELSE manifest[w]]
    /\ UNCHANGED listed

CallStep(c) ==
    \/ StageUploads(c) \/ BindFds(c) \/ TryLane(c) \/ OpenSession(c) \/ Generate(c)
    \/ PublishPrivate(c) \/ SyncPrivate(c) \/ StageDisplay(c) \/ RenameDisplay(c)
    \/ SyncDisplay(c) \/ CloseInput(c) \/ Escape(c) \/ CloseSession(c) \/ ReleaseLane(c)
    \/ PublishManifest(c) \/ SyncManifest(c) \/ Project(c) \/ Unstage(c)

Reconciling == \E s \in scan : Reconcile(s) \/ Reconciled(s) \/ ReconcileFails(s)

WallNext ==
    \/ StartApplication \/ StartAnother \/ Reconciling \/ ProcessesDie \/ WallPowerLoss
    \/ \E c \in Calls : CallStep(c)

WallSpec == WallInit /\ [][WallNext]_wallVars

--------------------------------------------------------------------------------
ItemResults == [attempted : BOOLEAN, status : {"COMPLETED", "FAILED", "UNAVAILABLE", "BUSY"},
    reason : {"OK", "GPU_BUSY", "SESSION", "GENERATION", "PERSIST_FAILED", "CLEANUP_FAILED", "WALL_ABORTED"}]

(* Types; and what PreviewWallItemResult and PreviewRunOneResult refuse to *)
(* be built from: a completed item was attempted and is OK, a busy one was *)
(* not attempted.                                                          *)
WallTypeOK ==
    /\ record \in [Runs -> {"none", "named", "durable"}]
    /\ picture \in [Runs -> {"none", "staged", "named", "durable"}]
    /\ previewLane \in {FreeLane} \cup {{c} : c \in Calls} /\ session \subseteq Calls
    /\ app \in {"down", "reconciling", "up", "unavailable"}
    /\ \A c \in Calls : \A i \in DOMAIN results[c] :
        LET item == results[c][i]
        IN  /\ item \in ItemResults
            /\ item.status = "COMPLETED" => item.attempted /\ item.reason = "OK"
            /\ item.status = "BUSY" => ~item.attempted

(* No picture without its private record: publish_preview_evidence makes   *)
(* the record durable before the picture has its name, so that also a loss *)
(* of power leaves none, and the reconciler never has to choose.           *)
PictureHasRecord == \A r \in Runs : picture[r] \in Present => record[r] \in Present

(* What a caller was shown as completed is there for good: record and      *)
(* picture survive a death, a loss of power and the reconciliation at the  *)
(* next start.  A second process of the application may remove the picture *)
(* (it lists the records before the pictures), but never the record.       *)
ShownIsDurable ==
    \A c \in Calls : \A r \in answer[c].shown :
        record[r] = "durable" /\ (picture[r] = "durable" \/ intruders > 0)

(* The manifest of a wall tells the truth, for good: it is there when the  *)
(* wall was answered with its items, a completed item has its record and   *)
(* picture, and an item it calls unattempted left nothing behind.          *)
ManifestIsTrue ==
    \A w \in Walls :
        /\ manifest[w] # "none" =>
            \A i \in DOMAIN listed[w] :
                /\ listed[w][i].status = "COMPLETED" => record[<<w, i>>] = "durable"
                /\ ~listed[w][i].attempted => record[<<w, i>>] = "none" /\ picture[<<w, i>>] = "none"
        /\ answer[w].shown # {} => manifest[w] = "durable"

(* Two sessions never have the GPU: a session is opened and closed under   *)
(* the process-wide lane.                                                  *)
SessionUnderLane == \A c \in session : previewLane = {c}

(* A call that has ended holds nothing, and the uploads are still there    *)
(* only when the caller was told so or the process died.                   *)
EndsEmptyHanded ==
    \A c \in Calls : previewPc[c] = "end" =>
        /\ c \notin session /\ previewLane # {c}
        /\ staged[c] => answer[c].status = "STAGING_CLEANUP_FAILED" \/ crashes > 0

(* When the application comes up, the display root holds exactly pictures  *)
(* with records: no staged file of an earlier life is left.                *)
CleanStart ==
    [][app = "reconciling" /\ app' = "up" =>
           \A r \in Runs : picture'[r] # "none" =>
               picture'[r] \in Present /\ record'[r] \in Present]_wallVars

(* No picture without its record, what was shown as completed is durable,  *)
(* and a manifest tells the truth. A session is opened and closed in the   *)
(* lane, a call that has ended holds nothing, and the application starts   *)
(* with pictures that have records.                                        *)
PreviewIsTrue ==
    /\ [](WallTypeOK /\ PictureHasRecord /\ ShownIsDurable)
    /\ [](ManifestIsTrue /\ SessionUnderLane /\ EndsEmptyHanded)
    /\ CleanStart

================================================================================

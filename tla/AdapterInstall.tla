--------------------------- MODULE AdapterInstall ---------------------------
(***************************************************************************)
(* The installer of the Preview adapter                                     *)
(* (deployment/amd/scripts/install_preview_adapter.py) and the reader that  *)
(* admits what it installed (production/preview_supply_config.py,           *)
(* generation/preview_adapter_supply.py).  Installers may run side by side, *)
(* be killed between any two system calls, and be started again; power may  *)
(* be lost.  The reader lists the adapter directory, hashes the weight, and *)
(* only then issues the adapter.                                            *)
(*                                                                          *)
(* A directory of configuration documents is a record: the documents that   *)
(* hold exactly what the pinned revision says, and whether anything else is *)
(* in it (a temporary file, or documents of another revision).              *)
(***************************************************************************)
EXTENDS Naturals, FiniteSets

CONSTANTS
    Installers,   \* processes running install_preview_adapter
    ConfigDocuments, \* models.json, weight_manifests.json, license_approvals.json
    Names,        \* the temporary names secrets.token_hex can give a download
    MaxKills,     \* bound: installers killed
    PowerCuts,    \* bound: losses of power
    Faults,       \* bound: failed downloads and writes
    Stuck,        \* bound: failed unlinks
    Missing       \* no file, no directory

ASSUME AdapterAssumptions ==
    /\ ConfigDocuments # {}
    /\ Missing \notin Names \cup [docs : SUBSET ConfigDocuments, other : BOOLEAN]
    /\ MaxKills \in Nat /\ PowerCuts \in Nat /\ Faults \in Nat /\ Stuck \in Nat

VARIABLES
    adapterPc, \* where each installer is
    current,   \* config_current, read before the weight is installed
    temp,      \* the temporary file of an installer's download, or Missing
    bytes,     \* what that file holds: "none", "short" or "whole"
    staged,    \* an installer's staging directory, or Missing
    listing,   \* the files of the adapter directory: temporary ones
    weight,    \* WEIGHT_NAME in it: "none", "bad" or "good"
    config,    \* runtime/preview-config, or Missing
    adapterDisk, \* what a loss of power leaves of weight and config
    parents,   \* whether preview/lcm-lora-sdxl/adapter is on disk for good
    adapterAnswer, \* what each installer printed last: "-", "PASS" or "FAIL"
    reader,    \* the reader: "idle", "listed", "refused" or "serving"
    kills, cuts, faults, stuck

installing == <<adapterPc, current, temp, bytes, staged, adapterAnswer>>
files == <<listing, weight, config, adapterDisk, parents>>
bounds == <<kills, cuts, faults, stuck>>
adapterVars == <<installing, files, reader, bounds>>

Directory == [docs : SUBSET ConfigDocuments, other : BOOLEAN]
EmptyDirectory == [docs |-> {}, other |-> FALSE]
Published == [docs |-> ConfigDocuments, other |-> FALSE]

\* preview_config_documents, whose digests close the loop.
Pinned(directory) == directory # Missing /\ directory.docs = ConfigDocuments

\* _verify_config_snapshot: the three names and nothing else, each with the
\* canonical bytes.
Exact(directory) == Pinned(directory) /\ ~directory.other

States == {"start", "weight", "download", "sync", "replace", "syncdir",
           "unlink", "choose", "stage", "write", "rename", "swap", "syncroot",
           "clean", "done", "dead"}

AdapterTypeOK ==
    /\ adapterPc \in [Installers -> States]
    /\ current \in [Installers -> BOOLEAN]
    /\ temp \in [Installers -> Names \cup {Missing}]
    /\ bytes \in [Installers -> {"none", "short", "whole"}]
    /\ staged \in [Installers -> Directory \cup {Missing}]
    /\ listing \subseteq Names
    /\ weight \in {"none", "bad", "good"}
    /\ config \in Directory \cup {Missing}
    /\ adapterDisk \in [weight : {"none", "bad", "good"}, config : Directory \cup {Missing}]
    /\ parents \in BOOLEAN
    /\ adapterAnswer \in [Installers -> {"-", "PASS", "FAIL"}]
    /\ reader \in {"idle", "listed", "refused", "serving"}
    /\ kills \in 0..MaxKills /\ cuts \in 0..PowerCuts /\ faults \in 0..Faults
    /\ stuck \in 0..Stuck

-----------------------------------------------------------------------------
Go(i, state) == adapterPc' = [adapterPc EXCEPT ![i] = state]

Answer(i, status) ==
    /\ Go(i, "done")
    /\ adapterAnswer' = [adapterAnswer EXCEPT ![i] = status]

\* A fault of the environment, as long as the bound allows one.
Fault == faults < Faults /\ faults' = faults + 1

(***************************************************************************)
(* _existing_config_is_current: no directory is a first installation; a     *)
(* directory that is not exactly the pinned one ends the installer.         *)
(***************************************************************************)
ReadConfig(i) ==
    /\ adapterPc[i] = "start"
    /\ IF config = Missing \/ Exact(config)
         THEN /\ current' = [current EXCEPT ![i] = config # Missing]
              /\ Go(i, "weight")
              /\ UNCHANGED adapterAnswer
         ELSE /\ Answer(i, "FAIL")
              /\ UNCHANGED current
    /\ UNCHANGED <<temp, bytes, staged, files, reader, bounds>>

\* _existing_weight_valid, and the temporary file of _download_weight.
CheckWeight(i) ==
    /\ adapterPc[i] = "weight"
    /\ IF weight = "good"
         THEN Go(i, "choose") /\ UNCHANGED <<temp, bytes, listing>>
         ELSE \E name \in Names \ listing :
                /\ temp' = [temp EXCEPT ![i] = name]
                /\ bytes' = [bytes EXCEPT ![i] = "none"]
                /\ listing' = listing \cup {name}
                /\ Go(i, "download")
    /\ UNCHANGED <<current, staged, adapterAnswer, weight, config, adapterDisk, parents,
                   reader, bounds>>

\* A call of _download_weight succeeds, or fails and the download is given up;
\* what has been published by then stays.
Proceed(i, state) == Go(i, state) /\ UNCHANGED <<bytes, faults>>
GiveUp(i) == Fault /\ bytes' = [bytes EXCEPT ![i] = "short"] /\ Go(i, "unlink")

\* _copy_response, and the digest of what arrived: a short or altered
\* response is refused.
Download(i) ==
    /\ adapterPc[i] = "download"
    /\ \/ bytes' = [bytes EXCEPT ![i] = "whole"] /\ Go(i, "sync") /\ UNCHANGED faults
       \/ GiveUp(i)
    /\ UNCHANGED <<current, temp, staged, adapterAnswer, files, reader, kills, cuts, stuck>>

\* os.fsync of the file, before it takes the weight's name.
SyncFile(i) ==
    /\ adapterPc[i] = "sync"
    /\ Proceed(i, "replace") \/ GiveUp(i)
    /\ UNCHANGED <<current, temp, staged, adapterAnswer, files, reader, kills, cuts, stuck>>

\* os.replace onto WEIGHT_NAME: the temporary name is gone.
ReplaceWeight(i) ==
    /\ adapterPc[i] = "replace"
    /\ \/ /\ weight' = IF bytes[i] = "whole" THEN "good" ELSE "bad"
          /\ listing' = listing \ {temp[i]}
          /\ Proceed(i, "syncdir")
       \/ GiveUp(i) /\ UNCHANGED <<weight, listing>>
    /\ UNCHANGED <<current, temp, staged, adapterAnswer, config, adapterDisk, parents,
                   reader, kills, cuts, stuck>>

\* os.fsync of the adapter directory: it lasts if the directories above it do,
\* and nobody syncs those.
SyncDirectory(i) ==
    /\ adapterPc[i] = "syncdir"
    /\ LET synced == IF parents THEN [adapterDisk EXCEPT !.weight = weight] ELSE adapterDisk
       IN  \/ Proceed(i, "unlink") /\ adapterDisk' = synced
           \/ GiveUp(i) /\ adapterDisk' \in {adapterDisk, synced}
    /\ UNCHANGED <<current, temp, staged, adapterAnswer, listing, weight, config,
                   parents, reader, kills, cuts, stuck>>

\* The finally clause of _download_weight: a failure to unlink is ignored.
UnlinkTemporary(i) ==
    /\ adapterPc[i] = "unlink"
    /\ \/ listing' = listing \ {temp[i]} /\ UNCHANGED stuck
       \/ /\ temp[i] \in listing /\ stuck < Stuck
          /\ stuck' = stuck + 1
          /\ UNCHANGED listing
    /\ temp' = [temp EXCEPT ![i] = Missing]
    /\ IF bytes[i] = "whole" THEN Go(i, "choose") /\ UNCHANGED adapterAnswer
                             ELSE Answer(i, "FAIL")
    /\ UNCHANGED <<current, bytes, staged, weight, config, adapterDisk, parents, reader,
                   kills, cuts, faults>>

\* install_preview_adapter goes by what it read of the configuration at first.
Choose(i) ==
    /\ adapterPc[i] = "choose"
    /\ IF current[i]
         THEN Answer(i, "PASS") /\ UNCHANGED staged
         ELSE /\ staged' = [staged EXCEPT ![i] = EmptyDirectory]
              /\ Go(i, "write")
              /\ UNCHANGED adapterAnswer
    /\ UNCHANGED <<current, temp, bytes, files, reader, bounds>>

(***************************************************************************)
(* _publish_config_snapshot: each document by _atomic_write_config, in a    *)
(* staging directory, then _verify_config_snapshot, then os.replace of the  *)
(* directory, which an os.replace onto a directory with files refuses.      *)
(***************************************************************************)
WriteDocument(i) ==
    /\ adapterPc[i] = "write"
    /\ \/ /\ staged' = [staged EXCEPT ![i].other = TRUE]
          /\ Go(i, "rename")
          /\ UNCHANGED faults
       \/ /\ Fault
          /\ Go(i, "clean")
          /\ UNCHANGED staged
    /\ UNCHANGED <<current, temp, bytes, adapterAnswer, files, reader, kills, cuts, stuck>>

SwapEarly(i) ==  \* mutant: the directory takes its name with the first document
    /\ adapterPc[i] = "rename"
    /\ \E document \in ConfigDocuments \ staged[i].docs :
         staged' = [staged EXCEPT ![i] = [docs |-> @.docs \cup {document},
                                          other |-> FALSE]]
    /\ Go(i, "swap")
    /\ UNCHANGED <<current, temp, bytes, adapterAnswer, files, reader, bounds>>

RenameDocument(i) ==
    /\ adapterPc[i] = "rename"
    /\ \/ /\ \E document \in ConfigDocuments \ staged[i].docs :
               staged' = [staged EXCEPT ![i] = [docs |-> @.docs \cup {document},
                                                other |-> FALSE]]
          /\ Go(i, IF Exact(staged'[i]) THEN "swap" ELSE "write")
          /\ UNCHANGED faults
       \/ Fault /\ Go(i, "clean") /\ UNCHANGED staged
    /\ UNCHANGED <<current, temp, bytes, adapterAnswer, files, reader, kills, cuts, stuck>>

SwapConfig(i) ==
    /\ adapterPc[i] = "swap"
    /\ \/ /\ config \in {Missing, EmptyDirectory}
          /\ config' = staged[i]
          /\ staged' = [staged EXCEPT ![i] = Missing]
          /\ Go(i, "syncroot")
          /\ UNCHANGED faults
       \/ /\ IF config \in {Missing, EmptyDirectory} THEN Fault ELSE UNCHANGED faults
          /\ Go(i, "clean") /\ UNCHANGED <<config, staged>>
    /\ UNCHANGED <<current, temp, bytes, adapterAnswer, listing, weight, adapterDisk, parents,
                   reader, kills, cuts, stuck>>

\* The directory that was published stays when its fsync fails.
SyncRuntime(i) ==
    /\ adapterPc[i] = "syncroot"
    /\ LET synced == [adapterDisk EXCEPT !.config = config]
       IN  \/ adapterDisk' = synced /\ Answer(i, "PASS") /\ UNCHANGED faults
           \/ adapterDisk' \in {adapterDisk, synced} /\ Answer(i, "FAIL") /\ Fault
    /\ UNCHANGED <<current, temp, bytes, staged, listing, weight, config, parents,
                   reader, kills, cuts, stuck>>

\* _cleanup_staged_config: the staging directory goes, the error stays.
CleanStaging(i) ==
    /\ adapterPc[i] = "clean"
    /\ staged' = [staged EXCEPT ![i] = Missing]
    /\ Answer(i, "FAIL")
    /\ UNCHANGED <<current, temp, bytes, files, reader, bounds>>

Installer(i) ==
    \/ ReadConfig(i) \/ CheckWeight(i) \/ Download(i) \/ SyncFile(i)
    \/ ReplaceWeight(i) \/ SyncDirectory(i) \/ UnlinkTemporary(i) \/ Choose(i)
    \/ WriteDocument(i) \/ RenameDocument(i) \/ SwapConfig(i) \/ SyncRuntime(i)
    \/ CleanStaging(i)

-----------------------------------------------------------------------------
\* The operator runs the script again after a FAIL or a crash.
Fresh(i) ==
    /\ Go(i, "start")
    /\ current' = [current EXCEPT ![i] = FALSE]
    /\ bytes' = [bytes EXCEPT ![i] = "none"]
    /\ adapterAnswer' = [adapterAnswer EXCEPT ![i] = "-"]

RunAgain(i) ==
    /\ adapterPc[i] = "dead" \/ (adapterPc[i] = "done" /\ adapterAnswer[i] = "FAIL")
    /\ Fresh(i)
    /\ UNCHANGED <<temp, staged, files, reader, bounds>>

\* After an update of the runtime the operator installs once more.
InstallAgain(i) ==
    /\ adapterPc[i] = "done" /\ adapterAnswer[i] = "PASS"
    /\ weight # "good" \/ ~Exact(config)
    /\ Fresh(i)
    /\ UNCHANGED <<temp, staged, files, reader, bounds>>

\* A killed installer runs no finally clause: its temporary file and its
\* staging directory stay where they are, and no later run knows their names.
Kill(i) ==
    /\ adapterPc[i] \notin {"done", "dead"} /\ kills < MaxKills
    /\ kills' = kills + 1
    /\ Go(i, "dead")
    /\ temp' = [temp EXCEPT ![i] = Missing]
    /\ staged' = [staged EXCEPT ![i] = Missing]
    /\ UNCHANGED <<current, bytes, adapterAnswer, files, reader, cuts, faults, stuck>>

\* Power is lost: every process ends, and what was not synced may be undone.
LosePower ==
    /\ cuts < PowerCuts
    /\ cuts' = cuts + 1
    /\ \E kept \in SUBSET {"weight", "config", "temporary"} :
         /\ weight' = IF "weight" \in kept THEN weight ELSE adapterDisk.weight
         /\ config' = IF "config" \in kept THEN config ELSE adapterDisk.config
         /\ listing' = IF "temporary" \in kept THEN listing ELSE {}
    /\ adapterDisk' = [weight |-> weight', config |-> config']
    /\ parents' = (parents \/ weight' # "none")
    /\ adapterPc' = [i \in Installers |-> IF adapterPc[i] = "done" THEN "done" ELSE "dead"]
    /\ temp' = [i \in Installers |-> Missing]
    /\ staged' = [i \in Installers |-> Missing]
    /\ reader' = "idle"
    /\ UNCHANGED <<current, bytes, adapterAnswer, kills, faults, stuck>>

-----------------------------------------------------------------------------
(***************************************************************************)
(* The reader: load_preview_supply_config reads the documents by their      *)
(* names; _verify_component wants exactly the manifest's files, then hashes *)
(* them; what it issues keeps the directory open.                           *)
(***************************************************************************)
\* load_fixed_json_documents and the closed loop of model, manifest, approval.
Loads == Pinned(config)

\* _listed_files equals the paths of the manifest.
ListedIsManifest == listing = {} /\ weight # "none"

\* _read_and_hash: the size and the digest of the manifest.
HashMatches == weight = "good"

ListAdapter ==
    /\ reader = "idle"
    /\ reader' = IF Loads /\ ListedIsManifest THEN "listed" ELSE "refused"
    /\ UNCHANGED <<installing, files, bounds>>

HashAdapter ==
    /\ reader = "listed"
    /\ reader' = IF HashMatches THEN "serving" ELSE "refused"
    /\ UNCHANGED <<installing, files, bounds>>

CloseAdapter ==
    /\ reader \in {"refused", "serving"}
    /\ reader' = "idle"
    /\ UNCHANGED <<installing, files, bounds>>

Reader == ListAdapter \/ HashAdapter \/ CloseAdapter

-----------------------------------------------------------------------------
\* What nobody, or a release whose documents this one cannot read, left in the
\* runtime directory.
AdapterInit ==
    /\ adapterPc = [i \in Installers |-> "start"]
    /\ current = [i \in Installers |-> FALSE]
    /\ temp = [i \in Installers |-> Missing]
    /\ bytes = [i \in Installers |-> "none"]
    /\ staged = [i \in Installers |-> Missing]
    /\ listing = {}
    /\ weight \in {"none", "bad"}
    /\ config \in {Missing, [docs |-> {}, other |-> TRUE]}
    /\ adapterDisk = [weight |-> weight, config |-> config]
    /\ parents = (weight = "bad")
    /\ adapterAnswer = [i \in Installers |-> "-"]
    /\ reader = "idle"
    /\ kills = 0 /\ cuts = 0 /\ faults = 0 /\ stuck = 0

AdapterNext ==
    \/ \E i \in Installers : Installer(i) \/ RunAgain(i) \/ InstallAgain(i) \/ Kill(i)
    \/ Reader
    \/ LosePower

AdapterSpec == AdapterInit /\ [][AdapterNext]_adapterVars

\* The installers take their steps and the operator runs the script until it
\* says PASS.
FairSpec ==
    /\ AdapterSpec
    /\ \A i \in Installers : WF_adapterVars(Installer(i) \/ RunAgain(i) \/ InstallAgain(i))

-----------------------------------------------------------------------------
\* The configuration that Preview reads is the one that was there or the whole
\* pinned one: no installer changes a directory it did not make, and none is
\* ever seen half written.
ConfigWholeOrUntouched ==
    [][config' # config /\ cuts' = cuts
         => config = Missing /\ Exact(config')]_adapterVars

\* An installer says PASS only with the pinned weight and the whole
\* configuration in place, whatever the others did meanwhile.
PassIsInstalled ==
    [][\A i \in Installers :
         adapterAnswer[i] = "-" /\ adapterAnswer'[i] = "PASS" /\ cuts = 0
           => weight = "good" /\ Exact(config)]_adapterVars

\* While Preview holds an adapter, its weight has the pinned digest and the
\* configuration is the pinned one: the reader hashes after it listed, and an
\* installer at work beside it never puts anything else under the weight's name.
ServedIsPinned ==
    reader = "serving" => weight = "good" /\ config = Published

\* What an installer that was not killed put beside the weight is gone when it
\* answers, also when it answers FAIL.
NoLitter ==
    (kills = 0 /\ cuts = 0 /\ stuck = 0 /\ \A i \in Installers : adapterPc[i] = "done")
      => listing = {} /\ \A i \in Installers : staged[i] = Missing

\* Preview serves the pinned adapter only, and an installer leaves nothing
\* beside it. An installer publishes the whole configuration or nothing, and
\* says PASS when everything is in place.
AdapterIsPinned ==
    /\ [](AdapterTypeOK /\ ServedIsPinned /\ NoLitter)
    /\ ConfigWholeOrUntouched /\ PassIsInstalled

\* With a runtime directory of no other release, the weight and the
\* configuration are in place from some moment on, whatever was killed or lost.
EventuallyInstalled ==
    (config = Missing) => <>[](weight = "good" /\ Exact(config))

=============================================================================

--------------------------- MODULE ContextMigration ---------------------------
(***************************************************************************)
(* The migration of the production context                                 *)
(* (deployment/context_migration.py and its two plans).  A run recognises  *)
(* the context.json of the config root as the source or the target of its  *)
(* plan, writes a backup and a PREPARED record into the audit root, stages *)
(* and checks the target, replaces context.json, checks it again and       *)
(* writes a COMMITTED record; a failure after the replacement is rolled    *)
(* back.  A rerun that finds the target without being told so recovers the *)
(* missing commit from the audit files.                                    *)
(*                                                                         *)
(* Contents are numbered along the two plans of the repository: plan 1     *)
(* (retire_legacy_smoke_threshold) leads from 0 to 1, plan 2               *)
(* (enable_preview_lcm_context) from 1 to 2; Foreign is recognised by no   *)
(* plan.  `by' is the plan that published a content, 0 if none did.  Names *)
(* are "named" until their directory is fsynced, then "durable"; the other *)
(* writers of context.json (operators) are Edit.                           *)
(***************************************************************************)
EXTENDS Naturals, FiniteSets

CONSTANTS
    Migrators,     \* processes that run a migration
    LastPlan,      \* number of plans
    Rerun,         \* a process may start another migration after one
    Failures,      \* bound: calls of the operating system that fail
    Crashes,       \* bound: processes killed
    PowerLosses,   \* bound
    Edits          \* bound: changes of context.json by somebody else

PlanIds == 1 .. LastPlan
Foreign == LastPlan + 1
Contents == 0 .. Foreign
Kinds == {"backup", "prepared", "committed"}
Files == Kinds \X PlanIds

VARIABLES
    ctx,       \* context.json: [content, by]
    disk,      \* what it may be after a power loss
    audit,     \* file -> "none", "named", "durable"
    temps,     \* audit files with a temporary file
    stages,    \* staging directories: {<<migrator, content>>}
    lock,      \* the migrator that holds the flock, as a set
    pc, sub,   \* migrator -> its step, and its step of _write_once
    plan,      \* migrator -> its plan
    seen,      \* migrator -> the context it captured
    fresh,     \* migrator -> context.json is still that file
    answer,    \* migrator -> its result
    failures, crashes, losses, edits

online == <<ctx, disk>>
trail == <<audit, temps>>
process == <<pc, sub, plan, seen, fresh, answer>>
bounds == <<failures, crashes, losses, edits>>
vars == <<online, trail, stages, lock, process, bounds>>

Source(p) == p - 1
Here(c) == [content |-> c, by |-> 0]

Init ==
    /\ ctx = Here(0) /\ disk = {Here(0)}
    /\ audit = [f \in Files |-> "none"] /\ temps = {}
    /\ stages = {} /\ lock = {}
    /\ pc = [m \in Migrators |-> "idle"] /\ sub = [m \in Migrators |-> "check"]
    /\ plan = [m \in Migrators |-> 1]
    /\ seen = [m \in Migrators |-> Here(0)]
    /\ fresh = [m \in Migrators |-> FALSE]
    /\ answer = [m \in Migrators |-> "none"]
    /\ failures = 0 /\ crashes = 0 /\ losses = 0 /\ edits = 0

Goto(m, l) == pc' = [pc EXCEPT ![m] = l]
Answer(m, a) == answer' = [answer EXCEPT ![m] = a]
Fault == failures < Failures /\ failures' = failures + 1
NoFault == UNCHANGED failures
disturbances == <<crashes, losses, edits>>

(* context.json is replaced: nobody else's capture is of this file. *)
Replace(x) ==
    /\ ctx' = x /\ disk' = disk \cup {x}
    /\ fresh' = [m \in Migrators |-> FALSE]

(***************************************************************************)
(* The start of a run: only an apply takes the lock, without waiting.      *)
(***************************************************************************)
Enter(m, p) ==
    /\ pc[m] = "idle"
    /\ plan' = [plan EXCEPT ![m] = p]
    /\ Answer(m, "none")
    /\ Goto(m, "lock")
    /\ UNCHANGED <<online, trail, stages, lock, sub, seen, fresh, bounds>>

Return(m, a) ==
    /\ Answer(m, a) /\ Goto(m, IF Rerun THEN "idle" ELSE "end")
    /\ lock' = lock \ {m}

Lock(m) ==
    /\ pc[m] = "lock"
    /\ \/ lock = {} /\ lock' = {m} /\ Goto(m, "capture") /\ UNCHANGED answer /\ NoFault
       \/ lock # {} /\ Return(m, "REFUSED") /\ NoFault
       \/ Return(m, "REFUSED") /\ Fault
    /\ UNCHANGED <<online, trail, stages, sub, plan, seen, fresh, disturbances>>

(* The snapshot, and what it is recognised as; `expected' is the digest    *)
(* the operator gave.  (Without --apply the run ends here.)                *)
Capture(m, expected) ==
    /\ pc[m] = "capture"
    /\ seen' = [seen EXCEPT ![m] = ctx]
    /\ fresh' = [fresh EXCEPT ![m] = TRUE]
    /\ LET p == plan[m]
       IN  \/ /\ ctx.content = Source(p) /\ expected = Source(p)
              /\ Goto(m, "backup") /\ UNCHANGED <<answer, lock>> /\ NoFault
           \/ /\ ctx.content = p /\ expected = p
              /\ Return(m, "ALREADY") /\ NoFault
           \/ /\ ctx.content = p /\ expected = Source(p)
              /\ Goto(m, "recover") /\ UNCHANGED <<answer, lock>> /\ NoFault
           \/ /\ <<ctx.content, expected>> \notin {<<Source(p), Source(p)>>, <<p, p>>, <<p, Source(p)>>}
              /\ Return(m, "REFUSED") /\ NoFault
           \/ Return(m, "REFUSED") /\ Fault
    /\ UNCHANGED <<online, trail, stages, sub, plan, disturbances>>

(***************************************************************************)
(* _write_once: temporaries of an earlier life are removed; a file that is *)
(* there with the right bytes is accepted; otherwise the bytes are written *)
(* to a temporary file, linked, and the directory is fsynced.              *)
(***************************************************************************)
File(m) == <<IF pc[m] = "recommit" THEN "committed" ELSE pc[m], plan[m]>>
Writing(m) == pc[m] \in Kinds \cup {"recommit"}
AllSynced == [f \in Files |-> IF audit[f] = "named" THEN "durable" ELSE audit[f]]
After(l) ==
    CASE l = "backup" -> "prepared"
      [] l = "prepared" -> "stage"
      [] l = "committed" -> "applied"
      [] l = "recommit" -> "recovered"

(* Where a failure leads: a run that has published rolls back. *)
OnFailure(m) ==
    CASE pc[m] \in {"backup", "prepared", "recommit"} -> "refused"
      [] pc[m] \in {"committed", "sync", "verify", "still"} -> "rollback"
      [] OTHER -> "unstage"

Twice == failures + 1 < Failures /\ failures' = failures + 2
FailsTwice(m) == Goto(m, OnFailure(m)) /\ sub' = [sub EXCEPT ![m] = "check"] /\ Twice
Fails(m) == Goto(m, OnFailure(m)) /\ sub' = [sub EXCEPT ![m] = "check"] /\ Fault
Proceeds(m, s) == UNCHANGED pc /\ sub' = [sub EXCEPT ![m] = s] /\ NoFault
Written(m) == Goto(m, After(pc[m])) /\ sub' = [sub EXCEPT ![m] = "check"] /\ NoFault

CheckFile(m) ==
    /\ Writing(m) /\ sub[m] = "check"
    /\ \/ /\ temps' = temps \ {File(m)}
          /\ audit' = IF File(m) \in temps THEN AllSynced ELSE audit
          /\ IF audit[File(m)] = "none" THEN Proceeds(m, "temp") ELSE Written(m)
       \/ temps' \in {temps, temps \ {File(m)}} /\ UNCHANGED audit /\ Fails(m)
    /\ UNCHANGED <<online, stages, lock, plan, seen, fresh, answer, disturbances>>

WriteTemp(m) ==
    /\ Writing(m) /\ sub[m] = "temp"
    /\ \/ temps' = temps \cup {File(m)} /\ Proceeds(m, "link")
       \/ UNCHANGED temps /\ Fails(m)
    /\ UNCHANGED <<online, audit, stages, lock, plan, seen, fresh, answer, disturbances>>

LinkFile(m) ==
    /\ Writing(m) /\ sub[m] = "link"
    /\ \/ audit' = [audit EXCEPT ![File(m)] = "named"] /\ UNCHANGED temps /\ Proceeds(m, "unlink")
       \/ UNCHANGED audit /\ temps' = temps \ {File(m)} /\ Fails(m)
    /\ UNCHANGED <<online, stages, lock, plan, seen, fresh, answer, disturbances>>

UnlinkTemp(m) ==
    /\ Writing(m) /\ sub[m] = "unlink"
    /\ \/ temps' = temps \ {File(m)} /\ UNCHANGED audit /\ Proceeds(m, "sync")
       \/ temps' = temps \ {File(m)} /\ audit' = [AllSynced EXCEPT ![File(m)] = "none"] /\ Fails(m)
       \/ temps' \in {temps, temps \ {File(m)}} /\ UNCHANGED audit /\ FailsTwice(m)
    /\ UNCHANGED <<online, stages, lock, plan, seen, fresh, answer, disturbances>>

SyncAudit(m) ==
    /\ Writing(m) /\ sub[m] = "sync"
    /\ \/ audit' = AllSynced /\ Written(m)
       \/ audit' = [AllSynced EXCEPT ![File(m)] = "none"] /\ Fails(m)
       \/ UNCHANGED audit /\ FailsTwice(m)
    /\ UNCHANGED <<online, temps, stages, lock, plan, seen, fresh, answer, disturbances>>

(***************************************************************************)
(* _apply after the audit: the target is staged and checked, the online    *)
(* file must still be the captured one, and is replaced.                   *)
(***************************************************************************)
Then(m, l) == Goto(m, l) /\ NoFault
Else(m, l) == Goto(m, l) /\ Fault

Stage(m) ==
    /\ pc[m] = "stage"
    /\ \/ stages' = stages \cup {<<m, plan[m]>>} /\ Then(m, "check")
       \/ UNCHANGED stages /\ Else(m, "refused")
    /\ UNCHANGED <<online, trail, lock, sub, plan, seen, fresh, answer, disturbances>>

PublishUnchecked(m) ==  \* mutant: the online file is not looked at again
    /\ pc[m] = "check" /\ Then(m, "publish")
    /\ UNCHANGED <<online, trail, stages, lock, sub, plan, seen, fresh, answer, disturbances>>

CheckOnline(m) ==
    /\ pc[m] = "check"
    /\ \/ fresh[m] /\ Then(m, "publish")
       \/ ~fresh[m] /\ Then(m, "unstage")
       \/ Else(m, "unstage")
    /\ UNCHANGED <<online, trail, stages, lock, sub, plan, seen, fresh, answer, disturbances>>

Publish(m) ==
    /\ pc[m] = "publish"
    /\ \/ Replace([content |-> plan[m], by |-> plan[m]]) /\ Then(m, "sync")
       \/ UNCHANGED <<online, fresh>> /\ Else(m, "unstage")
    /\ UNCHANGED <<trail, stages, lock, sub, plan, seen, answer, disturbances>>

SyncConfig(m) ==
    /\ pc[m] = "sync"
    /\ \/ disk' = {ctx} /\ Then(m, "verify")
       \/ disk' \in {disk, {ctx}} /\ Else(m, "rollback")
    /\ UNCHANGED <<ctx, trail, stages, lock, sub, plan, seen, fresh, answer, disturbances>>

VerifyOnline(m) ==
    /\ pc[m] = "verify"
    /\ fresh' = [fresh EXCEPT ![m] = TRUE]
    /\ \/ ctx.content = plan[m] /\ Then(m, "still")
       \/ ctx.content # plan[m] /\ Then(m, "rollback")
       \/ Else(m, "rollback")
    /\ UNCHANGED <<online, trail, stages, lock, sub, plan, seen, answer, disturbances>>

CheckStill(m) ==
    /\ pc[m] = "still"
    /\ \/ fresh[m] /\ Then(m, "committed")
       \/ ~fresh[m] /\ Then(m, "rollback")
       \/ Else(m, "rollback")
    /\ UNCHANGED <<online, trail, stages, lock, sub, plan, seen, fresh, answer, disturbances>>

(***************************************************************************)
(* _rollback: the source is staged, put back over whatever is online,      *)
(* fsynced and read back.                                                  *)
(***************************************************************************)
RollbackStage(m) ==
    /\ pc[m] = "rollback"
    /\ \/ stages' = stages \cup {<<m, seen[m].content>>} /\ Then(m, "restore")
       \/ UNCHANGED stages /\ Else(m, "unstage")
    /\ UNCHANGED <<online, trail, lock, sub, plan, seen, fresh, answer, disturbances>>

Restore(m) ==
    /\ pc[m] = "restore"
    /\ \/ Replace(seen[m]) /\ Then(m, "resync")
       \/ UNCHANGED <<online, fresh>> /\ Else(m, "unstage")
    /\ UNCHANGED <<trail, stages, lock, sub, plan, seen, answer, disturbances>>

Resync(m) ==
    /\ pc[m] = "resync"
    /\ \/ disk' = {ctx} /\ Then(m, IF ctx.content = seen[m].content THEN "restored" ELSE "unstage")
       \/ disk' \in {disk, {ctx}} /\ Else(m, "unstage")
    /\ UNCHANGED <<ctx, trail, stages, lock, sub, plan, seen, fresh, answer, disturbances>>

(***************************************************************************)
(* The ends of a run: its staging directories are removed; a failure of    *)
(* that is a refusal, whatever was done.                                   *)
(***************************************************************************)
Own(m) == {s \in stages : s[1] = m}
Result == [applied |-> "APPLIED", restored |-> "ROLLED_BACK", unstage |-> "REFUSED",
           recovered |-> "RECOVERED", refused |-> "REFUSED"]

Staging == {"applied", "restored", "unstage"}

Finish(m) ==
    /\ pc[m] \in DOMAIN Result
    /\ \/ /\ stages' = IF pc[m] \in Staging THEN stages \ Own(m) ELSE stages
          /\ Return(m, Result[pc[m]]) /\ NoFault
       \/ /\ pc[m] \in Staging /\ Own(m) # {}
          /\ stages' \in {stages, stages \ {<<m, plan[m]>>}} /\ Return(m, "REFUSED") /\ Fault
    /\ UNCHANGED <<online, trail, sub, plan, seen, fresh, disturbances>>

(***************************************************************************)
(* _recover_commit: the backup and the PREPARED record must be there, and  *)
(* the backup must lead to the target; then the commit is written.         *)
(***************************************************************************)
CommittedTrail(p) ==  \* mutant: a COMMITTED record is asked for
    \A kind \in Kinds : audit[<<kind, p>>] # "none"
Trail(p) == audit[<<"backup", p>>] # "none" /\ audit[<<"prepared", p>>] # "none"

Recover(m) ==
    /\ pc[m] = "recover"
    /\ \/ Trail(plan[m]) /\ stages' = stages \cup {<<m, Source(plan[m])>>} /\ Then(m, "replay")
       \/ ~Trail(plan[m]) /\ UNCHANGED stages /\ Then(m, "refused")
       \/ UNCHANGED stages /\ Else(m, "refused")
    /\ UNCHANGED <<online, trail, lock, sub, plan, seen, fresh, answer, disturbances>>

Replay(m) ==
    /\ pc[m] = "replay"
    /\ \/ stages' = stages \ Own(m) /\ Then(m, IF fresh[m] THEN "recommit" ELSE "refused")
       \/ stages' \in {stages, stages \ Own(m)} /\ Else(m, "refused")
    /\ UNCHANGED <<online, trail, lock, sub, plan, seen, fresh, answer, disturbances>>

(***************************************************************************)
(* The surroundings: other writers, deaths and losses of power.            *)
(***************************************************************************)
Edit(c) ==
    /\ edits < Edits /\ edits' = edits + 1
    /\ Replace(Here(c))
    /\ UNCHANGED <<trail, stages, lock, pc, sub, plan, seen, answer, failures, crashes, losses>>

Dead == IF Rerun THEN "idle" ELSE "end"

Crash(m) ==
    /\ pc[m] \notin {"idle", "end"} /\ crashes < Crashes
    /\ crashes' = crashes + 1
    /\ Goto(m, Dead) /\ lock' = lock \ {m}
    /\ sub' = [sub EXCEPT ![m] = "check"]
    /\ UNCHANGED <<online, trail, stages, plan, seen, fresh, answer, failures, losses, edits>>

PowerLoss ==
    /\ losses < PowerLosses /\ losses' = losses + 1
    /\ ctx' \in disk /\ disk' = {ctx'}
    /\ \E gone \in SUBSET {f \in Files : audit[f] = "named"} :
        audit' = [f \in Files |-> IF f \in gone THEN "none" ELSE IF audit[f] = "named" THEN "durable" ELSE audit[f]]
    /\ temps' \in SUBSET temps
    /\ pc' = [m \in Migrators |-> IF pc[m] = "idle" THEN "idle" ELSE Dead]
    /\ sub' = [m \in Migrators |-> "check"] /\ lock' = {}
    /\ fresh' = [m \in Migrators |-> FALSE]
    /\ UNCHANGED <<stages, plan, seen, answer, failures, crashes, edits>>

Step(m) ==
    \/ Lock(m) \/ \E expected \in {Source(plan[m]), plan[m]} : Capture(m, expected)
    \/ CheckFile(m) \/ WriteTemp(m) \/ LinkFile(m) \/ UnlinkTemp(m) \/ SyncAudit(m)
    \/ Stage(m) \/ CheckOnline(m) \/ Publish(m) \/ SyncConfig(m) \/ VerifyOnline(m) \/ CheckStill(m)
    \/ RollbackStage(m) \/ Restore(m) \/ Resync(m) \/ Finish(m) \/ Recover(m) \/ Replay(m)

Next ==
    \/ \E m \in Migrators : Step(m) \/ Crash(m) \/ \E p \in PlanIds : Enter(m, p)
    \/ \E c \in Contents : Edit(c)
    \/ PowerLoss

Spec == Init /\ [][Next]_vars

(* The operator runs both migrations again and again, with the digest of   *)
(* their sources; a run that was started goes on.                          *)
FairSpec ==
    /\ Spec
    /\ \A m \in Migrators : WF_vars(Step(m)) /\ \A p \in PlanIds : SF_vars(Enter(m, p)) /\ SF_vars(Capture(m, Source(p)) /\ plan[m] = p)

--------------------------------------------------------------------------------
(* Types of the variables. *)
TypeOK ==
    /\ ctx \in [content : Contents, by : PlanIds \cup {0}] /\ ctx \in disk
    /\ audit \in [Files -> {"none", "named", "durable"}] /\ temps \subseteq Files
    /\ stages \subseteq Migrators \X Contents
    /\ lock \subseteq Migrators /\ plan \in [Migrators -> PlanIds]

(* The migrations exclude each other: whoever is at work on the context or *)
(* on the audit holds the lock, and one process does at a time.            *)
OneAtWork == Cardinality({m \in Migrators : pc[m] \notin {"idle", "end", "lock"}}) <= 1 /\ Cardinality(lock) <= 1

(* "Audited": a context a migration published has its backup and its       *)
(* PREPARED record beside it, also when what is online is what a loss of   *)
(* power left; without them _recover_commit refuses for ever.              *)
PublishedHasItsTrail == \A p \in PlanIds : ctx.by = p => Trail(p)

(* test_committed_audit_sync_failure_rolls_back_without_false_commit:      *)
(* while nobody else edits the file, a COMMITTED record means that its     *)
(* target is online, also after a loss of power; a migration that was      *)
(* rolled back leaves none.                                                *)
NoFalseCommit ==
    \A p \in PlanIds : edits = 0 /\ audit[<<"committed", p>>] # "none" => ctx.content >= p

(* What an operator is told: APPLIED means that the commit is on the disk, *)
(* ROLLED_BACK that the source is online for good.  (Not after a death: a  *)
(* COMMITTED record somebody left unsynced is taken for a commit.)         *)
AnswerIsTrue ==
    [][\A m \in Migrators : crashes = 0 /\ answer'[m] # answer[m] =>
        /\ answer'[m] = "APPLIED" => audit[<<"committed", plan[m]>>] = "durable"
        /\ answer'[m] = "ROLLED_BACK" /\ edits = 0 => disk = {seen[m]}]_vars

(* test_staging_failure_leaves_original_and_no_hidden_directory: a run that *)
(* has ended left no staging directory in the config root, except when it  *)
(* refused, or died.                                                       *)
NoHiddenDirectory ==
    \A s \in stages : pc[s[1]] \in {"idle", "end"} => answer[s[1]] = "REFUSED" \/ crashes + losses > 0

(* A change of somebody else that was there when _online_unchanged looked  *)
(* is not overwritten by the target (the window after the look remains).   *)
EditIsSeen ==
    [][\A m \in Migrators : pc[m] = "check" /\ pc'[m] = "publish" => ctx = seen[m]]_vars

(* "Crash-recoverable": a migration that was published and not committed   *)
(* is committed, or taken back, when its operator runs it again.           *)
Recovers == \A p \in PlanIds : (ctx.by = p) ~> (audit[<<"committed", p>>] # "none" \/ ctx.by # p)
================================================================================

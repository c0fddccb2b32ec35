------------------------------- MODULE Rollout -------------------------------
(***************************************************************************)
(* How a model bundle gets from the object store to the engines.           *)
(*                                                                         *)
(* A model-sync job downloads and verifies one bundle, publishes it as a   *)
(* directory of the shared cache named by its digest, and points the       *)
(* desired-bundle reference at it.  An engine process, configured for      *)
(* (pinned to) one bundle, reads both when it starts and is probed.        *)
(* Jobs and engines share nothing but that file system.                    *)
(*                                                                         *)
(* An action is one access to the shared cache that others can come        *)
(* between: a validation, the start and the two ends of rmtree, a rename.  *)
(* A bundle is its digest; the version follows from it.  What a job stages *)
(* is private to it until the rename.                                      *)
(***************************************************************************)
EXTENDS Integers

CONSTANTS Jobs,      \* identities of model-sync jobs, reused after they end
          Engines,   \* engine processes
          Bundles,   \* manifest digests
          None,      \* no reference
          Overlap    \* whether two jobs may work on the same bundle at once

ASSUME RolloutAssumption == None \notin Bundles /\ Overlap \in BOOLEAN

VARIABLES dir,        \* the cache directory of each bundle
          reference,  \* desired-bundle.json
          job,        \* where each job is
          target,     \* the bundle it is to publish
          optional,   \* its --missing-manifest-ok
          engine,     \* where each engine process is
          pin         \* the bundle its settings name

cacheVars == <<dir, reference>>
jobVars == <<job, target, optional>>
engineVars == <<engine, pin>>
rolloutVars == <<dir, reference, job, target, optional, engine, pin>>

\* "torn" is a directory that exists and is not a valid bundle; "empty" one
\* that rename may replace.
Directories == {"absent", "torn", "empty", "complete"}

Ended == {"idle", "done", "failed"}
JobStates == Ended \union {"downloading", "fetching", "publishing", "clearing", "removing",
                           "unlinking", "staging", "replacing", "selecting", "pointing"}

EngineStates == {"starting", "rereading", "loading", "baseline", "transformer", "refused"}

\* Mutations of Completed: any directory will do, or nothing ever does.
CompletedIfPresent(b) == dir[b] # "absent"
CompletedNever(b) == FALSE

\* completed_cache: marker, manifest, checksum index and every file are valid.
Completed(b) == dir[b] = "complete"

\* A volume may hold an invalid directory from before: an incomplete earlier
\* attempt that atomic_publish is to replace.
RolloutInit ==
    /\ dir \in [Bundles -> {"absent", "torn"}]
    /\ reference = None
    /\ job = [j \in Jobs |-> "idle"]
    /\ target \in [Jobs -> Bundles]
    /\ optional = [j \in Jobs |-> FALSE]
    /\ engine = [e \in Engines |-> "starting"]
    /\ pin \in [Engines -> Bundles]

-----------------------------------------------------------------------------
(* The model-sync job *)

Goes(j, s) == job' = [job EXCEPT ![j] = s]

\* sync_bundle begins: a bundle that is there need only be selected, unless
\* the manifest is optional and has to be looked for first.
SyncBundle(j) ==
    /\ job[j] \in Ended
    /\ \E b \in Bundles, o \in BOOLEAN :
         /\ Overlap \/ \A i \in Jobs \ {j} : job[i] \in Ended \/ target[i] # b
         /\ target' = [target EXCEPT ![j] = b]
         /\ optional' = [optional EXCEPT ![j] = o]
         /\ Goes(j, IF ~o /\ Completed(b) THEN "selecting" ELSE "downloading")
    /\ UNCHANGED <<cacheVars, engineVars>>

\* The object store has no such manifest: an optional job ends in peace.
ManifestAbsent(j) ==
    /\ job[j] = "downloading"
    /\ Goes(j, IF optional[j] THEN "done" ELSE "failed")
    /\ UNCHANGED <<cacheVars, target, optional, engineVars>>

\* The manifest is downloaded and parsed, and the cache looked at again.
DownloadManifest(j) ==
    /\ job[j] = "downloading"
    /\ Goes(j, IF Completed(target[j]) THEN "selecting" ELSE "fetching")
    /\ UNCHANGED <<cacheVars, target, optional, engineVars>>

\* Index and files are downloaded into a private directory and verified.
DownloadFiles(j) ==
    /\ job[j] = "fetching"
    /\ Goes(j, "publishing")
    /\ UNCHANGED <<cacheVars, target, optional, engineVars>>

\* atomic_publish: nothing to do if the bundle is there by now.
AtomicPublish(j) ==
    /\ job[j] = "publishing"
    /\ Goes(j, IF Completed(target[j]) THEN "selecting" ELSE "clearing")
    /\ UNCHANGED <<cacheVars, target, optional, engineVars>>

\* "if destination.exists(): rmtree(destination)": the first file goes.
ClearDestination(j) ==
    /\ job[j] = "clearing"
    /\ IF dir[target[j]] = "absent"
         THEN Goes(j, "staging") /\ UNCHANGED dir
         ELSE Goes(j, "removing") /\ dir' = [dir EXCEPT ![target[j]] = "torn"]
    /\ UNCHANGED <<reference, target, optional, engineVars>>

\* rmtree has removed the last file.
RemoveFiles(j) ==
    /\ job[j] = "removing"
    /\ Goes(j, "unlinking")
    /\ dir' = [dir EXCEPT ![target[j]] = IF @ = "torn" THEN "empty" ELSE @]
    /\ UNCHANGED <<reference, target, optional, engineVars>>

\* rmtree removes the directory itself, if nobody has filled or removed it.
RemoveDirectory(j) ==
    /\ job[j] = "unlinking"
    /\ IF dir[target[j]] = "empty"
         THEN Goes(j, "staging") /\ dir' = [dir EXCEPT ![target[j]] = "absent"]
         ELSE Goes(j, "failed") /\ UNCHANGED dir
    /\ UNCHANGED <<reference, target, optional, engineVars>>

\* copytree into a private directory beside the destination, and the marker.
Stage(j) ==
    /\ job[j] = "staging"
    /\ Goes(j, "replacing")
    /\ UNCHANGED <<cacheVars, target, optional, engineVars>>

\* The rename: it fails on a directory that is not empty.
ReplaceDestination(j) ==
    /\ job[j] = "replacing"
    /\ IF dir[target[j]] \in {"absent", "empty"}
         THEN Goes(j, "selecting") /\ dir' = [dir EXCEPT ![target[j]] = "complete"]
         ELSE Goes(j, "failed") /\ UNCHANGED dir
    /\ UNCHANGED <<reference, target, optional, engineVars>>

\* select_desired_bundle validates the bundle once more ...
SelectDesiredBundle(j) ==
    /\ job[j] = "selecting"
    /\ Goes(j, IF Completed(target[j]) THEN "pointing" ELSE "failed")
    /\ UNCHANGED <<cacheVars, target, optional, engineVars>>

\* ... and renames a new reference into place.
PointReference(j) ==
    /\ job[j] = "pointing"
    /\ reference' = target[j]
    /\ Goes(j, "done")
    /\ UNCHANGED <<dir, target, optional, engineVars>>

\* A job stops wherever it is: a failing download, a full disk, a validation
\* error, a killed process.  The cache stays as it is.
StopJob(j) ==
    /\ job[j] \notin Ended
    /\ Goes(j, "failed")
    /\ UNCHANGED <<cacheVars, target, optional, engineVars>>

-----------------------------------------------------------------------------
(* The engine process *)

Becomes(e, s) == engine' = [engine EXCEPT ![e] = s]

\* A mutation of Desired: the selection is valid, but not compared.
DesiredAny(e) == reference # None /\ Completed(reference)

\* desired_cache(...) == bundle: the reference names the pinned bundle and it
\* is valid.
Desired(e) == reference = pin[e] /\ Completed(pin[e])

\* resolve_analyzer_mode, up to the second time it reads the reference.
ResolveAnalyzerMode(e) ==
    /\ engine[e] = "starting"
    /\ Becomes(e, IF reference = None THEN "baseline"
                  ELSE IF Desired(e) THEN "loading"
                  ELSE "rereading")
    /\ UNCHANGED <<cacheVars, jobVars, pin>>

\* A mutation of SelectsOther: the other selection is not accepted.
SelectsNothing(e) == FALSE

\* desired_reference_selects_other_complete_cache reads the reference again.
SelectsOther(e) == reference # pin[e] /\ Completed(reference)

RereadReference(e) ==
    /\ engine[e] = "rereading"
    /\ Becomes(e, IF SelectsOther(e) THEN "baseline" ELSE "refused")
    /\ UNCHANGED <<cacheVars, jobVars, pin>>

\* What loading may come to: the manifest is read again, the other files are
\* not verified again, so that damage may go unnoticed.
LoadOutcomes(b) ==
    CASE dir[b] = "complete" -> {"transformer"}
      [] dir[b] = "torn" -> {"transformer", "refused"}
      [] OTHER -> {"refused"}

\* create_analyzer loads the models from the directory validated before.
LoadModels(e) ==
    /\ engine[e] = "loading"
    /\ \E s \in LoadOutcomes(pin[e]) : Becomes(e, s)
    /\ UNCHANGED <<cacheVars, jobVars, pin>>

\* A mutation of RestartRequired: nobody asks for a restart.
NeverRestarts(e) == FALSE

\* restart_required: only a baseline engine asks to be restarted.
RestartRequired(e) == engine[e] = "baseline" /\ Desired(e)

\* _cache_still_available, behind ready(): a serving engine takes requests only
\* while its bundle is there, by its marker and manifest, and selected, a
\* baseline engine only while it has not to be restarted.
CacheStillAvailable(e) ==
    \/ engine[e] = "baseline" /\ ~RestartRequired(e)
    \/ engine[e] = "transformer" /\ dir[pin[e]] \in {"complete", "torn"} /\ reference = pin[e]

\* The liveness probe fails, or the process had refused to start: the
\* container is restarted.
Restart(e) ==
    /\ RestartRequired(e) \/ engine[e] = "refused"
    /\ Becomes(e, "starting")
    /\ UNCHANGED <<cacheVars, jobVars, pin>>

\* The engine is replaced by one that is configured for another bundle.
Redeploy(e) ==
    /\ \E b \in Bundles \ {pin[e]} : pin' = [pin EXCEPT ![e] = b]
    /\ Becomes(e, "starting")
    /\ UNCHANGED <<cacheVars, jobVars>>

-----------------------------------------------------------------------------

JobStep(j) ==
    \/ SyncBundle(j)
    \/ ManifestAbsent(j)
    \/ DownloadManifest(j)
    \/ DownloadFiles(j)
    \/ AtomicPublish(j)
    \/ ClearDestination(j)
    \/ RemoveFiles(j)
    \/ RemoveDirectory(j)
    \/ Stage(j)
    \/ ReplaceDestination(j)
    \/ SelectDesiredBundle(j)
    \/ PointReference(j)
    \/ StopJob(j)

EngineStep(e) ==
    \/ ResolveAnalyzerMode(e)
    \/ RereadReference(e)
    \/ LoadModels(e)
    \/ Restart(e)

RolloutNext ==
    \/ \E j \in Jobs : JobStep(j)
    \/ \E e \in Engines : EngineStep(e) \/ Redeploy(e)

RolloutSpec == RolloutInit /\ [][RolloutNext]_rolloutVars

\* Processes start up, probes are made and failing containers restarted.
\* Nothing makes a job succeed or a rollout happen.
FairSpec == RolloutSpec /\ \A e \in Engines : WF_rolloutVars(EngineStep(e))

-----------------------------------------------------------------------------
(* Properties *)

\* Every variable keeps its type.
RolloutTypeOK ==
    /\ dir \in [Bundles -> Directories]
    /\ reference \in Bundles \union {None}
    /\ job \in [Jobs -> JobStates]
    /\ target \in [Jobs -> Bundles]
    /\ optional \in [Jobs -> BOOLEAN]
    /\ engine \in [Engines -> EngineStates]
    /\ pin \in [Engines -> Bundles]

\* The reference names a whole bundle, whatever the jobs go through and
\* wherever they are killed, as long as no two of them work on one bundle: an
\* engine that starts never finds its selection damaged
\* (select_desired_bundle, atomic_publish).
ReferenceComplete == reference # None => dir[reference] = "complete"

\* Between the validation of a bundle and the loading of its models nobody
\* takes the directory away (resolve_analyzer_mode, create_analyzer).
LoadsWholeBundle == \A e \in Engines : engine[e] = "loading" => dir[pin[e]] = "complete"

CompletedStays == \A b \in Bundles : dir[b] = "complete" => dir'[b] = "complete"

\* "Publish a verified bundle without mutating any completed directory"
\* (atomic_publish).
CompletedNeverMutated == [][CompletedStays]_rolloutVars

\* An engine whose bundle stays selected ends up ready with it, wherever it was
\* when the reference moved: in baseline mode it is restarted, and one that
\* read the reference on both sides of the move starts again (live,
\* restart_required, resolve_analyzer_mode).
SelectedBundleActivates ==
    \A e \in Engines :
        <>[](reference = pin[e]) => <>[](engine[e] = "transformer" /\ CacheStillAvailable(e))

\* A refused start is not for ever: once jobs leave the reference alone and
\* nobody redeploys the engine, it comes up in one of the two modes.
EnginesComeUp ==
    \A e \in Engines :
        <>[][reference' = reference /\ pin' = pin]_<<reference, pin>>
            => <>[](engine[e] \in {"baseline", "transformer"})

\* The inductive invariant behind the safety properties: the jobs that are
\* about to change a directory have seen it incomplete, nobody else works on
\* it, and nothing refers to it.
RolloutInductive ==
    /\ RolloutTypeOK
    /\ ReferenceComplete
    /\ LoadsWholeBundle
    /\ \A j \in Jobs :
         /\ job[j] \in {"clearing", "removing", "unlinking", "staging", "replacing"}
              => ~Completed(target[j])
         /\ job[j] = "pointing" => Completed(target[j])
    /\ \A i, j \in Jobs :
         i # j /\ job[i] \notin Ended /\ job[j] \notin Ended => target[i] # target[j]

=============================================================================

--------------------------- MODULE RuntimeOpening ---------------------------
(***************************************************************************)
(* Opening and closing a production runtime: open_production_runtime and   *)
(* load_production_compiler_context of workflow/production_service.py with *)
(* the pipeline loader of generation/diffusers_loader.py.                  *)
(*                                                                         *)
(* An opening takes things one after the other: the ControlNet and the     *)
(* pipeline on the GPU, a capability that owns them, a compiler context    *)
(* made by the caller's factory, a verifier factory, and descriptors of    *)
(* two stores.  Any of them may fail, and what was taken is given back.    *)
(* The GPU is touched under its lease, a re-entrant lock all threads       *)
(* share.  The caller's factory is code of its own: it may wait for        *)
(* another thread that needs the lease, or try to open a runtime itself.   *)
(* A runtime's opening calls it without the lease; an opening for a        *)
(* context alone holds the lease from the load to the close.               *)
(***************************************************************************)
EXTENDS Naturals, FiniteSets

CONSTANTS
    Openers,        \* threads
    Encoders,       \* image encoders a supply may name
    Helped,         \* kinds of openings whose factory may wait for a thread
    MaxOpeningFaults, \* bound: calls that fail
    Nobody, None

VARIABLES
    openingPc, kind, \* each thread's next step; "runtime" or "context"
    lease,          \* the thread that holds the GPU lease
    control, openingPipe,  \* threads that have a ControlNet, a pipeline, on the GPU
    loaded,         \* [encoder] of the issued capability, or None
    context,        \* the encoder the compiler context was made for
    verifier,       \* threads that hold a verifier factory
    fds,            \* descriptors: <<thread, store>>
    helping,        \* the factory waits for a helper that wants the lease
    openingLoads,          \* pipelines each thread has on the GPU
    openingFaults

gpu   == <<control, openingPipe, openingLoads>>
owned == <<loaded, context, verifier, fds>>
openingVars  == <<openingPc, kind, lease, gpu, owned, helping, openingFaults>>

OpeningInit ==
    /\ openingPc = [o \in Openers |-> "idle"]
    /\ kind = [o \in Openers |-> "runtime"]
    /\ lease = Nobody
    /\ control = {} /\ openingPipe = {}
    /\ openingLoads = [o \in Openers |-> 0]
    /\ loaded = [o \in Openers |-> None]
    /\ context = [o \in Openers |-> None]
    /\ verifier = {} /\ fds = {}
    /\ helping = {}
    /\ openingFaults = 0

-----------------------------------------------------------------------------
Proceed(o, step) == openingPc' = [openingPc EXCEPT ![o] = step]

Fault == openingFaults < MaxOpeningFaults /\ openingFaults' = openingFaults + 1

(* _GPU_LEASE; every step that touches the GPU takes it. *)
Take(o)    == lease \in {Nobody, o} /\ lease' = o
Release(o) == lease' = Nobody

(* _validate_runtime_dependencies *)
Start(o) ==
    /\ openingPc[o] = "idle"
    /\ \E k \in {"runtime", "context"} : kind' = [kind EXCEPT ![o] = k]
    /\ Proceed(o, "load")
    /\ UNCHANGED <<lease, gpu, owned, helping, openingFaults>>

(* The installed packages, the environment, its devices, and the supply's  *)
(* components against the graph's. *)
BeginLoad(o) ==
    /\ openingPc[o] = "load"
    /\ \/ Take(o) /\ Proceed(o, "control") /\ UNCHANGED openingFaults
       \/ lease = Nobody /\ Fault /\ Proceed(o, "failed") /\ UNCHANGED lease
    /\ UNCHANGED <<kind, gpu, owned, helping>>

LoadControl(o) ==
    /\ openingPc[o] = "control"
    /\ \/ control' = control \cup {o} /\ Proceed(o, "pipeline") /\ UNCHANGED openingFaults
       \/ Fault /\ Proceed(o, "undoLoad") /\ UNCHANGED control
    /\ UNCHANGED <<kind, lease, openingPipe, openingLoads, owned, helping>>

LoadBase(o) ==
    /\ openingPc[o] = "pipeline"
    /\ \/ /\ openingPipe' = openingPipe \cup {o}
          /\ openingLoads' = [openingLoads EXCEPT ![o] = @ + 1]
          /\ Proceed(o, "adapter")
          /\ UNCHANGED openingFaults
       \/ Fault /\ Proceed(o, "undoLoad") /\ UNCHANGED <<openingPipe, openingLoads>>
    /\ UNCHANGED <<kind, lease, control, owned, helping>>

(* The scheduler, the device, the adapter with its image encoder and the   *)
(* processor it must have. *)
LoadAdapter(o) ==
    /\ openingPc[o] = "adapter"
    /\ \/ Proceed(o, "issue") /\ UNCHANGED openingFaults
       \/ Fault /\ Proceed(o, "undoLoad")
    /\ UNCHANGED <<kind, lease, gpu, owned, helping>>

(* Only an opening for a context holds the lease around the factory. *)
Keeps(o) == kind[o] = "context"

Issue(o) ==
    /\ openingPc[o] = "issue"
    /\ \/ /\ \E e \in Encoders : loaded' = [loaded EXCEPT ![o] = [encoder |-> e]]
          /\ IF Keeps(o) THEN UNCHANGED lease ELSE Release(o)
          /\ Proceed(o, "factory")
          /\ UNCHANGED openingFaults
       \/ Fault /\ Proceed(o, "undoLoad") /\ UNCHANGED <<loaded, lease>>
    /\ UNCHANGED <<kind, gpu, context, verifier, fds, helping>>

Freed(o) == openingLoads' = [openingLoads EXCEPT ![o] = IF o \in openingPipe THEN @ - 1 ELSE @]

UndoPipelineOnly(o) ==  \* mutant: the ControlNet stays on the GPU
    /\ openingPc[o] = "undoLoad"
    /\ openingPipe' = openingPipe \ {o}
    /\ Freed(o)
    /\ Release(o)
    /\ Proceed(o, "failed")
    /\ UNCHANGED <<kind, control, owned, helping, openingFaults>>

(* _release_failed_pipeline, whatever each release says. *)
UndoLoad(o) ==
    /\ openingPc[o] = "undoLoad"
    /\ openingPipe' = openingPipe \ {o} /\ control' = control \ {o}
    /\ Freed(o)
    /\ Release(o)
    /\ Proceed(o, "failed")
    /\ UNCHANGED <<kind, owned, helping, openingFaults>>

-----------------------------------------------------------------------------
(* The caller's factory. *)

CallFactory(o) ==
    /\ openingPc[o] = "factory"
    /\ Proceed(o, "inFactory")
    /\ \/ kind[o] \in Helped /\ helping' = helping \cup {o}
       \/ UNCHANGED helping
    /\ UNCHANGED <<kind, lease, gpu, owned, openingFaults>>

(* The helper gets the lease for a moment. *)
Help(o) ==
    /\ o \in helping
    /\ lease = Nobody
    /\ helping' = helping \ {o}
    /\ UNCHANGED <<openingPc, kind, lease, gpu, owned, openingFaults>>

(* _reject_context_factory_reentry: not inside a factory on this thread. *)
MayOpen(o) == openingPc[o] # "inFactory"

(* The factory tries to open a runtime itself: refused, and it raises. *)
OpenInside(o) ==
    /\ openingPc[o] = "inFactory" /\ o \notin helping
    /\ openingLoads' = [openingLoads EXCEPT ![o] = IF MayOpen(o) THEN @ + 1 ELSE @]
    /\ Proceed(o, "cleanup")
    /\ UNCHANGED <<kind, lease, control, openingPipe, owned, helping, openingFaults>>

(* Exactly one encoder of the context is the pipeline's. *)
Match(o, e) == e = loaded[o].encoder

(* The factory returns a context made for some encoder, or raises. *)
FactoryReturns(o) ==
    /\ openingPc[o] = "inFactory" /\ o \notin helping
    /\ \/ \E e \in Encoders :
            IF Match(o, e)
            THEN /\ context' = [context EXCEPT ![o] = e]
                 /\ Proceed(o, IF kind[o] = "context" THEN "closePipeline" ELSE "verifier")
                 /\ UNCHANGED openingFaults
            ELSE Proceed(o, "cleanup") /\ UNCHANGED <<context, openingFaults>>
       \/ Fault /\ Proceed(o, "cleanup") /\ UNCHANGED context
    /\ UNCHANGED <<kind, lease, gpu, loaded, verifier, fds, helping>>

-----------------------------------------------------------------------------
(* _open_runtime_owned_resources *)

MakeVerifier(o) ==
    /\ openingPc[o] = "verifier"
    /\ lease = Nobody
    /\ \/ verifier' = verifier \cup {o} /\ Proceed(o, "artifacts") /\ UNCHANGED openingFaults
       \/ Fault /\ Proceed(o, "cleanup") /\ UNCHANGED verifier
    /\ UNCHANGED <<kind, lease, gpu, loaded, context, fds, helping>>

OpenArtifactStore(o) ==
    /\ openingPc[o] = "artifacts"
    /\ \/ fds' = fds \cup {<<o, "artifacts">>} /\ Proceed(o, "reports") /\ UNCHANGED openingFaults
       \/ Fault /\ Proceed(o, "cleanup") /\ UNCHANGED fds
    /\ UNCHANGED <<kind, lease, gpu, loaded, context, verifier, helping>>

OpenReportStore(o) ==
    /\ openingPc[o] = "reports"
    /\ \/ fds' = fds \cup {<<o, "reports">>} /\ Proceed(o, "open") /\ UNCHANGED openingFaults
       \/ Fault /\ Proceed(o, "cleanup") /\ UNCHANGED fds
    /\ UNCHANGED <<kind, lease, gpu, loaded, context, verifier, helping>>

-----------------------------------------------------------------------------
(* Giving back. *)

(* LoadedPipeline.close: once, and it lets go whatever the release says. *)
ClosePipeline(o) ==
    /\ lease \in {Nobody, o} /\ Release(o)
    /\ loaded' = [loaded EXCEPT ![o] = None]
    /\ openingPipe' = openingPipe \ {o} /\ control' = control \ {o}
    /\ openingLoads' = [openingLoads EXCEPT ![o] = @ - 1]

DropStores(o) == fds' = fds \ {<<o, s>> : s \in {"artifacts", "reports"}}

(* _cleanup_failed_open closes everything, whatever each close says. *)
Cleanup(o) ==
    /\ openingPc[o] = "cleanup"
    /\ DropStores(o)
    /\ ClosePipeline(o)
    /\ verifier' = verifier \ {o}
    /\ context' = [context EXCEPT ![o] = None]
    /\ Proceed(o, "failed")
    /\ openingFaults' \in {openingFaults} \cup
          (IF openingFaults < MaxOpeningFaults THEN {openingFaults + 1} ELSE {})
    /\ UNCHANGED <<kind, helping>>

(* load_production_compiler_context only borrows the pipeline; a failure   *)
(* to close it is the caller's. *)
ReturnContext(o) ==
    /\ openingPc[o] = "closePipeline"
    /\ ClosePipeline(o)
    /\ \/ Proceed(o, "failed") /\ Fault /\ context' = [context EXCEPT ![o] = None]
       \/ Proceed(o, "detached") /\ UNCHANGED <<openingFaults, context>>
    /\ UNCHANGED <<kind, verifier, fds, helping>>

(* _close_resources of an open runtime. *)
CloseOpened(o) ==
    /\ openingPc[o] = "open"
    /\ ClosePipeline(o)
    /\ DropStores(o)
    /\ verifier' = verifier \ {o}
    /\ context' = [context EXCEPT ![o] = None]
    /\ Proceed(o, "idle")
    /\ openingFaults' \in {openingFaults} \cup
          (IF openingFaults < MaxOpeningFaults THEN {openingFaults + 1} ELSE {})
    /\ UNCHANGED <<kind, helping>>

Again(o) ==
    /\ openingPc[o] \in {"failed", "detached"}
    /\ Proceed(o, "idle")
    /\ context' = [context EXCEPT ![o] = None]
    /\ UNCHANGED <<kind, lease, gpu, loaded, verifier, fds, helping, openingFaults>>

Opening(o) ==
    \/ BeginLoad(o) \/ LoadControl(o) \/ LoadBase(o) \/ LoadAdapter(o)
    \/ Issue(o) \/ UndoLoad(o)
    \/ CallFactory(o) \/ Help(o) \/ FactoryReturns(o)
    \/ MakeVerifier(o) \/ OpenArtifactStore(o) \/ OpenReportStore(o)
    \/ Cleanup(o) \/ ReturnContext(o)

OpeningNext == \E o \in Openers :
    \/ Start(o) \/ Opening(o) \/ OpenInside(o) \/ CloseOpened(o) \/ Again(o)

OpeningSpec == OpeningInit /\ [][OpeningNext]_openingVars

(* A thread waits for the lease, which others give back again and again,   *)
(* and its factory and the factory's helper get on. *)
OpeningFairSpec == OpeningSpec /\ \A o \in Openers : SF_openingVars(Opening(o)) /\ SF_openingVars(Help(o))

-----------------------------------------------------------------------------
(* Every variable has its type. *)
OpeningTypeOK ==
    /\ lease \in Openers \cup {Nobody}
    /\ control \cup openingPipe \cup verifier \cup helping \subseteq Openers
    /\ fds \subseteq Openers \X {"artifacts", "reports"}
    /\ \A o \in Openers : openingLoads[o] \in 0..2
    /\ openingFaults \in 0..MaxOpeningFaults

(* An opening that failed has given back everything it took: nothing of it *)
(* is on the GPU, no descriptor and no lease is left, wherever it failed   *)
(* and even when giving back failed; so has one that was closed. *)
AllOrNothing ==
    \A o \in Openers :
        openingPc[o] \in {"idle", "failed", "detached"} =>
            /\ o \notin control \cup openingPipe \cup verifier
            /\ loaded[o] = None /\ openingLoads[o] = 0
            /\ \A s \in {"artifacts", "reports"} : <<o, s>> \notin fds
            /\ lease # o

(* A runtime that is open, and a context that was handed out, belong to    *)
(* the encoder of the pipeline they were opened with. *)
ContextIsThePipelines ==
    \A o \in Openers :
        openingPc[o] = "open" => loaded[o] # None /\ context[o] = loaded[o].encoder

(* A factory that opens a runtime itself does not put a second pipeline on *)
(* the GPU. *)
OneLoadPerOpening == \A o \in Openers : openingLoads[o] <= 1

(* An opening takes everything or leaves nothing behind, hands out what    *)
(* was made for its own pipeline, and puts one pipeline on the GPU at most. *)
OpeningIsSound == OpeningTypeOK /\ AllOrNothing /\ ContextIsThePipelines /\ OneLoadPerOpening

(* Every opening of a runtime ends, also when the factory waits for        *)
(* another thread that needs the GPU. *)
OpeningEnds ==
    \A o \in Openers :
        openingPc[o] = "load" /\ kind[o] = "runtime" ~> openingPc[o] \in {"open", "failed"}

=============================================================================

---------------------------- MODULE BatchTransact ----------------------------
(***************************************************************************)
(* BatchTransaction of the wallet adapter (artemis-web3-adapter/src/libs/  *)
(* batchTransact.js): calls to canisters made one after the other through  *)
(* the user's wallet, in groups; the last call of a group gives arguments  *)
(* to the first call of the next.  A batch that failed is retried without  *)
(* its finished steps, or executed again from the start.                   *)
(*                                                                         *)
(* The callbacks of a step find it by its place in trxArray: "self.trxArray*)
(* [i][j]", where i and j are those of _prepareTrxArry, although a retry   *)
(* removes elements.  Each execute wraps the callbacks once more.          *)
(*                                                                         *)
(* This is the path of the wallets other than plug, which makes the calls  *)
(* itself; activeStep is left out, it is only shown.                       *)
(***************************************************************************)
EXTENDS Integers, Sequences, SequencesExt

CONSTANTS
    Groups,        \* the steps 1, 2, ... in the groups that updateNextStep ends
    WithSuccess,   \* the steps that were given an onSuccess, one that does not throw
    WithFail,      \* the steps that were given an onFail, one that does not throw
    MaxExecutes,   \* bound: execute calls that start
    MaxRetries,    \* bound: retryExecute calls that start
    MaxUnseen      \* bound: calls carried out whose answer is lost or empty

Steps == UNION {ToSet(Groups[g]) : g \in DOMAIN Groups}

ASSUME BatchAssumption ==
    /\ FlattenSeq(Groups) = [s \in 1..Len(FlattenSeq(Groups)) |-> s]
    /\ WithSuccess \cup WithFail \subseteq Steps
    /\ MaxExecutes \in Nat /\ MaxRetries \in Nat /\ MaxUnseen \in Nat

VARIABLES
    state,        \* "idle", "running", "error", "done"
    array,        \* trxArray
    item,         \* the state of each step's transaction
    pos,          \* where the two loops of _processBatch are
    completed,    \* the steps reported complete
    failedSteps,  \* FailedSteps
    results,      \* the steps with an entry in transactionResults
    updated,      \* the steps whose arguments updateNextStep has set
    wraps,        \* how often the callbacks are wrapped: once per execute
    executed,     \* external: how often the call of a step took effect
    unseen,       \* history: how often the answer of a step was not seen
    faults,       \* history: calls of this run that did not succeed
    retries       \* retryExecute calls so far (bound)

batch    == <<array, item, completed, failedSteps, results, updated, wraps>>
external == <<executed, unseen>>
batchVars == <<state, pos, batch, external, faults, retries>>

-----------------------------------------------------------------------------
(* The places of the steps *)

GroupOf(s) == CHOOSE g \in DOMAIN Groups : s \in ToSet(Groups[g])
PlaceOf(s) == CHOOSE j \in DOMAIN Groups[GroupOf(s)] : Groups[GroupOf(s)][j] = s

\* The element that the callbacks of s work on.
Found(s)  == PlaceOf(s) \in DOMAIN array[GroupOf(s)]
Target(s) == array[GroupOf(s)][PlaceOf(s)]

\* The steps in the order in which the two loops reach them.
Queue == FlattenSeq(array)

\* The steps that have an updateNextStep and a group after theirs.
Updates(s) == GroupOf(s) < Len(Groups) /\ s = Last(Groups[GroupOf(s)])

Repeated(s, n) == [k \in 1..n |-> s]

-----------------------------------------------------------------------------
(* execute and retryExecute *)

\* Every step is idle again and its callbacks are wrapped.
Execute ==
    /\ state \in {"idle", "error"}
    /\ wraps < MaxExecutes
    /\ state' = "running"
    /\ array' = Groups
    /\ item' = [s \in Steps |-> "idle"]
    /\ wraps' = wraps + 1
    /\ failedSteps' = <<>>
    /\ pos' = 1
    /\ faults' = 0
    /\ UNCHANGED <<completed, results, updated, external, retries>>

StartRetry ==
    /\ state = "error"
    /\ retries < MaxRetries
    /\ retries' = retries + 1
    /\ state' = "running"
    /\ failedSteps' = <<>>
    /\ faults' = 0
    /\ UNCHANGED <<item, completed, results, updated, wraps, external>>

\* Faulty: the finished steps stay in the array.
RetryExecuteAll == StartRetry /\ pos' = 1 /\ UNCHANGED array

\* The steps of a group that are not finished, in their order.
Undone(group) ==
    FlattenSeq([j \in DOMAIN group |-> IF item[group[j]] = "done" THEN <<>> ELSE <<group[j]>>])

\* The finished steps leave the array.
RetryExecute ==
    /\ StartRetry
    /\ array' = [g \in DOMAIN array |-> Undone(array[g])]
    /\ pos' = 1

-----------------------------------------------------------------------------
(* The callbacks *)

\* An exception reaches _processBatch: no step is marked.
Thrown == state' = "error" /\ UNCHANGED <<pos, batch>>

\* onSuccess with a result that is no error: every wrapper but one that calls a
\* missing function marks the step; the outermost decides whether it throws.
Succeeded(s) ==
    IF ~Found(s) \/ (wraps = 1 /\ s \notin WithSuccess) THEN Thrown
    ELSE LET t    == Target(s)
             next == GroupOf(s) + 1
             given == Updates(t) /\ array[next] # <<>>
         IN  /\ completed' = completed \o Repeated(t, IF s \in WithSuccess THEN wraps ELSE wraps - 1)
             /\ results' = results \cup {t}
             /\ item' = [item EXCEPT ![t] = "done"]
             /\ updated' = IF given THEN updated \cup {Head(array[next])} ELSE updated
             /\ state' = IF Updates(t) /\ ~given THEN "error" ELSE state
             /\ pos' = pos + 1
             /\ UNCHANGED <<array, failedSteps, wraps>>

\* onSuccess with a result that is an error.
Refused(s) ==
    IF ~Found(s) \/ (wraps = 1 /\ s \notin WithSuccess) THEN Thrown
    ELSE /\ failedSteps' = failedSteps \o Repeated(Target(s), IF s \in WithSuccess THEN wraps ELSE wraps - 1)
         /\ results' = results \cup {Target(s)}
         /\ item' = [item EXCEPT ![Target(s)] = "error"]
         /\ state' = "error"
         /\ UNCHANGED <<pos, array, completed, updated, wraps>>

\* Faulty: a missing answer does not stop the batch.
FailedGoesOn(s) == pos' = pos + 1 /\ UNCHANGED <<state, batch>>

\* onFail: a missing function throws before anything is marked.
Failed(s) ==
    IF ~Found(s) \/ s \notin WithFail THEN Thrown
    ELSE /\ failedSteps' = failedSteps \o Repeated(Target(s), wraps)
         /\ item' = [item EXCEPT ![Target(s)] = "error"]
         /\ state' = "error"
         /\ UNCHANGED <<pos, array, completed, results, updated, wraps>>

-----------------------------------------------------------------------------
(* _processBatch *)

\* The step whose turn it is.
Turn(s) == state = "running" /\ pos <= Len(Queue) /\ s = Queue[pos]

CallSucceeds(s) ==
    /\ Turn(s)
    /\ executed' = [executed EXCEPT ![s] = @ + 1]
    /\ Succeeded(s)
    /\ UNCHANGED <<unseen, faults, retries>>

CallRefused(s) ==
    /\ Turn(s)
    /\ faults' = faults + 1
    /\ Refused(s)
    /\ UNCHANGED <<external, retries>>

CallRejected(s) ==
    /\ Turn(s)
    /\ faults' = faults + 1
    /\ Failed(s)
    /\ UNCHANGED <<external, retries>>

\* The call takes effect, its answer is lost or is a value like undefined.
CallUnseen(s) ==
    /\ Turn(s)
    /\ \A x \in Steps : unseen[x] < MaxUnseen
    /\ executed' = [executed EXCEPT ![s] = @ + 1]
    /\ unseen' = [unseen EXCEPT ![s] = @ + 1]
    /\ faults' = faults + 1
    /\ Failed(s)
    /\ UNCHANGED retries

\* getCanisterActor throws, outside the inner try.
ActorMissing(s) ==
    /\ Turn(s)
    /\ faults' = faults + 1
    /\ Thrown
    /\ UNCHANGED <<external, retries>>

\* Faulty: the batch is done when as many steps are complete as there are.
FinishByCount ==
    /\ state = "running"
    /\ pos > Len(Queue)
    /\ state' = IF Len(completed) = Len(FlattenSeq(Groups)) THEN "done" ELSE "error"
    /\ UNCHANGED <<pos, batch, external, faults, retries>>

\* The loops are through.
Finish ==
    /\ state = "running"
    /\ pos > Len(Queue)
    /\ state' = IF failedSteps = <<>> THEN "done" ELSE "error"
    /\ UNCHANGED <<pos, batch, external, faults, retries>>

-----------------------------------------------------------------------------
(* The specification *)

BatchInit ==
    /\ state = "idle"
    /\ array = <<>>
    /\ item = [s \in Steps |-> "idle"]
    /\ pos = 1
    /\ completed = <<>>
    /\ failedSteps = <<>>
    /\ results = {}
    /\ updated = {}
    /\ wraps = 0
    /\ executed = [s \in Steps |-> 0]
    /\ unseen = [s \in Steps |-> 0]
    /\ faults = 0
    /\ retries = 0

BatchNext ==
    \/ Execute
    \/ RetryExecute
    \/ Finish
    \/ \E s \in Steps : \/ CallSucceeds(s)
                        \/ CallRefused(s)
                        \/ CallRejected(s)
                        \/ CallUnseen(s)
                        \/ ActorMissing(s)

-----------------------------------------------------------------------------
(* Properties *)

\* The types of the state; the loops stay within the array.
BatchTypes ==
    /\ state \in {"idle", "running", "error", "done"}
    /\ pos \in 1..Len(Queue) + 1
    /\ ToSet(Queue) \cup ToSet(completed) \cup ToSet(failedSteps) \subseteq Steps
    /\ item \in [Steps -> {"idle", "error", "done"}]
    /\ results \cup updated \subseteq Steps
    /\ wraps \in 0..MaxExecutes
    /\ retries \in 0..MaxRetries
    /\ executed \in [Steps -> Nat]
    /\ unseen \in [Steps -> Nat]
    /\ faults \in Nat

\* A retry does not repeat what was done: within one execute a call takes effect
\* once, and once more only for an answer that was not seen (retryExecute's
\* filter against the callbacks that mark the steps).  A step whose onSuccess is
\* missing or throws is not marked, and made again by each retry, but no more often.
ExecutedOnce ==
    \A s \in Steps :
        executed[s] <= wraps + IF s \in WithSuccess THEN unseen[s] ELSE retries

\* The types of the state; a batch that reports "done" has carried out every step and
\* holds every result (_processBatch, across any retries); and the first call of a later
\* group was never made before updateNextStep had set its arguments.
DoneMeansAll ==
    /\ BatchTypes
    /\ state = "done" => /\ \A s \in Steps : executed[s] > 0 /\ item[s] = "done"
                         /\ results = Steps
    /\ \A g \in DOMAIN Groups \ {1} : executed[Groups[g][1]] > 0 => Groups[g][1] \in updated

\* A run in which every call succeeded reports an error only in the first execute and
\* its retries, and only of a batch with a step whose onSuccess is missing or throws and
\* that was carried out nevertheless: a second execute has wrapped it (onSuccess).
SuccessReported ==
    state = "error" => \/ faults > 0
                       \/ wraps = 1 /\ \E s \in Steps \ WithSuccess : executed[s] > 0

\* The adapter's README has a batch whose second step has neither callback, executes it
\* and uses what execute returns: no error is reported for calls that all succeeded.
CallbacksOptional == state = "error" => faults > 0

=============================================================================

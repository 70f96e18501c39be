-------------------------- MODULE BaselineAttempt --------------------------
(***************************************************************************)
(* One attempt of the official baseline under the patches of               *)
(* src/src/cadrig/benchmarks/cadgenbench/official_cli.py: every model call *)
(* is fitted to the attempt's token cap and charged to the usage ledger,   *)
(* every program's candidate is accepted or rolled back, and every save of *)
(* the run directory decides which candidate is published.                 *)
(*                                                                         *)
(* The upstream package is external: its agent loop asks, runs the         *)
(* programs of the reply, validates the turn and saves the run; its saver  *)
(* copies the candidate of the work directory into the turn's directory    *)
(* and into the root.  The provider may count more prompt tokens than were *)
(* estimated and may write past max_tokens.                                *)
(*                                                                         *)
(* Killing the attempt adds no state: what it leaves behind is the files   *)
(* of the state it is killed in, so an invariant about files covers it.    *)
(*                                                                         *)
(* Left out: reasoning effort, counters that are only reported, the text   *)
(* of replies and feedback, and all but one of the candidate file names.   *)
(* Bounds: MaxTurns turns, MaxPrograms programs in a reply; amounts are    *)
(* small numbers of tokens; the closing save repeats the last turn's.      *)
(***************************************************************************)
EXTENDS Integers, Sequences, FiniteSets, FiniteSetsExt, SequencesExt

CONSTANTS
    Programs,       \* the codes a reply may hold, told apart by their hash
    MaxTurns, MaxPrograms,
    Cap,            \* CADRIG_ATTEMPT_TOKEN_CAP
    BaseMargin,     \* _PROMPT_TOKEN_MARGIN
    Buffer,         \* _PROMPT_CALIBRATION_BUFFER
    Requested,      \* max_tokens asked for by the agent loop
    SoftRequested,  \* what is left of it once the inspections are used up
    SoftLimit, HardLimit,   \* _EDIT_INSPECTION_SOFT_LIMIT, ..._HARD_LIMIT
    Estimates,      \* prompt tokens as counted before a call
    Drifts,         \* how many more the provider may count
    Overruns        \* how many tokens past max_tokens it may write

ASSUME ConfigAssumption ==
    /\ {MaxTurns, MaxPrograms, Cap, Requested, SoftRequested} \subseteq Nat \ {0}
    /\ {BaseMargin, Buffer, SoftLimit, HardLimit} \subseteq Nat
    /\ SoftRequested <= Requested /\ SoftLimit <= HardLimit
    /\ Estimates \cup Drifts \cup Overruns \subseteq Nat
    /\ Programs \cap {"nobody", "failed"} = {}

\* A candidate file: the program that wrote it, and where in the attempt.
Candidate == [turn : 1 .. MaxTurns, at : 1 .. MaxPrograms,
              code : Programs, success : BOOLEAN]
NoCandidate == [turn |-> 0, at |-> 0, code |-> "nobody", success |-> FALSE]
MaybeCandidate == Candidate \cup {NoCandidate}

\* An executed program and whether it wrote the candidate.
Execution == [code : Programs, success : BOOLEAN, writes : BOOLEAN]

\* A turn's directory, and who wrote the turn's last candidate.
TurnDir == [file : MaybeCandidate, producer : Programs \cup {"nobody", "failed"}]

VARIABLES
    pc,
    editing,        \* the fixture has a STEP input
    \* files
    work, backup,   \* the candidate in the work directory, the last accepted
    dirs, root,     \* the turn directories and the published candidate
    ledger,         \* provider_usage.json
    \* the validation state of the thread
    passed, ever, accepted, inspections, budgetStop,
    \* the client
    consumed, margin,
    call,           \* the call being answered
    runs, done,     \* the turn at hand
    \* the provider
    billed,         \* tokens it has charged
    drift           \* its largest miscount of a prompt before this call

spending == <<ledger, consumed, margin, call, billed, drift>>
judging  == <<passed, ever, accepted, inspections, backup>>
saving   == <<dirs, root>>
vars == <<pc, editing, work, spending, judging, saving, budgetStop, runs, done>>

NoCall == [estimate |-> 0, drift |-> 0, allowance |-> 0, completion |-> 0]

Turn == Len(dirs) + 1

TypeOK ==
    /\ pc \in {"ask", "answered", "reply", "review", "validate", "snapshot",
               "sanitize", "publish", "ended", "failed"}
    /\ editing \in BOOLEAN /\ passed \in BOOLEAN /\ ever \in BOOLEAN
    /\ budgetStop \in BOOLEAN /\ done \in BOOLEAN
    /\ work \in MaybeCandidate /\ backup \in MaybeCandidate /\ root \in MaybeCandidate
    /\ dirs \in Seq(TurnDir) /\ Len(dirs) <= MaxTurns
    /\ runs \in Seq(Execution) /\ Len(runs) <= MaxPrograms
    /\ accepted \subseteq Programs
    /\ inspections \in 0 .. MaxTurns
    /\ ledger \in [total : Nat, rejected : Nat]
    /\ consumed \in Nat /\ margin \in Nat /\ billed \in Nat /\ drift \in Nat
    /\ call \in [estimate : Nat, drift : Nat, allowance : 0 .. Requested,
                 completion : Nat]

(***************************************************************************)
(* _run_agent_with_mesh_sidecars: the validation state is reset.           *)
(***************************************************************************)
Init ==
    /\ pc = "ask" /\ editing \in BOOLEAN
    /\ work = NoCandidate /\ backup = NoCandidate /\ root = NoCandidate
    /\ dirs = <<>> /\ runs = <<>>
    /\ ledger = [total |-> 0, rejected |-> 0]
    /\ passed = FALSE /\ ever = FALSE /\ accepted = {}
    /\ inspections = 0 /\ budgetStop = FALSE /\ done = FALSE
    /\ consumed = 0 /\ margin = BaseMargin /\ call = NoCall
    /\ billed = 0 /\ drift = 0

-----------------------------------------------------------------------------
(***************************************************************************)
(* _complete_with_cap                                                      *)
(***************************************************************************)
InspectedTooLong == inspections >= HardLimit /\ ~ever

Allowance(estimate) ==
    LET requested == IF inspections >= SoftLimit THEN SoftRequested ELSE Requested
    IN  Max({0, Min({requested, Cap - consumed - (estimate + margin)})})

\* Faulty variant: only the last candidate counts.
StopIfLastPassed == passed
\* An attempt out of tokens ends as done if it has an accepted candidate.
StopAfterPass == ever

Stop ==
    /\ budgetStop' = StopAfterPass
    /\ pc' = IF StopAfterPass THEN "review" ELSE "failed"

AskInspected ==
    /\ pc = "ask" /\ InspectedTooLong
    /\ pc' = "failed"
    /\ UNCHANGED <<editing, work, spending, judging, saving, budgetStop, runs, done>>

AskExhausted(estimate) ==
    /\ pc = "ask" /\ ~InspectedTooLong
    /\ Allowance(estimate) <= 0
    /\ Stop
    /\ UNCHANGED <<editing, work, spending, judging, saving, runs, done>>

Ask(estimate, miscount, overrun) ==
    /\ pc = "ask" /\ ~InspectedTooLong
    /\ Allowance(estimate) > 0
    /\ \E completion \in {1, Allowance(estimate), Allowance(estimate) + overrun} :
         /\ call' = [estimate |-> estimate, drift |-> miscount,
                     allowance |-> Allowance(estimate), completion |-> completion]
         /\ billed' = billed + estimate + miscount + completion
    /\ pc' = "answered"
    /\ UNCHANGED <<editing, work, drift, ledger, consumed, margin, judging, saving,
                   budgetStop, runs, done>>

Total == call.estimate + call.drift + call.completion

\* Faulty variant: forgets larger miscounts of earlier prompts.
CalibratedToLast == Max({BaseMargin, call.drift + Buffer})
Calibrated == Max({margin, call.drift + Buffer})

Crosses == consumed + Total > Cap

\* Faulty variant: the call that crossed the cap is not recorded.
RecordedIfAccepted ==
    IF Crosses THEN ledger ELSE [ledger EXCEPT !.total = @ + Total]
\* _record_provider_usage
Recorded ==
    [total    |-> ledger.total + Total,
     rejected |-> ledger.rejected + (IF Crosses THEN 1 ELSE 0)]

Answered ==
    /\ pc = "answered"
    /\ margin' = Calibrated
    /\ consumed' = consumed + Total
    /\ ledger' = Recorded
    /\ IF Crosses THEN Stop ELSE pc' = "reply" /\ UNCHANGED budgetStop
    /\ call' = NoCall
    /\ drift' = Max({drift, call.drift})
    /\ UNCHANGED <<editing, work, billed, judging, saving, runs, done>>

-----------------------------------------------------------------------------
(***************************************************************************)
(* The turn.  A reply says it is done, holds programs, or neither; code    *)
(* beside the done signal makes it a reply of programs.                    *)
(***************************************************************************)
ReplyDone ==
    /\ pc = "reply" /\ pc' = "review"
    /\ UNCHANGED <<editing, work, spending, judging, saving, budgetStop, runs, done>>

ReplyPlan ==
    /\ pc = "reply" /\ pc' = "validate"
    /\ UNCHANGED <<editing, work, spending, judging, saving, budgetStop, runs, done>>

CandidateOf(rs, i) ==
    [turn |-> Turn, at |-> i, code |-> rs[i].code, success |-> rs[i].success]

Writers(rs) == {i \in DOMAIN rs : rs[i].writes}

Live(rs) == IF Writers(rs) = {} THEN work ELSE CandidateOf(rs, Max(Writers(rs)))

ReplyPrograms ==
    /\ pc = "reply"
    /\ \E n \in 1 .. MaxPrograms : \E rs \in [1 .. n -> Execution] :
         /\ runs' = rs
         /\ work' = Live(rs)
    /\ pc' = "validate"
    /\ UNCHANGED <<editing, spending, judging, saving, budgetStop, done>>

\* Faulty variant: the end of the budget does not count as a review.
DoneIfPassed == passed
\* _has_done_signal_after_review
DoneAccepted == passed \/ budgetStop

Review ==
    /\ pc = "review"
    /\ done' = DoneAccepted
    /\ pc' = "snapshot"
    /\ UNCHANGED <<editing, work, spending, judging, saving, budgetStop, runs>>

-----------------------------------------------------------------------------
(***************************************************************************)
(* _auto_validate_and_render_strict, on the last program of the turn.  Its *)
(* verdict stands for the geometry, change and count evidence checks.      *)
(***************************************************************************)
InspectionsAfter(rs) ==
    IF editing /\ Last(rs).success THEN inspections + 1 ELSE inspections

\* Upstream may or may not validate a turn that ran nothing.
ValidateNothing ==
    /\ pc = "validate" /\ runs = <<>>
    /\ passed' \in {passed, ever}
    /\ pc' = "snapshot"
    /\ UNCHANGED <<editing, work, ever, accepted, inspections, backup,
                   spending, saving, budgetStop, runs, done>>

ValidateInspection ==
    /\ pc = "validate" /\ runs # <<>> /\ ~Last(runs).writes
    /\ inspections' = InspectionsAfter(runs)
    /\ passed' = ever
    /\ pc' = "snapshot"
    /\ UNCHANGED <<editing, work, ever, accepted, backup, spending, saving,
                   budgetStop, runs, done>>

Accept ==
    /\ pc = "validate" /\ runs # <<>> /\ Last(runs).writes /\ Last(runs).success
    /\ passed' = TRUE /\ ever' = TRUE
    /\ accepted' = accepted \cup {Last(runs).code}
    /\ backup' = work
    /\ pc' = "snapshot"
    /\ UNCHANGED <<editing, work, inspections, spending, saving, budgetStop, runs, done>>

Reject ==
    /\ pc = "validate" /\ runs # <<>> /\ Last(runs).writes
    /\ passed' = FALSE
    /\ work' = backup
    /\ pc' = "snapshot"
    /\ UNCHANGED <<editing, ever, accepted, inspections, backup, spending, saving,
                   budgetStop, runs, done>>

-----------------------------------------------------------------------------
(***************************************************************************)
(* _save_with_trace                                                        *)
(***************************************************************************)
Producer(rs) ==
    IF Writers(rs) = {} THEN "nobody"
    ELSE LET last == rs[Max(Writers(rs))]
         IN  IF last.success THEN last.code ELSE "failed"

\* The upstream saver.
Snapshot ==
    /\ pc = "snapshot"
    /\ dirs' = Append(dirs, [file |-> work, producer |-> Producer(runs)])
    /\ root' = work
    /\ pc' = "sanitize"
    /\ UNCHANGED <<editing, work, spending, judging, budgetStop, runs, done>>

\* Faulty variant: keeps what the saver copied into a turn that wrote nothing.
SanitizedButStale(dir) ==
    IF dir.producer \in accepted \cup {"nobody"}
    THEN dir ELSE [dir EXCEPT !.file = NoCandidate]
\* _sanitize_saved_candidates: what a turn's directory keeps as its candidate
\* (the others are deleted, or renamed to rejected_...).
Sanitized(dir) ==
    IF dir.producer \in accepted THEN dir ELSE [dir EXCEPT !.file = NoCandidate]

Sanitize ==
    /\ pc = "sanitize"
    /\ dirs' = [t \in DOMAIN dirs |-> Sanitized(dirs[t])]
    /\ root' = NoCandidate
    /\ pc' = "publish"
    /\ UNCHANGED <<editing, work, spending, judging, budgetStop, runs, done>>

Holding == {t \in DOMAIN dirs : dirs[t].file # NoCandidate}

\* Faulty variant: the first accepted candidate is never replaced.
Oldest == IF Holding = {} THEN NoCandidate ELSE dirs[Min(Holding)].file
Newest == IF Holding = {} THEN NoCandidate ELSE dirs[Max(Holding)].file

Publish ==
    /\ pc = "publish"
    /\ root' = Newest
    /\ runs' = <<>>
    /\ pc' = IF done \/ Len(dirs) = MaxTurns THEN "ended" ELSE "ask"
    /\ UNCHANGED <<editing, work, spending, judging, dirs, budgetStop, done>>

Next ==
    \/ AskInspected
    \/ \E estimate \in Estimates : AskExhausted(estimate)
    \/ \E estimate \in Estimates, miscount \in Drifts, overrun \in Overruns :
         Ask(estimate, miscount, overrun)
    \/ Answered
    \/ ReplyDone \/ ReplyPlan \/ ReplyPrograms \/ Review
    \/ ValidateNothing \/ ValidateInspection \/ Accept \/ Reject
    \/ Snapshot \/ Sanitize \/ Publish

Spec == Init /\ [][Next]_vars

-----------------------------------------------------------------------------
(***************************************************************************)
(* Properties                                                              *)
(***************************************************************************)
\* Whatever the turns did to the work directory, the published candidate was
\* written by a program that succeeded and whose code has been accepted: never
\* a failed program's file, nor a leftover the saver copied.  Only between the
\* upstream save and its sanitizing may the root hold anything else.
PublishedIsAccepted ==
    pc # "sanitize" /\ root # NoCandidate =>
        root.success /\ root.code \in accepted

\* Once saved, an accepted candidate stays published until a later turn's
\* replaces it: rejections, inspections and the end of the budget keep it.
LatestAcceptedWins ==
    pc \notin {"snapshot", "sanitize", "publish"} /\ backup # NoCandidate =>
        \E t \in backup.turn .. Len(dirs) :
            root # NoCandidate /\ dirs[t].file = root

\* An attempt that has an accepted candidate never ends as a failure, however
\* it runs out of tokens or inspections.
KeptWhenBudgetEnds == pc = "failed" => backup = NoCandidate

\* Once the cap has been reached or crossed, no call is made and no reply is
\* acted on, even when the last candidate was rejected.
NothingAfterTheBudget ==
    budgetStop \/ billed > Cap => pc \notin {"ask", "reply"}

\* Every token the provider charged for an answer is in the ledger before the
\* answer is judged, and the call that crossed the cap is marked there.
ChargesAreKept ==
    pc # "answered" =>
        /\ ledger.total = billed
        /\ ledger.rejected = IF billed > Cap THEN 1 ELSE 0

\* A call that stays within its max_tokens crosses the cap only if its prompt
\* was miscounted by more than the fixed margin and by more than any prompt
\* before it: the margin learned from a miscount is never forgotten.
CrossesOnlyOnNewDrift ==
    pc = "answered" /\ billed > Cap /\ call.completion <= call.allowance =>
        /\ call.drift > drift /\ call.drift > BaseMargin
=============================================================================

---------------------------- MODULE NativeAgent ----------------------------
(***************************************************************************)
(* Runs of the native agent (src/src/cadrig/native_agent.py, run) sharing  *)
(* one memory adapter with each other and with direct users of the         *)
(* ExecutionEngine, who may apply plans and roll back any receipt.         *)
(*                                                                         *)
(* A run is a sequence of adapter calls with model calls between them; the *)
(* adapter's lock protects a call, nothing protects the run.  One action   *)
(* here is one adapter call with the local code up to the next call.  The  *)
(* document is observed once, at the start: repairs replan against that    *)
(* snapshot.  What the models answer is arbitrary: any contract, any       *)
(* action list, or an error.                                               *)
(*                                                                         *)
(* Left out: refused and dry-run calls of direct users, which change       *)
(* nothing a run can see.  Recording the outcome is in Episodes.           *)
(***************************************************************************)
EXTENDS MemoryAdapter

CONSTANTS
    Agents,         \* runs of NativeCADAgent.run, each with its own caller id
    Contracts,      \* what the model may answer to the compiler
    MaxRepairs      \* repairs allowed after the first attempt

ASSUME AgentsAssumption == Agents \subseteq Callers /\ MaxRepairs \in Nat

VARIABLE run        \* the local state of each run

agentVars == <<documents, undo, issued, receipts, run>>

Verifier == INSTANCE Verification

-----------------------------------------------------------------------------
Users == Callers \ Agents

Phases == {"observe", "plan", "preflight", "preview", "apply", "rollback", "done"}
RunStatuses == {"none", "previewed", "committed", "rolled_back", "refused", "failed"}

NotStarted ==
    [phase |-> "observe", status |-> "none", document_id |-> Absent, apply |-> FALSE,
     contract |-> Absent, snapshot |-> NoDocument, attempts |-> 0, plan |-> Absent,
     preview |-> NoReceipt, applied |-> NoReceipt]

AgentInit == Init /\ run = [a \in Agents |-> NotStarted]

Update(a, fields) ==
    run' = [run EXCEPT ![a] = [f \in DOMAIN @ |->
                                  IF f \in DOMAIN fields THEN fields[f] ELSE @[f]]]

Finish(a, status) == [phase |-> "done", status |-> status]

\* ContractVerifier.verify accepts the receipt.
Verified(contract, receipt) ==
    Accepted(receipt) /\ Verifier!Satisfies(contract, receipt.before, receipt.after)

\* Faulty variants: one attempt too many, and attempts that are not counted.
AfterRejectionOnceMore(a) ==
    IF run[a].attempts <= MaxRepairs + 1
    THEN [phase |-> "plan", attempts |-> run[a].attempts + 1]
    ELSE Finish(a, "refused")

AfterRejectionUncounted(a) == [phase |-> "plan"]

\* The feedback goes to the next attempt, or the budget is exhausted.
AfterRejection(a) ==
    IF run[a].attempts <= MaxRepairs
    THEN [phase |-> "plan", attempts |-> run[a].attempts + 1]
    ELSE Finish(a, "refused")

-----------------------------------------------------------------------------
\* ContractCompiler.compile returns the model's answer: anything that is not a
\* contract raises, and so do another intent or document, which are left out.
Compiles(answer) == Verifier!IsDesignContract(answer)

\* observe and compile: the snapshot is all the run will ever know of the
\* document's state before its first execute.
ObserveAndCompile(a, d, apply, contract) ==
    /\ run[a].phase = "observe"
    /\ Compiles(contract)
    /\ Update(a, [phase |-> "plan", document_id |-> d, apply |-> apply,
                  contract |-> contract, snapshot |-> Observe(d), attempts |-> 1])
    /\ UNCHANGED vars

\* observe or compile raised: NativeAgentError.
CompileFails(a) ==
    /\ run[a].phase = "observe"
    /\ Update(a, Finish(a, "failed"))
    /\ UNCHANGED vars

ProposedPlan(a, actions) ==
    [document_id |-> run[a].document_id, base_revision |-> run[a].snapshot.revision,
     actions |-> actions]

\* ActionGraphPlanner.propose: plans for another document or revision are
\* rejected, so are unadvertised actions and a missing document not created first.
PlannerAccepts(a, actions) ==
    /\ ~UsesUnsupported(ProposedPlan(a, actions))
    /\ run[a].snapshot.features = Absent => 1 \in Creations(ProposedPlan(a, actions))

Propose(a, actions) ==
    /\ run[a].phase = "plan"
    /\ PlannerAccepts(a, actions)
    /\ Update(a, [phase |-> "preflight", plan |-> ProposedPlan(a, actions)])
    /\ UNCHANGED vars

\* ActionPlanningError: the answer was no plan, or one the planner rejects.
ProposeFails(a) ==
    /\ run[a].phase = "plan"
    /\ Update(a, AfterRejection(a))
    /\ UNCHANGED vars

Preflight(a) ==
    /\ run[a].phase = "preflight"
    /\ Update(a, IF Valid(run[a].plan) THEN [phase |-> "preview"] ELSE AfterRejection(a))
    /\ UNCHANGED vars

\* Faulty variant: the preview is not verified.
PreviewUnverified(a) ==
    /\ run[a].phase = "preview"
    /\ Execute(a, run[a].plan, TRUE)
    /\ LET receipt == receipts'[a]
           next    == IF ~Accepted(receipt) THEN AfterRejection(a)
                      ELSE IF run[a].apply THEN [phase |-> "apply"]
                      ELSE Finish(a, "previewed")
       IN  Update(a, [f \in DOMAIN next \cup {"preview"} |->
                         IF f = "preview" THEN receipt ELSE next[f]])

\* The dry run and its verification.
Preview(a) ==
    /\ run[a].phase = "preview"
    /\ Execute(a, run[a].plan, TRUE)
    /\ LET receipt == receipts'[a]
           next    == IF ~Verified(run[a].contract, receipt) THEN AfterRejection(a)
                      ELSE IF run[a].apply THEN [phase |-> "apply"]
                      ELSE Finish(a, "previewed")
       IN  Update(a, [f \in DOMAIN next \cup {"preview"} |->
                         IF f = "preview" THEN receipt ELSE next[f]])

\* Faulty variant: what the preview showed is not verified again.
ApplyPlanUnverified(a) ==
    /\ run[a].phase = "apply"
    /\ Execute(a, run[a].plan, FALSE)
    /\ LET receipt == receipts'[a]
           next    == Finish(a, IF Accepted(receipt) THEN "committed" ELSE "refused")
       IN  Update(a, [f \in DOMAIN next \cup {"applied"} |->
                         IF f = "applied" THEN receipt ELSE next[f]])

\* The real execution and its verification.
ApplyPlan(a) ==
    /\ run[a].phase = "apply"
    /\ Execute(a, run[a].plan, FALSE)
    /\ LET receipt == receipts'[a]
           next    == IF Verified(run[a].contract, receipt) THEN Finish(a, "committed")
                      ELSE IF Accepted(receipt) THEN [phase |-> "rollback"]
                      ELSE Finish(a, "refused")
       IN  Update(a, [f \in DOMAIN next \cup {"applied"} |->
                         IF f = "applied" THEN receipt ELSE next[f]])

\* Faulty variant: the run reports its refusal and leaves its edit there.
RollBackRunSkipped(a) ==
    /\ run[a].phase = "rollback"
    /\ Update(a, Finish(a, "refused"))
    /\ UNCHANGED vars

\* The applied edit was rejected: undo it, if the adapter still can.
RollBackRun(a) ==
    /\ run[a].phase = "rollback"
    /\ Rollback(a, run[a].applied.id)
    /\ Update(a, Finish(a, IF Accepted(receipts'[a]) THEN "rolled_back" ELSE "refused"))

AgentStep(a) ==
    \/ \E d \in Documents, apply \in BOOLEAN, contract \in Contracts :
           ObserveAndCompile(a, d, apply, contract)
    \/ CompileFails(a)
    \/ \E actions \in ActionLists : Propose(a, actions)
    \/ ProposeFails(a)
    \/ Preflight(a)
    \/ Preview(a)
    \/ ApplyPlan(a)
    \/ RollBackRun(a)

\* Receipt numbers are a bound of the model: users leave one for every run.
Unfinished == {a \in Agents : run[a].phase # "done" /\ run[a].applied.id = 0}

UserApplies(u, plan) ==
    /\ issued + Cardinality(Unfinished) < MaxReceipts
    /\ ExecuteApplied(u, plan)
    /\ UNCHANGED run

UserRollsBack(u, id) ==
    /\ RolledBack(u, id)
    /\ UNCHANGED run

UserStep(u) ==
    \/ \E plan \in Plan : UserApplies(u, plan)
    \/ \E id \in 1..issued : UserRollsBack(u, id)

AgentNext == (\E a \in Agents : AgentStep(a)) \/ (\E u \in Users : UserStep(u))

\* A run is ordinary sequential code: it takes its next step while it has one.
AgentSpec == AgentInit /\ [][AgentNext]_agentVars /\ \A a \in Agents : WF_agentVars(AgentStep(a))

-----------------------------------------------------------------------------
(***************************************************************************)
(* Properties.                                                             *)
(***************************************************************************)

\* Runs are well typed; no run makes more than MaxRepairs + 1 attempts.
AgentTypeOK ==
    \A a \in Agents :
        /\ run[a].phase \in Phases
        /\ run[a].status \in RunStatuses
        /\ run[a].status # "none" <=> run[a].phase = "done"
        /\ run[a].attempts \in 0..(MaxRepairs + 1)
        /\ run[a].preview \in Receipt /\ run[a].applied \in Receipt

\* The undo record a run's applied edit left, if it is still there.
EditOf(a) == {record \in undo : record.original_receipt.id = run[a].applied.id}

\* A committed run's edit, as long as nobody undoes it, is a version of the
\* document that its own contract accepts over the version below it, whatever
\* other runs and users did before, between and after ("independent
\* verification is mandatory before commit", README.md).
CommittedEditsSatisfyContract ==
    \A a \in Agents : \A record \in EditOf(a) :
        run[a].status = "committed" =>
            Verifier!Satisfies(run[a].contract, record.before, record.original_receipt.after)

\* A run that did not commit leaves no edit of its own in a document, but for
\* one case: it was rejected after it was applied, and when it was to be rolled
\* back somebody else had already built on it, so that the rollback was refused.
OnlyAConflictLeavesAnEdit ==
    \A a \in Agents :
        run[a].status \notin {"none", "committed"} /\ EditOf(a) # {} =>
            /\ run[a].status = "refused"
            /\ run[a].applied.status = "applied"
            /\ ~Verified(run[a].contract, run[a].applied)
            /\ receipts[a].status = "refused"

\* An applied edit is rejected only if the document's features at the apply
\* were not those the accepted preview was computed from, although the
\* revision was the same: preview and apply agree on equal documents.
RejectedApplyMeansOtherContent ==
    \A a \in Agents :
        run[a].applied.status = "applied" /\ ~Verified(run[a].contract, run[a].applied) =>
            /\ run[a].applied.before.revision = run[a].preview.before.revision
            /\ run[a].applied.before.features # run[a].preview.before.features

\* What a reader of "every edit is validated against the observed document
\* revision" (README.md) and "reject plans created from a stale document
\* revision" (docs/ADAPTER_GUIDE.md) expects: a committed edit was applied to
\* the very document its run observed.  Revision numbers come back after a
\* rollback, so it need not be: this does not hold (README, disagreements).
CommitsToTheObservedDocument ==
    \A a \in Agents :
        run[a].status = "committed" => run[a].applied.before = run[a].snapshot
=============================================================================

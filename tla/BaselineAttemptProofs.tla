----------------------- MODULE BaselineAttemptProofs -----------------------
(***************************************************************************)
(* Proofs about BaselineAttempt, for every cap, margin, limit, number of   *)
(* turns and set of programs, and whatever the provider reports.           *)
(***************************************************************************)
EXTENDS BaselineAttempt, FiniteSetTheorems,
        WellFoundedInduction, TLAPS

\* A nonempty set of numbers up to n has a largest one, and Max chooses it.
LEMMA LargestOfSome ==
    ASSUME NEW n \in Nat, NEW S \in SUBSET (1 .. n), S # {}
    PROVE  Max(S) \in S /\ \A y \in S : Max(S) >= y
  <1> DEFINE Above(x) == {y \in S : y > x}
             Aboves   == {Above(x) : x \in S}
  <1> \A z \in S : z \in Int
    OBVIOUS
  <1>1. IsFiniteSet(S)
    <2>1. IsFiniteSet(1 .. n)
      BY FS_Interval
    <2>2. QED
      BY <2>1, FS_Subset
  <1>2. Aboves \subseteq SUBSET S /\ Aboves # {}
    OBVIOUS
  <1>3. PICK least \in Aboves :
          \A other \in Aboves : ~ (<<other, least>> \in StrictSubsetOrdering(S))
    <2>1. IsWellFoundedOn(StrictSubsetOrdering(S), SUBSET S)
      BY <1>1, FS_StrictSubsetOrderingWellFounded, FS_FiniteSubsetsOfFinite
    <2> HIDE DEF Aboves
    <2>2. QED
      BY <1>2, <2>1, WFMin
  <1>4. PICK m \in S : least = Above(m)
    OBVIOUS
  <1>5. \A y \in S : m >= y
    <2> SUFFICES ASSUME NEW y \in S, y > m PROVE FALSE
      OBVIOUS
    <2>1. y \in Above(m) /\ y \notin Above(y)
      OBVIOUS
    <2>2. \A z \in S : z > y => z > m
      OBVIOUS
    <2>3. <<Above(y), Above(m)>> \in StrictSubsetOrdering(S)
      BY <2>1, <2>2 DEF StrictSubsetOrdering
    <2>4. QED
      BY <1>3, <1>4, <2>3
  <1>6. QED
    BY <1>5 DEF Max

\* The larger of two numbers is one of them and above both.
LEMMA LargerOfTwo ==
    ASSUME NEW a \in Int, NEW b \in Int
    PROVE  /\ Max({a, b}) \in Int /\ Max({a, b}) >= a /\ Max({a, b}) >= b
           /\ Max({a, b}) = a \/ Max({a, b}) = b
  <1>1. \E x \in {a, b} : \A y \in {a, b} : x >= y
    BY a >= b \/ b >= a
  <1>2. QED
    BY <1>1 DEF Max

\* The smaller of two numbers is below both.
LEMMA SmallerOfTwo ==
    ASSUME NEW a \in Int, NEW b \in Int
    PROVE  Min({a, b}) \in Int /\ Min({a, b}) <= a /\ Min({a, b}) <= b
  <1>1. \E x \in {a, b} : \A y \in {a, b} : x =< y
    BY a >= b \/ b >= a
  <1>2. QED
    BY <1>1 DEF Min

-----------------------------------------------------------------------------
(***************************************************************************)
(* The budget.  What is charged is what the ledger holds, but for the call *)
(* being answered; a call is made only below the cap; and the attempt that *)
(* stops at the cap is done or has failed.                                 *)
(***************************************************************************)
Amounts == consumed \in Nat /\ margin \in Nat /\ billed \in Nat /\ drift \in Nat

CallType ==
    call \in [estimate : Nat, drift : Nat, allowance : 0 .. Requested, completion : Nat]

Charged ==
    /\ ledger = [total |-> consumed, rejected |-> IF consumed > Cap THEN 1 ELSE 0]
    /\ pc = "answered" => billed = consumed + Total
    /\ pc # "answered" => billed = consumed

Spending == {"ask", "answered", "reply", "validate"}

Stopped ==
    /\ pc \in Spending => consumed <= Cap /\ ~budgetStop
    /\ pc # "failed" /\ consumed > Cap => budgetStop
    /\ budgetStop /\ pc \in {"snapshot", "sanitize", "publish"} => done

Kept ==
    /\ pc = "failed" => ~ever
    /\ backup # NoCandidate => ever

BudgetInv == Amounts /\ CallType /\ Charged /\ Stopped /\ Kept

\* An allowance is at most what was asked for and what the cap leaves.
LEMMA AllowanceBounds ==
    ASSUME Amounts, NEW estimate \in Estimates
    PROVE  /\ Allowance(estimate) \in 0 .. Requested
           /\ Allowance(estimate) > 0 =>
                Allowance(estimate) <= Cap - consumed - (estimate + margin)
  <1> DEFINE requested == IF inspections >= SoftLimit THEN SoftRequested ELSE Requested
             left      == Cap - consumed - (estimate + margin)
  <1>1. requested \in 0 .. Requested /\ left \in Int
    BY ConfigAssumption DEF Amounts
  <1> DEFINE least == Min({requested, left})
  <1>2. least \in Int /\ least <= requested /\ least <= left
    <2>1. requested \in Int /\ left \in Int
      BY <1>1
    <2> HIDE DEF requested, left
    <2>2. /\ Min({requested, left}) \in Int /\ Min({requested, left}) <= requested
          /\ Min({requested, left}) <= left
      BY <2>1, SmallerOfTwo
    <2>3. QED
      BY <2>2
  <1>3. Max({0, least}) \in Nat /\ (Max({0, least}) = 0 \/ Max({0, least}) = least)
    <2>1. least \in Int /\ 0 \in Int
      BY <1>2
    <2> HIDE DEF least
    <2>2. QED
      BY <2>1, LargerOfTwo
  <1>4. Max({0, least}) \in 0 .. Requested
    BY <1>1, <1>2, <1>3, ConfigAssumption
  <1>5. Max({0, least}) > 0 => Max({0, least}) <= left
    <2> HIDE DEF least, left
    <2>1. QED
      BY <1>2, <1>3
  <1>6. QED
    BY <1>4, <1>5 DEF Allowance

\* The attempt starts with nothing spent and nothing accepted.
LEMMA BudgetInit == Init => BudgetInv
  BY ConfigAssumption
  DEF Init, BudgetInv, Amounts, CallType, Charged, Stopped, Kept, NoCall, Spending

\* Every step keeps the budget's invariant.
LEMMA BudgetStep == BudgetInv /\ [Next]_vars => BudgetInv'
  <1> SUFFICES ASSUME BudgetInv, [Next]_vars PROVE BudgetInv'
    OBVIOUS
  <1> USE DEF BudgetInv, Amounts, CallType, Charged, Stopped, Kept, Spending, Total
  <1>1. CASE AskInspected
    BY <1>1 DEF AskInspected, InspectedTooLong, spending, judging
  <1>2. ASSUME NEW estimate \in Estimates, AskExhausted(estimate) PROVE BudgetInv'
    BY <1>2 DEF AskExhausted, Stop, StopAfterPass, spending, judging
  <1>3. ASSUME NEW estimate \in Estimates, NEW miscount \in Drifts,
               NEW overrun \in Overruns, Ask(estimate, miscount, overrun)
        PROVE  BudgetInv'
    <2>1. Allowance(estimate) \in 0 .. Requested
      BY AllowanceBounds
    <2>2. estimate \in Nat /\ miscount \in Nat /\ overrun \in Nat
      BY ConfigAssumption
    <2> DEFINE allowed == Allowance(estimate)
    <2> HIDE DEF allowed
    <2>3. PICK completion \in {1, allowed, allowed + overrun} :
            /\ call' = [estimate |-> estimate, drift |-> miscount,
                        allowance |-> allowed, completion |-> completion]
            /\ billed' = billed + estimate + miscount + completion
      BY <1>3 DEF Ask, allowed
    <2>4. completion \in Nat /\ allowed \in 0 .. Requested
      BY <2>1, <2>2 DEF allowed
    <2>5. UNCHANGED <<consumed, margin, drift, ledger, budgetStop, done, judging>>
          /\ pc = "ask" /\ pc' = "answered"
      BY <1>3 DEF Ask
    <2>6. Amounts' /\ CallType'
      BY <2>2, <2>3, <2>4, <2>5
    <2>7. Charged'
      BY <2>2, <2>3, <2>4, <2>5
    <2>8. QED
      BY <2>5, <2>6, <2>7 DEF judging
  <1>4. CASE Answered
    <2>1. /\ pc = "answered" /\ consumed' = consumed + Total
          /\ ledger' = Recorded /\ call' = NoCall /\ margin' = Calibrated
          /\ drift' = Max({drift, call.drift})
          /\ UNCHANGED <<billed, judging, done>>
          /\ IF Crosses THEN Stop ELSE pc' = "reply" /\ UNCHANGED budgetStop
      BY <1>4 DEF Answered
    <2>2. Total \in Nat /\ call.drift + Buffer \in Int
      BY ConfigAssumption
    <2>3. Calibrated \in Nat
      <3> DEFINE learned == call.drift + Buffer
      <3>1. margin \in Int /\ learned \in Int
        BY <2>2
      <3> HIDE DEF learned
      <3>2. Max({margin, learned}) \in Int /\ Max({margin, learned}) >= margin
        BY <3>1, LargerOfTwo
      <3>3. QED
        BY <3>2 DEF Calibrated, learned
    <2>4. Amounts'
      <3>1. drift \in Int /\ call.drift \in Int
        OBVIOUS
      <3>2. Max({drift, call.drift}) \in Int /\ Max({drift, call.drift}) >= drift
        BY <3>1, LargerOfTwo
      <3>3. QED
        BY <2>1, <2>2, <2>3, <3>2
    <2>5. CallType'
      BY <2>1, ConfigAssumption DEF NoCall
    <2>6. Charged'
      BY <2>1, <2>2, ConfigAssumption DEF Recorded, Crosses, Stop
    <2>7. Stopped' /\ Kept'
      BY <2>1, <2>2, ConfigAssumption DEF Crosses, Stop, StopAfterPass, judging
    <2>8. QED
      BY <2>4, <2>5, <2>6, <2>7
  <1>5. CASE ReplyDone \/ ReplyPlan \/ ReplyPrograms
    BY <1>5 DEF ReplyDone, ReplyPlan, ReplyPrograms, spending, judging
  <1>6. CASE Review
    BY <1>6 DEF Review, DoneAccepted, spending, judging
  <1>7. CASE ValidateNothing \/ ValidateInspection
    BY <1>7 DEF ValidateNothing, ValidateInspection, spending
  <1>8. CASE Accept
    BY <1>8 DEF Accept, spending
  <1>9. CASE Reject
    BY <1>9 DEF Reject, spending
  <1>10. CASE Snapshot \/ Sanitize
    BY <1>10 DEF Snapshot, Sanitize, spending, judging
  <1>11. CASE Publish
    <2>1. budgetStop => done
      BY <1>11 DEF Publish
    <2>2. pc' = "ask" => consumed <= Cap
      BY <1>11, <2>1, ConfigAssumption DEF Publish
    <2>3. QED
      BY <1>11, <2>1, <2>2 DEF Publish, spending, judging
  <1>12. CASE UNCHANGED vars
    BY <1>12 DEF vars, spending, judging
  <1>13. QED
    BY <1>1, <1>2, <1>3, <1>4, <1>5, <1>6, <1>7, <1>8, <1>9, <1>10, <1>11, <1>12 DEF Next

\* It holds throughout an attempt.
LEMMA BudgetInvariant == Spec => []BudgetInv
  BY BudgetInit, BudgetStep, PTL DEF Spec

\* Every token the provider charged for an answer is in the ledger before the
\* answer is judged, and the call that crossed the cap is marked in it.
THEOREM ChargesReachTheLedger == Spec => []ChargesAreKept
  <1>1. BudgetInv => ChargesAreKept
    BY DEF BudgetInv, Charged, ChargesAreKept
  <1>2. QED
    BY <1>1, BudgetInvariant, PTL

\* Once the cap has been reached or crossed, no call is made and no reply is
\* acted on.
THEOREM CapEndsTheAttempt == Spec => []NothingAfterTheBudget
  <1>1. BudgetInv => NothingAfterTheBudget
    BY ConfigAssumption
    DEF BudgetInv, Amounts, Charged, Stopped, Spending, NothingAfterTheBudget
  <1>2. QED
    BY <1>1, BudgetInvariant, PTL

\* An attempt that has an accepted candidate never ends as a failure.
THEOREM AcceptedSurvivesTheBudget == Spec => []KeptWhenBudgetEnds
  <1>1. BudgetInv => KeptWhenBudgetEnds
    BY DEF BudgetInv, Kept, KeptWhenBudgetEnds
  <1>2. QED
    BY <1>1, BudgetInvariant, PTL

(***************************************************************************)
(* The margin never falls, so it covers every miscount seen so far.        *)
(***************************************************************************)
Margins ==
    /\ margin >= BaseMargin /\ margin >= drift
    /\ pc = "answered" =>
         consumed + call.estimate + margin + call.allowance <= Cap

\* The margin starts at its base, with no miscount seen.
LEMMA MarginInit == Init => Margins
  BY ConfigAssumption DEF Init, Margins

\* Every step keeps the margin above the miscounts seen.
LEMMA MarginStep == BudgetInv /\ Margins /\ [Next]_vars => Margins'
  <1> SUFFICES ASSUME BudgetInv, Margins, [Next]_vars PROVE Margins'
    OBVIOUS
  <1>1. ASSUME NEW estimate \in Estimates, NEW miscount \in Drifts,
               NEW overrun \in Overruns, Ask(estimate, miscount, overrun)
        PROVE  Margins'
    <2> DEFINE allowed == Allowance(estimate)
    <2>1. /\ UNCHANGED <<consumed, margin, drift>>
          /\ call'.estimate = estimate /\ call'.allowance = allowed /\ allowed > 0
      BY <1>1 DEF Ask
    <2>2. allowed \in Nat /\ allowed <= Cap - consumed - (estimate + margin)
      BY <2>1, AllowanceBounds DEF BudgetInv
    <2>3. estimate \in Nat /\ consumed \in Nat /\ margin \in Nat /\ Cap \in Nat
      BY ConfigAssumption DEF BudgetInv, Amounts
    <2> HIDE DEF allowed
    <2>4. consumed + estimate + margin + allowed <= Cap
      BY <2>2, <2>3
    <2>5. QED
      BY <2>1, <2>4 DEF Margins
  <1>2. CASE Answered
    <2>1. /\ margin' = Calibrated /\ drift' = Max({drift, call.drift})
          /\ pc' # "answered"
      BY <1>2 DEF Answered, Stop
    <2> DEFINE learned == call.drift + Buffer
    <2>2. /\ margin \in Nat /\ drift \in Nat /\ call.drift \in Nat /\ learned \in Nat
          /\ learned >= call.drift /\ BaseMargin \in Nat
      BY ConfigAssumption DEF BudgetInv, Amounts, CallType
    <2> HIDE DEF learned
    <2>3. /\ Max({margin, learned}) \in Int /\ Max({margin, learned}) >= margin
          /\ Max({margin, learned}) >= learned
      BY <2>2, LargerOfTwo
    <2>4. Max({drift, call.drift}) = drift \/ Max({drift, call.drift}) = call.drift
      <3>1. drift \in Int /\ call.drift \in Int
        BY <2>2
      <3>2. QED
        BY <3>1, LargerOfTwo
    <2>5. Calibrated = Max({margin, learned})
      BY DEF Calibrated, learned
    <2>6. QED
      BY <2>1, <2>2, <2>3, <2>4, <2>5 DEF Margins
  <1>3. CASE UNCHANGED <<spending, pc>>
    BY <1>3 DEF Margins, spending
  <1>4. CASE UNCHANGED spending /\ pc' # "answered"
    BY <1>4 DEF Margins, spending
  <1>5. QED
    BY <1>1, <1>2, <1>3, <1>4
    DEF Next, vars, AskInspected, AskExhausted, Stop, ReplyDone, ReplyPlan,
        ReplyPrograms, Review, ValidateNothing, ValidateInspection, Accept, Reject,
        Snapshot, Sanitize, Publish

\* A call that stays within its max_tokens crosses the cap only if its prompt
\* was miscounted by more than the fixed margin and than any prompt before it.
THEOREM MiscountsAreLearned == Spec => []CrossesOnlyOnNewDrift
  <1>1. BudgetInv /\ Margins => CrossesOnlyOnNewDrift
    <2> SUFFICES ASSUME BudgetInv, Margins, pc = "answered", billed > Cap,
                        call.completion <= call.allowance
                 PROVE  call.drift > drift /\ call.drift > BaseMargin
      BY DEF CrossesOnlyOnNewDrift
    <2>1. billed = consumed + (call.estimate + call.drift + call.completion)
      BY DEF BudgetInv, Charged, Total
    <2>2. /\ call.estimate \in Nat /\ call.drift \in Nat /\ call.completion \in Nat
          /\ call.allowance \in Nat /\ consumed \in Nat /\ margin \in Nat
          /\ drift \in Nat /\ BaseMargin \in Nat /\ Cap \in Nat
      BY ConfigAssumption DEF BudgetInv, Amounts, CallType
    <2>3. call.drift > margin
      BY <2>1, <2>2 DEF Margins
    <2>4. QED
      BY <2>2, <2>3 DEF Margins
  <1>2. QED
    BY <1>1, BudgetInvariant, MarginInit, MarginStep, PTL DEF Spec

-----------------------------------------------------------------------------
(***************************************************************************)
(* Types.  A turn is under way only below MaxTurns, and a turn counts at   *)
(* most one inspection.                                                    *)
(***************************************************************************)
Counted ==
    /\ pc \in Spending \cup {"review", "snapshot"} => Len(dirs) < MaxTurns
    /\ inspections <= Len(dirs) + (IF pc = "snapshot" THEN 1 ELSE 0)

TypeInv == TypeOK /\ Counted

\* The absence of a candidate is of its type.
LEMMA NoCandidateType == NoCandidate \in MaybeCandidate
  BY DEF MaybeCandidate

\* The last program that wrote the candidate is one of the turn's.
LEMMA LastWriter ==
    ASSUME NEW rs \in Seq(Execution), Writers(rs) # {}
    PROVE  /\ Max(Writers(rs)) \in 1 .. Len(rs) /\ rs[Max(Writers(rs))].writes
           /\ \A i \in Writers(rs) : Max(Writers(rs)) >= i
  <1>1. Writers(rs) \in SUBSET (1 .. Len(rs)) /\ Len(rs) \in Nat
    BY DEF Writers
  <1> DEFINE writers == Writers(rs)
  <1>2. Max(writers) \in writers /\ \A i \in writers : Max(writers) >= i
    <2> HIDE DEF writers
    <2>1. writers \in SUBSET (1 .. Len(rs)) /\ writers # {} /\ Len(rs) \in Nat
      BY <1>1 DEF writers
    <2>2. QED
      BY <2>1, LargestOfSome
  <1>3. QED
    BY <1>1, <1>2 DEF Writers

\* The producer of a turn is a program, nobody or a failed program.
LEMMA ProducerType ==
    ASSUME NEW rs \in Seq(Execution)
    PROVE  Producer(rs) \in Programs \cup {"nobody", "failed"}
  <1>1. CASE Writers(rs) = {}
    BY <1>1 DEF Producer
  <1>2. CASE Writers(rs) # {}
    <2>1. rs[Max(Writers(rs))] \in Execution
      BY <1>2, LastWriter
    <2>2. QED
      BY <1>2, <2>1 DEF Producer, Execution
  <1>3. QED
    BY <1>1, <1>2

\* What the programs of a reply leave in the work directory has its type.
LEMMA LiveType ==
    ASSUME TypeInv, pc = "reply", NEW rs \in Seq(Execution), Len(rs) <= MaxPrograms
    PROVE  Live(rs) \in MaybeCandidate
  <1>1. CASE Writers(rs) = {}
    BY <1>1 DEF Live, TypeInv, TypeOK
  <1>2. CASE Writers(rs) # {}
    <2> DEFINE i == Max(Writers(rs))
    <2>1. i \in 1 .. Len(rs) /\ Len(rs) \in Nat
      BY <1>2, LastWriter
    <2>2. rs[i] \in Execution /\ i \in 1 .. MaxPrograms
      BY <2>1, ConfigAssumption
    <2>3. Turn \in 1 .. MaxTurns
      BY ConfigAssumption DEF TypeInv, TypeOK, Counted, Turn, Spending
    <2> HIDE DEF i
    <2>4. CandidateOf(rs, i) \in Candidate
      BY <2>2, <2>3 DEF CandidateOf, Candidate, Execution
    <2>5. QED
      BY <1>2, <2>4 DEF Live, MaybeCandidate, i
  <1>3. QED
    BY <1>1, <1>2

\* The newest candidate held is that of the last turn directory with one.
LEMMA NewestHeld ==
    ASSUME NEW Dir, dirs \in Seq(Dir)
    PROVE  IF Holding = {}
           THEN Newest = NoCandidate
           ELSE /\ Max(Holding) \in 1 .. Len(dirs)
                /\ Newest = dirs[Max(Holding)].file
                /\ Newest # NoCandidate
                /\ \A t \in Holding : Max(Holding) >= t
  <1>1. CASE Holding = {}
    BY <1>1 DEF Newest
  <1>2. CASE Holding # {}
    <2> DEFINE holding == Holding
    <2>1. holding \in SUBSET (1 .. Len(dirs)) /\ Len(dirs) \in Nat
      BY DEF Holding
    <2>2. Max(holding) \in holding /\ \A t \in holding : Max(holding) >= t
      <3> HIDE DEF holding
      <3>1. holding # {}
        BY <1>2 DEF holding
      <3>2. QED
        BY <2>1, <3>1, LargestOfSome
    <2>3. QED
      BY <1>2, <2>1, <2>2 DEF Newest, Holding
  <1>3. QED
    BY <1>1, <1>2

\* The attempt starts well typed.
LEMMA TypeInit == Init => TypeInv
  <1> SUFFICES ASSUME Init PROVE TypeInv
    OBVIOUS
  <1>1. /\ work \in MaybeCandidate /\ backup \in MaybeCandidate
        /\ root \in MaybeCandidate
    BY NoCandidateType DEF Init
  <1>2. dirs \in Seq(TurnDir) /\ runs \in Seq(Execution) /\ Len(dirs) = 0 /\ Len(runs) = 0
    BY DEF Init
  <1>3. call \in [estimate : Nat, drift : Nat, allowance : 0 .. Requested,
                  completion : Nat]
    BY ConfigAssumption DEF Init, NoCall
  <1>4. MaxTurns \in Nat /\ MaxPrograms \in Nat /\ BaseMargin \in Nat /\ 0 < MaxTurns
    BY ConfigAssumption
  <1>5. TypeOK
    <2>1. ledger \in [total : Nat, rejected : Nat] /\ accepted \subseteq Programs
      BY DEF Init
    <2>2. /\ editing \in BOOLEAN /\ passed \in BOOLEAN /\ ever \in BOOLEAN
          /\ budgetStop \in BOOLEAN /\ done \in BOOLEAN
      BY DEF Init
    <2>3. /\ inspections \in 0 .. MaxTurns /\ consumed \in Nat /\ margin \in Nat
          /\ billed \in Nat /\ drift \in Nat
      BY <1>4 DEF Init
    <2>4. Len(dirs) <= MaxTurns /\ Len(runs) <= MaxPrograms
      BY <1>2, <1>4
    <2>5. pc \in {"ask", "answered", "reply", "review", "validate", "snapshot",
                  "sanitize", "publish", "ended", "failed"}
      BY DEF Init
    <2>6. QED
      BY <1>1, <1>2, <1>3, <2>1, <2>2, <2>3, <2>4, <2>5, Zenon DEF TypeOK
  <1>6. Counted
    BY <1>2, <1>4 DEF Init, Counted
  <1>7. QED
    BY <1>5, <1>6 DEF TypeInv

\* Every step keeps the types and the count of turns and inspections.
LEMMA TypeStep == TypeInv /\ BudgetInv' /\ [Next]_vars => TypeInv'
  <1> SUFFICES ASSUME TypeInv, BudgetInv', [Next]_vars PROVE TypeInv'
    OBVIOUS
  <1> USE DEF TypeInv, TypeOK, Counted, Spending
  <1>0. /\ Amounts' /\ CallType' /\ ledger' \in [total : Nat, rejected : Nat]
        /\ Len(dirs) \in Nat /\ MaxTurns \in Nat
    BY ConfigAssumption DEF BudgetInv, Amounts, Charged
  <1>1. CASE AskInspected
    BY <1>0, <1>1 DEF AskInspected, spending, judging, saving
  <1>2. ASSUME NEW estimate \in Estimates, AskExhausted(estimate) PROVE TypeInv'
    BY <1>0, <1>2 DEF AskExhausted, Stop, StopAfterPass, spending, judging, saving
  <1>3. ASSUME NEW estimate \in Estimates, NEW miscount \in Drifts,
               NEW overrun \in Overruns, Ask(estimate, miscount, overrun)
        PROVE  TypeInv'
    BY <1>0, <1>3 DEF Ask, judging, saving, Amounts, CallType
  <1>4. CASE Answered
    <2>1. pc' \in {"review", "failed", "reply"} /\ budgetStop' \in BOOLEAN
          /\ pc = "answered"
      BY <1>4 DEF Answered, Stop, StopAfterPass
    <2>2. UNCHANGED <<editing, work, billed, judging, saving, runs, done>>
      BY <1>4 DEF Answered
    <2>3. QED
      BY <1>0, <2>1, <2>2 DEF judging, saving, Amounts, CallType
  <1>5. CASE ReplyDone \/ ReplyPlan
    BY <1>0, <1>5 DEF ReplyDone, ReplyPlan, spending, judging, saving
  <1>6. CASE ReplyPrograms
    <2>1. PICK n \in 1 .. MaxPrograms : \E rs \in [1 .. n -> Execution] :
            runs' = rs /\ work' = Live(rs)
      BY <1>6 DEF ReplyPrograms
    <2>2. PICK rs \in [1 .. n -> Execution] : runs' = rs /\ work' = Live(rs)
      BY <2>1
    <2>3. rs \in Seq(Execution) /\ Len(rs) <= MaxPrograms
      BY <2>2, ConfigAssumption
    <2>4. work' \in MaybeCandidate
      BY <1>6, <2>2, <2>3, LiveType DEF ReplyPrograms
    <2>5. QED
      BY <1>0, <1>6, <2>2, <2>3, <2>4
      DEF ReplyPrograms, spending, judging, saving
  <1>7. CASE Review
    BY <1>0, <1>7 DEF Review, DoneAccepted, spending, judging, saving
  <1>8. CASE ValidateNothing
    BY <1>0, <1>8 DEF ValidateNothing, spending, saving
  <1>9. CASE ValidateInspection
    <2>1. inspections' \in {inspections, inspections + 1}
      BY <1>9 DEF ValidateInspection, InspectionsAfter
    <2>2. QED
      BY <1>0, <1>9, <2>1 DEF ValidateInspection, spending, saving
  <1>10. CASE Accept
    <2>1. Len(runs) \in 1 .. Len(runs)
      BY <1>10 DEF Accept
    <2>2. runs[Len(runs)] \in Execution
      BY <2>1
    <2>3. Last(runs).code \in Programs
      BY <2>2 DEF Last, Execution
    <2>4. QED
      BY <1>0, <1>10, <2>3 DEF Accept, spending, saving
  <1>11. CASE Reject
    <2>1. /\ pc = "validate" /\ pc' = "snapshot" /\ passed' = FALSE /\ work' = backup
          /\ UNCHANGED <<editing, ever, accepted, inspections, backup, dirs, root,
                         budgetStop, runs, done>>
          /\ UNCHANGED drift
      BY <1>11 DEF Reject, spending, saving
    <2>2. TypeOK'
      BY <1>0, <2>1 DEF Amounts, CallType
    <2>3. Counted'
      BY <1>0, <2>1
    <2>4. QED
      BY <2>2, <2>3
  <1>12. CASE Snapshot
    <2> DEFINE dir == [file |-> work, producer |-> Producer(runs)]
    <2>1. dir \in TurnDir
      BY ProducerType DEF TurnDir
    <2>2. dirs' = Append(dirs, dir)
      BY <1>12 DEF Snapshot
    <2> HIDE DEF dir
    <2>3. dirs' \in Seq(TurnDir) /\ Len(dirs') = Len(dirs) + 1
      BY <2>1, <2>2
    <2>4. QED
      BY <1>0, <1>12, <2>3 DEF Snapshot, spending, judging
  <1>13. CASE Sanitize
    <2>1. \A dir \in TurnDir : Sanitized(dir) \in TurnDir
      BY NoCandidateType DEF Sanitized, TurnDir
    <2>2. dirs' \in Seq(TurnDir) /\ Len(dirs') = Len(dirs)
      BY <1>13, <2>1 DEF Sanitize
    <2>3. QED
      BY <1>0, <1>13, <2>2, NoCandidateType DEF Sanitize, spending, judging
  <1>14. CASE Publish
    <2>1. \A t \in 1 .. Len(dirs) : dirs[t].file \in MaybeCandidate
      <3>1. \A t \in 1 .. Len(dirs) : dirs[t] \in TurnDir
        OBVIOUS
      <3>2. QED
        BY <3>1 DEF TurnDir
    <2>2. Newest \in MaybeCandidate
      <3>1. CASE Holding = {}
        BY <3>1, NewestHeld, NoCandidateType
      <3>2. CASE Holding # {}
        BY <2>1, <3>2, NewestHeld
      <3>3. QED
        BY <3>1, <3>2
    <2>3. Len(dirs) # MaxTurns => Len(dirs) < MaxTurns
      BY <1>0
    <2>4. runs' \in Seq(Execution) /\ Len(runs') <= MaxPrograms
      BY <1>14, ConfigAssumption DEF Publish
    <2>5. QED
      BY <1>0, <1>14, <2>2, <2>3, <2>4 DEF Publish, spending, judging
  <1>15. CASE UNCHANGED vars
    BY <1>0, <1>15 DEF vars, spending, judging, saving
  <1>16. QED
    BY <1>1, <1>2, <1>3, <1>4, <1>5, <1>6, <1>7, <1>8, <1>9, <1>10, <1>11,
       <1>12, <1>13, <1>14, <1>15 DEF Next

\* They hold throughout an attempt.
LEMMA TypeInvariant == Spec => []TypeInv
  BY TypeInit, TypeStep, BudgetInvariant, PTL DEF Spec

\* Every variable keeps its type, for any number of turns and programs.
THEOREM AttemptTypeCorrect == Spec => []TypeOK
  <1>1. TypeInv => TypeOK
    BY DEF TypeInv
  <1>2. QED
    BY <1>1, TypeInvariant, PTL

-----------------------------------------------------------------------------
(***************************************************************************)
(* Publication.  The live candidate is the turn's last written one until   *)
(* the turn is judged; whatever an accepted program is said to have        *)
(* produced is its own file or the last accepted one; and the directory of *)
(* the turn that was last accepted, or a later one, holds a candidate.     *)
(***************************************************************************)
Honest(c) == c # NoCandidate => c.success /\ c.code \in accepted

Held(t) == dirs[t].file # NoCandidate /\ dirs[t].producer \in accepted

HeldSinceBackup == \E t \in backup.turn .. Len(dirs) : t \in DOMAIN dirs /\ Held(t)

Judged ==
    /\ pc \notin {"validate", "snapshot", "sanitize", "publish"} => runs = <<>>
    /\ pc = "validate" /\ Writers(runs) # {} =>
         work = CandidateOf(runs, Max(Writers(runs)))
    /\ pc = "snapshot" /\ Producer(runs) \in accepted => Honest(work)
    /\ Honest(backup)

Filed ==
    \A t \in DOMAIN dirs :
        /\ pc # "sanitize" \/ dirs[t].producer \in accepted => Honest(dirs[t].file)
        /\ dirs[t].file # NoCandidate =>
             dirs[t].producer \in accepted \/ (pc = "sanitize" /\ t = Len(dirs))

Preserved ==
    backup # NoCandidate =>
        \/ HeldSinceBackup
        \/ /\ pc = "snapshot" /\ backup.turn = Turn
           /\ work = backup /\ Producer(runs) \in accepted

Shown ==
    /\ pc = "publish" => root = NoCandidate
    /\ pc \notin {"sanitize", "publish"} => root = Newest

PublishInv == Judged /\ Filed /\ Preserved /\ Shown

\* A turn without a writer has no accepted producer.
LEMMA NoWriterNotAccepted ==
    ASSUME TypeOK, Producer(runs) \in accepted
    PROVE  /\ Writers(runs) # {}
           /\ Producer(runs) = runs[Max(Writers(runs))].code
           /\ runs[Max(Writers(runs))].success
  <1>1. accepted \subseteq Programs /\ "nobody" \notin Programs /\ "failed" \notin Programs
    BY ConfigAssumption DEF TypeOK
  <1>2. QED
    BY <1>1 DEF Producer

\* If the last program wrote the candidate, it is the turn's last writer.
LEMMA LastIsLastWriter ==
    ASSUME TypeOK, runs # <<>>, Last(runs).writes
    PROVE  Writers(runs) # {} /\ Max(Writers(runs)) = Len(runs)
  <1>1. runs \in Seq(Execution) /\ Len(runs) \in 1 .. Len(runs)
    BY DEF TypeOK
  <1>2. Len(runs) \in Writers(runs)
    BY <1>1 DEF Writers, Last
  <1>3. Max(Writers(runs)) \in 1 .. Len(runs) /\ Max(Writers(runs)) >= Len(runs)
    BY <1>1, <1>2, LastWriter
  <1>4. QED
    BY <1>1, <1>2, <1>3

\* The newest candidate is honest when all those held are.
LEMMA NewestHonest ==
    ASSUME TypeOK, \A t \in DOMAIN dirs : Honest(dirs[t].file)
    PROVE  Honest(Newest)
  <1>1. dirs \in Seq(TurnDir) /\ DOMAIN dirs = 1 .. Len(dirs)
    BY DEF TypeOK
  <1>2. CASE Holding = {}
    BY <1>1, <1>2, NewestHeld DEF Honest
  <1>3. CASE Holding # {}
    BY <1>1, <1>3, NewestHeld
  <1>4. QED
    BY <1>2, <1>3

\* Nothing is accepted or published at the start.
LEMMA PublishInit == Init => PublishInv
  <1> SUFFICES ASSUME Init PROVE PublishInv
    OBVIOUS
  <1>1. Holding = {} /\ Newest = NoCandidate
    BY DEF Init, Holding, Newest
  <1>2. QED
    BY <1>1 DEF Init, PublishInv, Judged, Filed, Preserved, Shown, Honest

\* A step that leaves the files and the verdicts alone keeps the invariant,
\* as long as it stays outside the judging and the saving of a turn.
LEMMA PublishFrame ==
    ASSUME PublishInv, UNCHANGED <<work, judging, saving, runs>>,
           pc \in {"ask", "answered", "reply", "review"},
           pc' \in {"ask", "answered", "reply", "review", "failed"}
    PROVE  PublishInv'
  <1>1. Newest' = Newest /\ HeldSinceBackup' = HeldSinceBackup
    BY DEF Newest, Holding, HeldSinceBackup, Held, judging, saving
  <1>2. QED
    BY <1>1 DEF PublishInv, Judged, Filed, Preserved, Shown, Honest, judging, saving

\* Judging leaves the files alone.
LEMMA PublishJudging ==
    ASSUME PublishInv, pc = "validate", pc' = "snapshot",
           UNCHANGED <<saving, backup, accepted, runs>>,
           Producer(runs) \in accepted => Honest(work')
    PROVE  PublishInv'
  <1>1. Newest' = Newest /\ HeldSinceBackup' = HeldSinceBackup
    BY DEF Newest, Holding, HeldSinceBackup, Held, saving
  <1>2. Producer(runs)' = Producer(runs)
    BY DEF Producer, Writers
  <1>3. QED
    BY <1>1, <1>2 DEF PublishInv, Judged, Filed, Preserved, Shown, Honest, saving

\* Every step keeps the publication invariant.
LEMMA PublishStep == TypeInv /\ PublishInv /\ [Next]_vars => PublishInv'
  <1> SUFFICES ASSUME TypeInv, PublishInv, [Next]_vars PROVE PublishInv'
    OBVIOUS
  <1>0. TypeOK /\ Counted
    BY DEF TypeInv
  <1>1. CASE AskInspected \/ Answered \/ ReplyDone
    BY <1>1, PublishFrame DEF AskInspected, Answered, Stop, ReplyDone
  <1>2. CASE \E estimate \in Estimates : AskExhausted(estimate)
    BY <1>2, PublishFrame DEF AskExhausted, Stop
  <1>3. CASE \E estimate \in Estimates, miscount \in Drifts, overrun \in Overruns :
               Ask(estimate, miscount, overrun)
    BY <1>3, PublishFrame DEF Ask
  <1>4. CASE ReplyPlan
    <2>1. runs = <<>> /\ UNCHANGED <<work, judging, saving, runs>>
          /\ pc = "reply" /\ pc' = "validate"
      BY <1>4 DEF ReplyPlan, PublishInv, Judged
    <2>2. Writers(runs') = {}
      BY <2>1 DEF Writers
    <2>3. Newest' = Newest /\ HeldSinceBackup' = HeldSinceBackup
      BY <2>1 DEF Newest, Holding, HeldSinceBackup, Held, judging, saving
    <2>4. QED
      BY <2>1, <2>2, <2>3
      DEF PublishInv, Judged, Filed, Preserved, Shown, Honest, judging, saving
  <1>5. CASE ReplyPrograms
    <2>1. UNCHANGED <<judging, saving>> /\ pc = "reply" /\ pc' = "validate"
          /\ work' = Live(runs')
      BY <1>5 DEF ReplyPrograms
    <2>2. Turn' = Turn
      BY <2>1 DEF Turn, saving
    <2>3. Writers(runs') # {} => work' = CandidateOf(runs, Max(Writers(runs)))'
      BY <2>1, <2>2 DEF Live, CandidateOf
    <2>4. Newest' = Newest /\ HeldSinceBackup' = HeldSinceBackup
      BY <2>1 DEF Newest, Holding, HeldSinceBackup, Held, judging, saving
    <2>5. QED
      BY <2>1, <2>3, <2>4
      DEF PublishInv, Judged, Filed, Preserved, Shown, Honest, judging, saving
  <1>6. CASE Review
    <2>1. runs = <<>> /\ UNCHANGED <<work, judging, saving, runs>>
          /\ pc = "review" /\ pc' = "snapshot"
      BY <1>6 DEF Review, PublishInv, Judged
    <2>2. Producer(runs') \notin accepted'
      <3>1. Writers(runs) = {}
        BY <2>1 DEF Writers
      <3>2. Producer(runs) \notin accepted
        BY <1>0, <3>1, NoWriterNotAccepted
      <3>3. QED
        BY <2>1, <3>2 DEF judging
    <2>3. Newest' = Newest /\ HeldSinceBackup' = HeldSinceBackup
      BY <2>1 DEF Newest, Holding, HeldSinceBackup, Held, judging, saving
    <2>4. QED
      BY <2>1, <2>2, <2>3
      DEF PublishInv, Judged, Filed, Preserved, Shown, Honest, judging, saving
  <1>7. CASE ValidateNothing \/ ValidateInspection
    <2>1. /\ pc = "validate" /\ pc' = "snapshot"
          /\ UNCHANGED <<work, saving, backup, accepted, runs>>
      BY <1>7 DEF ValidateNothing, ValidateInspection
    <2>2. Producer(runs) \in accepted => Honest(work)
      BY <1>0, <2>1, NoWriterNotAccepted
      DEF PublishInv, Judged, CandidateOf, Honest
    <2>3. QED
      BY <2>1, <2>2, PublishJudging
  <1>8. CASE Reject
    <2>1. /\ pc = "validate" /\ pc' = "snapshot" /\ work' = backup
          /\ UNCHANGED <<saving, backup, accepted, runs>>
      BY <1>8 DEF Reject
    <2>2. Honest(work')
      BY <2>1 DEF PublishInv, Judged
    <2>3. QED
      BY <2>1, <2>2, PublishJudging
  <1>9. CASE Accept
    <2>1. /\ pc = "validate" /\ pc' = "snapshot" /\ backup' = work
          /\ accepted' = accepted \cup {Last(runs).code}
          /\ runs # <<>> /\ Last(runs).writes /\ Last(runs).success
          /\ UNCHANGED <<saving, work, runs>>
      BY <1>9 DEF Accept
    <2>2. Writers(runs) # {} /\ Max(Writers(runs)) = Len(runs)
      BY <1>0, <2>1, LastIsLastWriter
    <2>3. /\ work.turn = Turn /\ work.code = Last(runs).code /\ work.success
      BY <2>1, <2>2 DEF PublishInv, Judged, CandidateOf, Last
    <2>4. Producer(runs') \in accepted' /\ Turn' = Turn
      BY <2>1, <2>2 DEF Producer, Writers, Last, Turn, saving
    <2>5. \A c : Honest(c) => Honest(c)'
      BY <2>1 DEF Honest
    <2>6. Honest(work)' /\ Honest(backup)'
      BY <2>1, <2>3 DEF Honest
    <2>7. Judged'
      BY <2>1, <2>6 DEF Judged
    <2>8. Filed'
      BY <2>1 DEF PublishInv, Filed, saving, Honest
    <2>9. Preserved'
      BY <2>1, <2>3, <2>4 DEF Preserved
    <2>10. Newest' = Newest
      BY <2>1 DEF Newest, Holding, saving
    <2>11. Shown'
      BY <2>1, <2>10 DEF PublishInv, Shown, saving
    <2>12. QED
      BY <2>7, <2>8, <2>9, <2>11 DEF PublishInv
  <1>10. CASE Snapshot
    <2> DEFINE dir == [file |-> work, producer |-> Producer(runs)]
    <2>1. /\ pc = "snapshot" /\ pc' = "sanitize" /\ dirs' = Append(dirs, dir)
          /\ UNCHANGED <<backup, accepted>>
      BY <1>10 DEF Snapshot, judging
    <2>2. /\ Len(dirs') = Len(dirs) + 1 /\ Len(dirs) \in Nat
          /\ DOMAIN dirs = 1 .. Len(dirs) /\ DOMAIN dirs' = 1 .. Len(dirs')
          /\ \A t \in DOMAIN dirs : dirs'[t] = dirs[t]
          /\ dirs'[Len(dirs')] = dir
      BY <1>0, <2>1 DEF TypeOK
    <2>3. Filed'
      <3> SUFFICES ASSUME NEW t \in DOMAIN dirs'
                   PROVE  /\ dirs'[t].producer \in accepted' => Honest(dirs[t].file)'
                          /\ dirs'[t].file # NoCandidate =>
                               dirs'[t].producer \in accepted' \/ t = Len(dirs')
        BY <2>1 DEF Filed
      <3>1. CASE t \in DOMAIN dirs
        BY <2>1, <2>2, <3>1 DEF PublishInv, Filed, Honest
      <3>2. CASE t = Len(dirs')
        BY <2>1, <2>2, <3>2 DEF PublishInv, Judged, Honest
      <3>3. QED
        BY <2>2, <3>1, <3>2
    <2>4. Preserved'
      <3> SUFFICES ASSUME backup # NoCandidate PROVE HeldSinceBackup'
        BY <2>1 DEF Preserved
      <3>1. backup.turn \in Nat
        BY <1>0 DEF TypeOK, MaybeCandidate, Candidate, NoCandidate
      <3>2. CASE HeldSinceBackup
        <4>1. PICK t \in backup.turn .. Len(dirs) : t \in DOMAIN dirs /\ Held(t)
          BY <3>2 DEF HeldSinceBackup
        <4>2. t \in backup'.turn .. Len(dirs') /\ t \in DOMAIN dirs' /\ Held(t)'
          BY <2>1, <2>2, <3>1, <4>1 DEF Held
        <4>3. QED
          BY <4>2 DEF HeldSinceBackup
      <3>3. CASE backup.turn = Turn /\ work = backup /\ Producer(runs) \in accepted
        <4>1. PICK t \in Nat : t = Len(dirs')
          BY <2>2
        <4>2. Held(t)'
          BY <2>1, <2>2, <3>3, <4>1 DEF Held
        <4>3. t \in backup'.turn .. Len(dirs') /\ t \in DOMAIN dirs'
          BY <2>1, <2>2, <3>1, <3>3, <4>1 DEF Turn
        <4>4. QED
          BY <4>2, <4>3 DEF HeldSinceBackup
      <3>4. QED
        BY <3>2, <3>3 DEF PublishInv, Preserved
    <2>5. Judged' /\ Shown'
      BY <2>1 DEF PublishInv, Judged, Shown, Honest
    <2>6. QED
      BY <2>3, <2>4, <2>5 DEF PublishInv
  <1>11. CASE Sanitize
    <2>1. /\ pc = "sanitize" /\ pc' = "publish" /\ root' = NoCandidate
          /\ dirs' = [t \in DOMAIN dirs |-> Sanitized(dirs[t])]
          /\ UNCHANGED <<backup, accepted>>
      BY <1>11 DEF Sanitize, judging
    <2>2. /\ DOMAIN dirs' = DOMAIN dirs /\ Len(dirs') = Len(dirs)
          /\ \A t \in DOMAIN dirs : dirs[t] \in TurnDir
      BY <1>0, <2>1 DEF TypeOK
    <2>3. ASSUME NEW t \in DOMAIN dirs
          PROVE  IF dirs[t].producer \in accepted THEN dirs'[t] = dirs[t]
                 ELSE dirs'[t].file = NoCandidate
      BY <2>1, <2>2 DEF Sanitized, TurnDir
    <2>4. Filed'
      BY <2>1, <2>2, <2>3 DEF PublishInv, Filed, Honest
    <2>5. Preserved'
      <3> SUFFICES ASSUME backup # NoCandidate PROVE HeldSinceBackup'
        BY <2>1 DEF Preserved
      <3>1. PICK t \in backup.turn .. Len(dirs) : t \in DOMAIN dirs /\ Held(t)
        BY <2>1 DEF PublishInv, Preserved, HeldSinceBackup
      <3>2. Held(t)'
        BY <2>1, <2>3, <3>1 DEF Held
      <3>3. QED
        BY <2>1, <2>2, <3>1, <3>2 DEF HeldSinceBackup
    <2>6. Judged' /\ Shown'
      BY <2>1 DEF PublishInv, Judged, Shown, Honest
    <2>7. QED
      BY <2>4, <2>5, <2>6 DEF PublishInv
  <1>12. CASE Publish
    <2>1. /\ pc = "publish" /\ pc' \in {"ask", "ended"} /\ root' = Newest /\ runs' = <<>>
          /\ UNCHANGED <<work, judging, dirs>>
      BY <1>12 DEF Publish
    <2>2. Newest' = Newest /\ HeldSinceBackup' = HeldSinceBackup
      BY <2>1 DEF Newest, Holding, HeldSinceBackup, Held, judging
    <2>3. QED
      BY <2>1, <2>2 DEF PublishInv, Judged, Filed, Preserved, Shown, Honest, judging
  <1>13. CASE UNCHANGED vars
    <2>1. Newest' = Newest /\ HeldSinceBackup' = HeldSinceBackup
      BY <1>13 DEF vars, Newest, Holding, HeldSinceBackup, Held, judging, saving
    <2>2. Producer(runs)' = Producer(runs) /\ Turn' = Turn
      BY <1>13 DEF vars, saving, Producer, Writers, Turn
    <2>3. QED
      BY <1>13, <2>1, <2>2 DEF vars, PublishInv, Judged, Filed, Preserved, Shown,
         Honest, judging, saving, Writers, CandidateOf
  <1>14. QED
    BY <1>1, <1>2, <1>3, <1>4, <1>5, <1>6, <1>7, <1>8, <1>9, <1>10, <1>11,
       <1>12, <1>13 DEF Next

\* It holds throughout an attempt.
LEMMA PublishInvariant == Spec => [](TypeInv /\ PublishInv)
  BY TypeInvariant, PublishInit, PublishStep, PTL DEF Spec

\* The published candidate was written by a program that succeeded and whose
\* code has been accepted, whatever was left in the work directory.
THEOREM OnlyAcceptedIsPublished == Spec => []PublishedIsAccepted
  <1>1. TypeInv /\ PublishInv => PublishedIsAccepted
    <2> SUFFICES ASSUME TypeInv, PublishInv, pc # "sanitize", root # NoCandidate
                 PROVE  root.success /\ root.code \in accepted
      BY DEF PublishedIsAccepted
    <2>1. root = Newest
      BY DEF PublishInv, Shown
    <2>2. Honest(Newest)
      BY NewestHonest DEF TypeInv, PublishInv, Filed
    <2>3. QED
      BY <2>1, <2>2 DEF Honest
  <1>2. QED
    BY <1>1, PublishInvariant, PTL

\* An accepted candidate stays published until a later turn's replaces it.
THEOREM AcceptedStaysPublished == Spec => []LatestAcceptedWins
  <1>1. TypeInv /\ PublishInv => LatestAcceptedWins
    <2> SUFFICES ASSUME TypeInv, PublishInv, backup # NoCandidate,
                        pc \notin {"snapshot", "sanitize", "publish"}
                 PROVE  \E t \in backup.turn .. Len(dirs) :
                          root # NoCandidate /\ dirs[t].file = root
      BY DEF LatestAcceptedWins
    <2>1. PICK t \in backup.turn .. Len(dirs) : t \in DOMAIN dirs /\ Held(t)
      BY DEF PublishInv, Preserved, HeldSinceBackup
    <2>2. t \in Holding /\ Holding # {}
      BY <2>1 DEF Held, Holding
    <2> DEFINE newest == Max(Holding)
    <2>3. /\ newest \in 1 .. Len(dirs) /\ newest >= t
          /\ Newest = dirs[newest].file /\ Newest # NoCandidate
      BY <2>2, NewestHeld DEF TypeInv, TypeOK
    <2>4. backup.turn \in Nat
      BY DEF TypeInv, TypeOK, MaybeCandidate, Candidate, NoCandidate
    <2>5. root = Newest
      BY DEF PublishInv, Shown
    <2> HIDE DEF newest
    <2>6. newest \in backup.turn .. Len(dirs)
      BY <2>1, <2>3, <2>4
    <2>7. QED
      BY <2>3, <2>5, <2>6
  <1>2. QED
    BY <1>1, PublishInvariant, PTL
=============================================================================

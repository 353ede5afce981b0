------------------------------ MODULE AuditTrail ------------------------------
(***************************************************************************)
(* The audit trail of one task, as far as the program reads it back: how   *)
(* often in a row the coder was sent back, the review was unclear, the     *)
(* same contract was broken or a commit had to be recovered, what was      *)
(* submitted last, and how often the periodic repair revived the task      *)
(* since it last made progress.  Each of these is a scan of the trail from *)
(* its end (the scans below).  Note keeps all of them up to date one row   *)
(* at a time, so that a specification need not keep the trail;             *)
(* SummaryIsExact says that both agree.                                    *)
(***************************************************************************)
EXTENDS Integers, Sequences, FiniteSetsExt

CONSTANTS
    MaxRetries,    \* MAX_CONSECUTIVE_CODER_RETRIES
    MaxUnclear,    \* MAX_ORCHESTRATOR_PARSE_RETRIES
    MaxContract,   \* MAX_CONTRACT_VIOLATION_RETRIES
    MaxRecovery,   \* COMMIT_RECOVERY_MAX_ATTEMPTS
    MaxRevivals,   \* MAX_S4_RECOVERIES
    NoSha          \* a row without a commit

Contracts == {"checklist", "rejection_response"}

(***************************************************************************)
(* What a row says: its tag stands for the marker its note starts with or  *)
(* contains.  "decision" is the category of the rows that only log a       *)
(* decision.  A broken contract is noted as a retry with the contract's    *)
(* name; the row that fails the task names the contract as well, but it is *)
(* neither a retry nor a decision.                                         *)
(***************************************************************************)
Tags == {"plain", "decision", "retry", "retry_decision", "unclear",
         "recovery", "noop", "revival"} \union Contracts

Retries   == {"retry", "retry_decision"} \union Contracts
Decisions == {"decision", "retry_decision", "unclear"} \union Contracts

Row(from, to, actor, tag, sha) ==
    [from |-> from, to |-> to, actor |-> actor, tag |-> tag, sha |-> sha]

ByOrchestrator(row) == row.actor = "orchestrator"
RetryRow(row)       == ByOrchestrator(row) /\ row.tag \in Retries /\ row.to # "failed"
DecisionRow(row)    == row.tag \in Decisions /\ row.to # "failed"
NewAttempt(row)     == row.from = "pending" /\ row.to = "in_progress"
Progress(row)       == row.to \in {"in_progress", "review", "merge_pending"}
ToReview(row)       == row.to = "review"
RejectionRow(row)   == row.from = "review" /\ row.to = "in_progress"

-------------------------------------------------------------------------------
(***************************************************************************)
(* The scans.  Each walks the trail from its end, counts a row it looks    *)
(* for, passes over a row it tolerates and stops at any other.             *)
(***************************************************************************)
LastWhere(trail, P(_)) == Max({0} \union {i \in DOMAIN trail : P(trail[i])})

CountBack(trail, Counted(_), Passed(_)) ==
    LET stop == LastWhere(trail, LAMBDA row : ~ Counted(row) /\ ~ Passed(row))
    IN  Cardinality({i \in DOMAIN trail : i > stop /\ Counted(trail[i])})

Nothing(row) == FALSE

countConsecutiveRetryEntries(trail) ==
    CountBack(trail, RetryRow, Nothing)

countConsecutiveUnclearEntries(trail) ==
    CountBack(trail, LAMBDA row : ByOrchestrator(row) /\ row.tag = "unclear", Nothing)

countConsecutiveTaggedOrchestratorEntries(trail, contract) ==
    CountBack(trail, LAMBDA row : ByOrchestrator(row) /\ row.tag = contract,
                     LAMBDA row : ~ ByOrchestrator(row))

countCommitRecoveryAttempts(trail) ==
    CountBack(trail, LAMBDA row : ByOrchestrator(row) /\ row.tag = "recovery",
                     LAMBDA row : \/ ~ ByOrchestrator(row)
                                  \/ DecisionRow(row)
                                  \/ ToReview(row))

revivalsSinceProgress(trail) ==
    CountBack(trail, LAMBDA row : row.tag = "revival" /\ ~ Progress(row),
                     LAMBDA row : ~ Progress(row))

(***************************************************************************)
(* The submissions of the current attempt, oldest first, and what kind of  *)
(* row the newest one that leads to a review is: a submission, the         *)
(* submission of no change (which isNoOp looks for) or any other.          *)
(***************************************************************************)
getSubmissionCommitShas(trail) ==
    LET start == LastWhere(trail, NewAttempt)
    IN  SelectSeq(SubSeq(trail, start + 1, Len(trail)),
                  LAMBDA row : ToReview(row) /\ row.sha # NoSha)

Kind(row) == IF row.sha = NoSha THEN "other"
             ELSE IF row.tag = "noop" THEN "noop" ELSE "submission"

latestReview(trail) ==
    LET last == LastWhere(trail, ToReview)
    IN  IF last > LastWhere(trail, NewAttempt) THEN Kind(trail[last]) ELSE "other"

requiresExplicitSubmissionCommit(trail) ==
    LET last == LastWhere(trail, RejectionRow)
    IN  last > 0 /\ trail[last].tag = "recovery"

-------------------------------------------------------------------------------
(***************************************************************************)
(* The same, one row at a time.  A count is kept up to the cap that it is  *)
(* compared with.                                                          *)
(***************************************************************************)
AtMost(cap, n) == IF n < cap THEN n ELSE cap

EmptySummary ==
    [retries   |-> 0, unclear |-> 0, recovery |-> 0, revivals |-> 0,
     contracts |-> [c \in Contracts |-> 0],
     latest    |-> NoSha, several |-> FALSE, newest |-> "other", explicit |-> FALSE]

Note(sum, row) ==
    [retries   |-> IF RetryRow(row)
                   THEN AtMost(MaxRetries, sum.retries + 1) ELSE 0,
     unclear   |-> IF ByOrchestrator(row) /\ row.tag = "unclear"
                   THEN AtMost(MaxUnclear, sum.unclear + 1) ELSE 0,
     recovery  |-> IF ByOrchestrator(row) /\ row.tag = "recovery"
                   THEN AtMost(MaxRecovery, sum.recovery + 1)
                   ELSE IF ~ ByOrchestrator(row) \/ DecisionRow(row) \/ ToReview(row)
                   THEN sum.recovery ELSE 0,
     revivals  |-> IF Progress(row) THEN 0
                   ELSE IF row.tag = "revival" THEN AtMost(MaxRevivals, sum.revivals + 1)
                   ELSE sum.revivals,
     contracts |-> [c \in Contracts |->
                      IF ~ ByOrchestrator(row) THEN sum.contracts[c]
                      ELSE IF row.tag = c THEN AtMost(MaxContract, sum.contracts[c] + 1)
                      ELSE 0],
     latest    |-> IF NewAttempt(row) THEN NoSha
                   ELSE IF ToReview(row) /\ row.sha # NoSha THEN row.sha
                   ELSE sum.latest,
     several   |-> IF NewAttempt(row) THEN FALSE
                   ELSE \/ sum.several
                        \/ /\ ToReview(row)
                           /\ NoSha \notin {row.sha, sum.latest}
                           /\ row.sha # sum.latest,
     newest    |-> IF NewAttempt(row) THEN "other"
                   ELSE IF ToReview(row) THEN Kind(row)
                   ELSE sum.newest,
     explicit  |-> IF RejectionRow(row) THEN row.tag = "recovery" ELSE sum.explicit]

Summary(shas) ==
    [retries : 0..MaxRetries, unclear : 0..MaxUnclear, recovery : 0..MaxRecovery,
     revivals : 0..MaxRevivals, contracts : [Contracts -> 0..MaxContract],
     latest : shas \union {NoSha}, several : BOOLEAN,
     newest : {"submission", "noop", "other"}, explicit : BOOLEAN]

-------------------------------------------------------------------------------
(***************************************************************************)
(* What the scans say of a trail.                                          *)
(***************************************************************************)
Scanned(trail) ==
    LET shas == getSubmissionCommitShas(trail)
    IN  [retries   |-> AtMost(MaxRetries, countConsecutiveRetryEntries(trail)),
         unclear   |-> AtMost(MaxUnclear, countConsecutiveUnclearEntries(trail)),
         recovery  |-> AtMost(MaxRecovery, countCommitRecoveryAttempts(trail)),
         revivals  |-> AtMost(MaxRevivals, revivalsSinceProgress(trail)),
         contracts |-> [c \in Contracts |->
                          AtMost(MaxContract, countConsecutiveTaggedOrchestratorEntries(trail, c))],
         latest    |-> IF shas = << >> THEN NoSha ELSE shas[Len(shas)].sha,
         several   |-> \E i, j \in DOMAIN shas : shas[i].sha # shas[j].sha,
         newest    |-> latestReview(trail),
         explicit  |-> requiresExplicitSubmissionCommit(trail)]

(***************************************************************************)
(* Adding a row to the summary of a trail gives the summary of the longer  *)
(* trail, for all trails of at most n of the given rows.                   *)
(***************************************************************************)
SummaryIsExact(rows, n) ==
    /\ Scanned(<< >>) = EmptySummary
    /\ \A k \in 0..(n - 1) : \A trail \in [1..k -> rows] : \A row \in rows :
          Scanned(Append(trail, row)) = Note(Scanned(trail), row)
===============================================================================

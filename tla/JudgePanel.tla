----------------------------- MODULE JudgePanel -----------------------------
(***************************************************************************)
(* One sample before an ensemble of judges.                                *)
(*                                                                         *)
(*   judges/panel.py       every judge in turn, then one consensus         *)
(*   judges/reflection.py  asking again while a reply cannot be read       *)
(*   agents/sdk.py         the bounds of that loop                         *)
(*   judges/consensus.py   agreement, or escalation to a person            *)
(*   judges/repository.py  the rows, and the review of an escalation       *)
(*                                                                         *)
(* A reply is what run_judge makes of it: a score, an abstention, a        *)
(* provider's failure or a late answer, or a text it could not read.  The  *)
(* rows are written in the sample's transaction (RunExecution).            *)
(***************************************************************************)
EXTENDS Integers, Sequences, FiniteSets, SequencesExt, OrderStatistics

CONSTANTS NumJudges,       \* seats of the ensemble
          JudgeScores,     \* scores, in hundredths
          Texts,           \* texts that cannot be read
          ReplyCost,       \* what an answered call costs
          MaxIterations, RegenerationBudget,      \* Bounds
          Thresholds,      \* agreement_threshold, or NotSet
          Minimums,        \* minimum_scoring_votes, or NotSet
          NotSet,
          Reviewers,       \* requests to review the escalation
          Nobody

ASSUME JudgePanelAssumption ==
    /\ NumJudges \in Nat /\ JudgeScores \subseteq 0 .. 100
    /\ ReplyCost \in Nat
    /\ MaxIterations \in Nat /\ RegenerationBudget \in Nat
    /\ Thresholds \subseteq Nat \cup {NotSet}
    /\ Minimums \subseteq Nat \cup {NotSet}
    /\ Nobody \notin Reviewers

VARIABLES threshold, minimum,   \* the ensemble's parameters
          asking,               \* what the panel is doing
          replies,              \* replies of the judge in hand, in order
          lapses,               \* attempts for it that raised
          votes,                \* votes recorded so far
          answers,              \* history: the first reply each could be read
          consensus,            \* the result
          escalation,           \* its row, as committed
          reviewing             \* per request: what it is doing

samplePart ==
    <<threshold, minimum, asking, replies, lapses, votes, answers, consensus>>
panelVars == <<samplePart, escalation, reviewing>>

Scored(v) == [resolution |-> "scored", score |-> v, cost |-> ReplyCost]
Silent(resolution, cost) == [resolution |-> resolution, cost |-> cost]
Unreadable(text) ==
    [resolution |-> "unreadable", text |-> text, cost |-> ReplyCost]

(* parse_reply and run_judge; a failure or a late answer has no cost.      *)
Replies ==
    {Scored(v) : v \in JudgeScores} \cup {Unreadable(t) : t \in Texts}
      \cup {Silent("abstained", ReplyCost), Silent("failed", 0),
            Silent("timed_out", 0)}

AcceptHighScores(r) ==                            \* mutant of IsReadable
    r.resolution # "unreadable" /\ (r.resolution = "scored" => r.score > 0)

IsReadable(r) == r.resolution # "unreadable"

(* The attempts of the loop that proposed a reply: the first reply was     *)
(* asked for before it.                                                    *)
Attempts == Tail(replies)

AddCost(sum, r) == r.cost + sum
SpentOnAttempts == FoldLeft(AddCost, 0, Attempts)

(* The seats whose judge scored.                                           *)
ScoringVotes == {i \in DOMAIN votes : votes[i].resolution = "scored"}

ScoreOf == [i \in ScoringVotes |-> votes[i].score]

(* I-22: unmeasured disagreement is reported at its maximum.               *)
Disagreement ==
    IF Cardinality(ScoringVotes) < 2 THEN 100
    ELSE Max(Range(ScoreOf)) - Min(Range(ScoreOf))

(* Twice the median, an integer where two votes straddle it; the rounding  *)
(* to the resolution of the consensus is left out.                         *)
TwiceMedian ==
    LET n == Cardinality(ScoringVotes)
    IN Ranked(ScoreOf, ScoringVotes, (n + 1) \div 2)
         + Ranked(ScoreOf, ScoringVotes, (n + 2) \div 2)

Pending == [state |-> "pending"]

Escalated(reason) == [state |-> "escalated", reason |-> reason]

(* reach_consensus: never a retry.                                         *)
ReachConsensus ==
    LET n == Cardinality(ScoringVotes) IN
    IF n < 2 \/ (minimum # NotSet /\ n < minimum)
    THEN Escalated("insufficient_scoring_votes")
    ELSE IF threshold = NotSet THEN Escalated("no_threshold_configured")
    ELSE IF Disagreement > threshold
    THEN Escalated("disagreement_above_threshold")
    ELSE [state |-> "agreed", twiceVerdict |-> TwiceMedian,
          confidence |-> 100 - Disagreement]

-----------------------------------------------------------------------------
PanelInit ==
    /\ threshold \in Thresholds /\ minimum \in Minimums
    /\ asking = "first" /\ replies = <<>> /\ lapses = 0
    /\ votes = <<>> /\ answers = <<>>
    /\ consensus = Pending
    /\ escalation = [state |-> "none", reviewedBy |-> Nobody]
    /\ reviewing = [r \in Reviewers |-> "idle"]

Heard(r) ==
    /\ replies' = Append(replies, r)
    /\ answers' = IF r.resolution # "unreadable" /\ Len(answers) = Len(votes)
                  THEN Append(answers, r) ELSE answers
    /\ UNCHANGED <<threshold, minimum, lapses, votes, consensus, escalation,
                   reviewing>>

(* run_judge; only an unreadable reply is asked for again.                 *)
Ask ==
    /\ asking = "first" /\ Len(votes) < NumJudges
    /\ \E r \in Replies :
         /\ Heard(r)
         /\ asking' = IF IsReadable(r) THEN "record" ELSE "again"

(* An iteration of run_bounded, within its bounds.  A reply that repeats   *)
(* the one proposed before it ends the loop.                               *)
WithinBounds ==
    /\ Len(Attempts) + lapses < MaxIterations
    /\ SpentOnAttempts < RegenerationBudget

AskAgain ==
    /\ asking = "again" /\ WithinBounds
    /\ \E r \in Replies :
         /\ Heard(r)
         /\ asking' = IF IsReadable(r) \/ (Attempts # <<>> /\ r = Last(Attempts))
                      THEN "record" ELSE "again"

(* An iteration that raises costs nothing and is counted.                  *)
AttemptRaises ==
    /\ asking = "again" /\ WithinBounds
    /\ lapses' = lapses + 1
    /\ UNCHANGED <<threshold, minimum, asking, replies, votes, answers,
                   consensus, escalation, reviewing>>

(* A bound is reached, or the deadline passes.                             *)
GiveUp ==
    /\ asking = "again" /\ asking' = "record"
    /\ UNCHANGED <<threshold, minimum, replies, lapses, votes, answers,
                   consensus, escalation, reviewing>>

KeepFirst == Head(replies)                        \* mutant of RecordedVote

(* The accepted reply; when the loop found none, the one it began with.    *)
RecordedVote ==
    IF IsReadable(Last(replies)) THEN Last(replies) ELSE Head(replies)

(* record_judgement.  A judge that never answered leaves no answer.        *)
Record ==
    /\ asking = "record"
    /\ votes' = Append(votes, RecordedVote)
    /\ answers' = IF Len(answers) = Len(votes)
                  THEN Append(answers, Head(replies)) ELSE answers
    /\ replies' = <<>> /\ lapses' = 0 /\ asking' = "first"
    /\ UNCHANGED <<threshold, minimum, consensus, escalation, reviewing>>

(* record_consensus: the verdict and, when it escalated, the row a person  *)
(* will act on.                                                            *)
Conclude ==
    /\ asking = "first" /\ Len(votes) = NumJudges
    /\ consensus' = ReachConsensus /\ asking' = "done"
    /\ escalation' = IF ReachConsensus.state = "escalated"
                     THEN [escalation EXCEPT !.state = "open"] ELSE escalation
    /\ UNCHANGED <<threshold, minimum, replies, lapses, votes, answers,
                   reviewing>>

-----------------------------------------------------------------------------
Step(r, phase) == reviewing' = [reviewing EXCEPT ![r] = phase]

(* review_escalation reads the row without a lock.                         *)
ReadEscalation(r) ==
    /\ reviewing[r] = "idle" /\ escalation.state # "none"
    /\ Step(r, IF escalation.state = "reviewed" THEN "refused" ELSE "write")
    /\ UNCHANGED <<samplePart, escalation>>

ReviewAgain == FALSE                              \* mutant of ReviewedAlready

(* trg_escalation__reviewed_once, on the row as it is once locked.         *)
ReviewedAlready == escalation.state = "reviewed"

WriteReview(r) ==
    /\ reviewing[r] = "write" /\ \A o \in Reviewers : reviewing[o] # "commit"
    /\ Step(r, IF ReviewedAlready THEN "refused" ELSE "commit")
    /\ UNCHANGED <<samplePart, escalation>>

CommitReview(r) ==
    /\ reviewing[r] = "commit"
    /\ escalation' = [state |-> "reviewed", reviewedBy |-> r]
    /\ Step(r, "done")
    /\ UNCHANGED samplePart

(* The request is lost before its commit.                                  *)
LoseReview(r) ==
    /\ reviewing[r] \in {"write", "commit"}
    /\ Step(r, "lost")
    /\ UNCHANGED <<samplePart, escalation>>

ReviewNext ==
    \E r \in Reviewers :
        ReadEscalation(r) \/ WriteReview(r) \/ CommitReview(r) \/ LoseReview(r)

PanelNext ==
    Ask \/ AskAgain \/ AttemptRaises \/ GiveUp \/ Record \/ Conclude \/ ReviewNext

PanelSpec == PanelInit /\ [][PanelNext]_panelVars

-----------------------------------------------------------------------------
(* A judge that answered is not asked again, whatever it answered, and the *)
(* calls spent on one that did not are bounded: the last may overshoot the *)
(* budget, no other (ADR-004 D-4: "retrying until judges agree             *)
(* manufactures consensus").                                               *)
AskingIsBounded ==
    /\ \A i \in 1 .. Len(replies) - 1 : replies[i].resolution = "unreadable"
    /\ replies # <<>> =>
         /\ Len(Attempts) + lapses <= MaxIterations
         /\ Attempts # <<>> =>
              SpentOnAttempts - Last(Attempts).cost < RegenerationBudget

FirstScores == {i \in 1 .. Len(answers) : answers[i].resolution = "scored"}

(* An agreement is one of the first answers: at least two judges, and the  *)
(* configured minimum, scored when first heard; no two of them are further *)
(* apart than the threshold; and the verdict divides them evenly.  A judge *)
(* that did not answer never adds to it (I-22, REQ-X-8, ADR-017).          *)
AgreementIsOfFirstAnswers ==
    consensus.state = "agreed" =>
      /\ Cardinality(FirstScores) >= 2
      /\ minimum # NotSet => Cardinality(FirstScores) >= minimum
      /\ \A i, j \in FirstScores : answers[i].score - answers[j].score <= threshold
      /\ LET Side(Beyond(_)) == Cardinality({i \in FirstScores : Beyond(i)})
         IN /\ 2 * Side(LAMBDA i : 2 * answers[i].score > consensus.twiceVerdict)
                 <= Cardinality(FirstScores)
            /\ 2 * Side(LAMBDA i : 2 * answers[i].score < consensus.twiceVerdict)
                 <= Cardinality(FirstScores)

(* A disagreement reaches a person, once: nothing but an escalated verdict *)
(* opens a review, and every review that was answered is the one on record *)
(* (I-24: "a second review would be a retry wearing a form").              *)
ReviewedOnce ==
    /\ escalation.state # "none" <=> consensus.state = "escalated"
    /\ \A r \in Reviewers : reviewing[r] = "done" <=> escalation.reviewedBy = r

(* What a judged sample rests on.                                          *)
PanelIsHonest == AskingIsBounded /\ AgreementIsOfFirstAnswers /\ ReviewedOnce
=============================================================================

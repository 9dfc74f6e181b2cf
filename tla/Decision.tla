-------------------------------- MODULE Decision -------------------------------
(***************************************************************************)
(* What an approval promises to whoever waits for it: an open question is  *)
(* decided once and for good, for a reason, and nothing is recorded in it  *)
(* afterwards.  ApprovalWorkflow implements it.                            *)
(***************************************************************************)
CONSTANT Questions

VARIABLES outcome,            \* "none", "open", or what was decided
          votes               \* the votes recorded, a set of {"yes", "no"}

Init ==
  /\ outcome = [q \in Questions |-> "none"]
  /\ votes = [q \in Questions |-> {}]

Ask(q) ==
  /\ outcome[q] = "none"
  /\ outcome' = [outcome EXCEPT ![q] = "open"]
  /\ UNCHANGED votes

\* A vote decides at once: no question has heard two opposite votes.
Vote(q) ==
  /\ outcome[q] = "open" /\ votes[q] = {}
  /\ \/ /\ outcome' = [outcome EXCEPT ![q] = "yes"]
        /\ votes' = [votes EXCEPT ![q] = {"yes"}]
     \/ /\ outcome' = [outcome EXCEPT ![q] = "no"]
        /\ votes' = [votes EXCEPT ![q] = {"no"}]

\* Questions that nobody has answered in time are decided without a vote.
Lapse ==
  \E late \in SUBSET {q \in Questions : outcome[q] = "open" /\ votes[q] = {}} :
    \E as \in [late -> {"yes", "expired"}] :
      /\ late # {}
      /\ outcome' = [q \in Questions |-> IF q \in late THEN as[q] ELSE outcome[q]]
      /\ UNCHANGED votes

Next == Lapse \/ \E q \in Questions : Ask(q) \/ Vote(q)

Spec == Init /\ [][Next]_<<outcome, votes>>
================================================================================

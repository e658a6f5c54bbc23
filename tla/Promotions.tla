------------------------------ MODULE Promotions ------------------------------
(***************************************************************************)
(* The promotion of builds to an environment, with approvals               *)
(* (core/environment_service.py, api/routes/environment.py).               *)
(*                                                                         *)
(* Every request has a session of its own, and takes no lock: a call       *)
(* reads, decides on what it read, deploys (an await), and commits         *)
(* everything at the end.  The deployment is simulated in the code; what   *)
(* is modelled is that it happens, and when.  The permission check is      *)
(* taken as passed.  The audit event after the commit raises, so a caller  *)
(* sees an error although the promotion exists, and may well call again.   *)
(* Whether a query first flushes what the session holds is up to the       *)
(* factory of the sessions: the one in database/database.py turns it off,  *)
(* by default SQLAlchemy does it, and the one core/dependencies.py imports *)
(* does not exist.  The model has both.                                    *)
(***************************************************************************)
EXTENDS Naturals, FiniteSets

CONSTANTS
    Promos,         \* the promotions that may be created
    Voters,         \* the callers of promote and approve
    MaxApprovals,   \* bound on min_approvals
    MaxVotes,       \* bound on the votes committed for one promotion
    ConfigChanges,  \* bound on the changes of the target's configuration
    Aborts          \* bound on commits that fail and on ends of the process

ASSUME PromotionAssumption ==
    /\ MaxApprovals \in Nat \ {0} /\ ConfigChanges \in Nat /\ Aborts \in Nat
    /\ MaxVotes \in Nat \ {0}

VARIABLES
    autoflush,      \* whether a query flushes what was added before
    target,         \* the target's configuration: require_approval, min_approvals
    promotions,     \* the rows of build_promotions
    votes,          \* the rows of promotion_approvals: how many for, how many against
    voters,         \* the calls under way
    blind,          \* history: promotions of which two votes overlapped
    promotionFaults \* how many changes and aborts there were

promotionVars == <<autoflush, target, promotions, votes, voters, blind, promotionFaults>>

-----------------------------------------------------------------------------
RowType == [status : {"none", "pending", "approved", "rejected", "in_progress", "completed"},
            required : 0 .. MaxApprovals,           \* approvals_required
            received : 0 .. MaxVotes + 2,           \* approvals_received
            demanded : 0 .. MaxApprovals]           \* history: what the target demanded

NoRow == [status |-> "none", required |-> 0, received |-> 0, demanded |-> 0]

VoterType == [pc : {"idle", "creating", "voting", "deploying", "committing"},
              of : SUBSET Promos, yes : BOOLEAN, row : RowType]

NoCall == [pc |-> "idle", of |-> {}, yes |-> FALSE, row |-> NoRow]

Demands == [require : BOOLEAN, min : 1 .. MaxApprovals]

PromotionInit ==
    /\ autoflush \in BOOLEAN
    /\ target \in Demands
    /\ promotions = [p \in Promos |-> NoRow]
    /\ votes = [p \in Promos |-> [for |-> 0, against |-> 0]]
    /\ voters = [v \in Voters |-> NoCall]
    /\ blind = {} /\ promotionFaults = [changes |-> 0, aborts |-> 0]

-----------------------------------------------------------------------------
\* update_environment: a change of the target's configuration.
ChangeTarget ==
    /\ promotionFaults.changes < ConfigChanges
    /\ promotionFaults' = [promotionFaults EXCEPT !.changes = @ + 1]
    /\ target' \in Demands \ {target}
    /\ UNCHANGED <<autoflush, promotions, votes, voters, blind>>

\* promote_build: the environments are read and the row is made.  It waits for
\* approvals, or is approved at once and deployed.
Promote(v, p, auto) ==
    /\ voters[v].pc = "idle"
    /\ promotions[p].status = "none" /\ \A w \in Voters : p \notin voters[w].of
    /\ LET waits == target.require /\ ~auto
       IN voters' = [voters EXCEPT ![v] =
            [pc |-> IF waits THEN "committing" ELSE "deploying", of |-> {p}, yes |-> FALSE,
             row |-> [status |-> IF waits THEN "pending" ELSE "in_progress",
                      required |-> IF waits THEN target.min ELSE 0, received |-> 0,
                      demanded |-> IF waits THEN target.min ELSE 0]]]
    /\ UNCHANGED <<autoflush, target, promotions, votes, blind, promotionFaults>>

\* Fault for BeginVote: the status of the promotion is not looked at.
BeginVoteAnyTime(v, p, yes) ==
    /\ voters[v].pc = "idle"
    /\ promotions[p].status # "none"
    /\ votes[p].for + votes[p].against + Cardinality({w \in Voters : p \in voters[w].of}) < MaxVotes
    /\ voters' = [voters EXCEPT ![v] = [pc |-> "voting", of |-> {p}, yes |-> yes,
                                        row |-> promotions[p]]]
    /\ blind' = blind \cup {q \in {p} : \E w \in Voters : q \in voters[w].of}
    /\ UNCHANGED <<autoflush, target, promotions, votes, promotionFaults>>

\* approve_promotion: the row is read, and its status is looked at.
BeginVote(v, p, yes) ==
    /\ voters[v].pc = "idle"
    /\ promotions[p].status = "pending"
    /\ votes[p].for + votes[p].against + Cardinality({w \in Voters : p \in voters[w].of}) < MaxVotes
    /\ voters' = [voters EXCEPT ![v] = [pc |-> "voting", of |-> {p}, yes |-> yes,
                                        row |-> promotions[p]]]
    /\ blind' = blind \cup {q \in {p} : \E w \in Voters : q \in voters[w].of}
    /\ UNCHANGED <<autoflush, target, promotions, votes, promotionFaults>>

CountsOwn == IF autoflush THEN 1 ELSE 0

\* Fault for Counted: the approval counts once more.
CountedThrice(p) == votes[p].for + CountsOwn + 2

\* The query counts the committed approvals, and this one too if it is flushed
\* before; then one is added for this one.
Counted(p) == votes[p].for + CountsOwn + 1

\* Fault for Vote: one approval more than the target demands.
VoteStrict(v) ==
    /\ voters[v].pc = "voting"
    /\ \E p \in voters[v].of :
         voters' = [voters EXCEPT ![v] =
            IF ~@.yes THEN [@ EXCEPT !.pc = "committing", !.row.status = "rejected"]
            ELSE IF Counted(p) > @.row.required
            THEN [@ EXCEPT !.pc = "deploying", !.row.status = "in_progress", !.row.received = Counted(p)]
            ELSE [@ EXCEPT !.pc = "committing", !.row.received = Counted(p)]]
    /\ UNCHANGED <<autoflush, target, promotions, votes, blind, promotionFaults>>

Vote(v) ==
    /\ voters[v].pc = "voting"
    /\ \E p \in voters[v].of :
         voters' = [voters EXCEPT ![v] =
            IF ~@.yes THEN [@ EXCEPT !.pc = "committing", !.row.status = "rejected"]
            ELSE IF Counted(p) >= @.row.required
            THEN [@ EXCEPT !.pc = "deploying", !.row.status = "in_progress", !.row.received = Counted(p)]
            ELSE [@ EXCEPT !.pc = "committing", !.row.received = Counted(p)]]
    /\ UNCHANGED <<autoflush, target, promotions, votes, blind, promotionFaults>>

\* _start_promotion_deployment is over; nothing of it is committed yet.
Deployed(v) ==
    /\ voters[v].pc = "deploying"
    /\ voters' = [voters EXCEPT ![v].pc = "committing", ![v].row.status = "completed"]
    /\ UNCHANGED <<autoflush, target, promotions, votes, blind, promotionFaults>>

\* The commit writes what the call changed: the status if it did, and the number
\* of approvals.
Written(p, row) == [row EXCEPT !.status = IF row.status = "pending" /\ promotions[p].status # "none"
                                          THEN promotions[p].status ELSE row.status,
                               !.received = IF row.status = "rejected" THEN promotions[p].received
                                            ELSE row.received]

Commit(v) ==
    /\ voters[v].pc = "committing"
    /\ \E p \in voters[v].of :
         /\ promotions' = [promotions EXCEPT ![p] = Written(p, voters[v].row)]
         /\ votes' = IF promotions[p].status = "none" THEN votes
                     ELSE IF voters[v].yes THEN [votes EXCEPT ![p].for = @ + 1]
                     ELSE [votes EXCEPT ![p].against = @ + 1]
    /\ voters' = [voters EXCEPT ![v] = NoCall]
    /\ UNCHANGED <<autoflush, target, blind, promotionFaults>>

\* An error rolls everything back, the vote included; the end of the process does
\* so for all the calls.
Abort(S) ==
    /\ S \cap {v \in Voters : voters[v].pc # "idle"} # {}
    /\ promotionFaults.aborts < Aborts
    /\ promotionFaults' = [promotionFaults EXCEPT !.aborts = @ + 1]
    /\ voters' = [v \in Voters |-> IF v \in S THEN NoCall ELSE voters[v]]
    /\ UNCHANGED <<autoflush, target, promotions, votes, blind>>

-----------------------------------------------------------------------------
PromotionNext ==
    \/ ChangeTarget \/ Abort(Voters)
    \/ \E v \in Voters :
         \/ \E p \in Promos, b \in BOOLEAN : Promote(v, p, b) \/ BeginVote(v, p, b)
         \/ Vote(v) \/ Deployed(v) \/ Commit(v) \/ Abort({v})

PromotionSpec == PromotionInit /\ [][PromotionNext]_promotionVars

-----------------------------------------------------------------------------
PromotionTypeOK ==
    /\ autoflush \in BOOLEAN
    /\ target \in Demands
    /\ promotions \in [Promos -> RowType]
    /\ votes \in [Promos -> [for : 0 .. MaxVotes, against : 0 .. MaxVotes]]
    /\ voters \in [Voters -> VoterType]
    /\ blind \subseteq Promos
    /\ promotionFaults \in [changes : 0 .. ConfigChanges, aborts : 0 .. Aborts]

\* A build that was deployed although the target demanded approvals when the
\* promotion was made has them, but for one where the last approval is counted
\* twice, and at least one; whatever overlaps, fails, or changes the demand
\* meanwhile.
QuorumButOne ==
    \A p \in Promos :
        (promotions[p].status = "completed" /\ promotions[p].demanded > 0) =>
            votes[p].for >= 1 /\ votes[p].for + CountsOwn >= promotions[p].demanded

\* A promotion that waits really lacks approvals, unless two votes overlapped and
\* neither saw the other: nobody looks again.
PendingIsShort ==
    \A p \in Promos \ blind :
        (promotions[p].status = "pending" /\ votes[p].for > 0) =>
            votes[p].for + CountsOwn < promotions[p].required

\* The status of a promotion agrees with its votes (approve_promotion).
QuorumJudged == QuorumButOne /\ PendingIsShort

\* A promotion that was deployed or rejected remains so, unless two votes
\* overlapped: the one that commits last decides.
OutcomeKept ==
    [][\A p \in Promos \ blind' :
         promotions[p].status \in {"completed", "rejected"} =>
             promotions'[p].status = promotions[p].status]_promotionVars
===============================================================================

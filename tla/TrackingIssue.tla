--------------------------- MODULE TrackingIssue ---------------------------
(***************************************************************************)
(* The issue channel of settings reconciliation: the issues that carry the *)
(* tracking label and, on each of them, the consent labels that people and *)
(* bots add and remove (the GitHub binding, aviato/github_platform.py).    *)
(*                                                                         *)
(* The binding re-reduces an issue's whole timeline on every read. What    *)
(* that reduction can tell is kept here as it evolves: the active grants,  *)
(* oldest first, and those of them that a non-human actor's entry follows. *)
(* Module ConsentTimeline checks this against the reduction itself.        *)
(***************************************************************************)
EXTENDS Settings, Naturals, Sequences

CONSTANTS
    IssueNumbers,  (* 1..n: how many labelled issues can ever be opened    *)
    Humans,        (* accounts whose GitHub actor type is "User"           *)
    Bots,          (* accounts of any other actor type                     *)
    MaxGrants      (* bound on the active consent labels of one issue      *)

ASSUME IssueAssumption ==
    /\ IssueNumbers \subseteq Nat \ {0}
    /\ Humans \cap Bots = {}
    /\ MaxGrants \in Nat

VARIABLES
    issue,         (* the labelled issues by number                        *)
    admins         (* the accounts whose repository role is admin now      *)

Grant == [id : DiffIds, by : Humans \cup Bots]
Issue == [state : {"absent", "open", "closed"},
          grants : Seq(Grant),
          edited : SUBSET DiffIds]

NewIssue == [state |-> "open", grants |-> <<>>, edited |-> {}]
AbsentIssue == [NewIssue EXCEPT !.state = "absent"]

ActiveIds(grants) == {grants[i].id : i \in 1..Len(grants)}

Without(grants, id) ==
    IF \E i \in 1..Len(grants) : grants[i].id = id
    THEN LET i == CHOOSE j \in 1..Len(grants) : grants[j].id = id
         IN  SubSeq(grants, 1, i - 1) \o SubSeq(grants, i + 1, Len(grants))
    ELSE grants

-----------------------------------------------------------------------------
(* Timeline entries and what each does to the reduction.                   *)

Labeled(i, id, who) ==
    [i EXCEPT !.grants = Append(Without(@, id), [id |-> id, by |-> who]),
              !.edited = (IF who \in Humans THEN @ ELSE ActiveIds(i.grants)) \ {id}]

Unlabeled(i, id, human) ==
    [i EXCEPT !.grants = Without(@, id),
              !.edited = (IF human THEN @ ELSE ActiveIds(i.grants)) \ {id}]

(* A comment, or any other entry, whose actor is not a "User".             *)
EditedByNonHuman(i) == [i EXCEPT !.edited = ActiveIds(i.grants)]

-----------------------------------------------------------------------------
(* Reading the channel.                                                    *)

Existing == {n \in IssueNumbers : issue[n].state # "absent"}
OpenIssues == {n \in IssueNumbers : issue[n].state = "open"}

Oldest(S) == CHOOSE n \in S : \A m \in S : n <= m

(* The issue every read and write of the binding acts on: the oldest open  *)
(* one, or the oldest closed one when none is open.                        *)
SelectIssue(S) ==
    IF S \cap OpenIssues # {} THEN Oldest(S \cap OpenIssues) ELSE Oldest(S)

(* The most recent grant that no one has revoked.                          *)
HasConsent(i) == i.grants # <<>>
CurrentConsent(i) == i.grants[Len(i.grants)]

NonHumanEditAfterGrant(i) == CurrentConsent(i).id \in i.edited

-----------------------------------------------------------------------------
(* What people and other bots do to the channel.                           *)

AddLabel(n, who, id) ==
    /\ issue[n].state # "absent"
    /\ id \notin ActiveIds(issue[n].grants)
    /\ Len(issue[n].grants) < MaxGrants
    /\ issue' = [issue EXCEPT ![n] = Labeled(@, id, who)]
    /\ UNCHANGED admins

RemoveLabel(n, id) ==
    /\ issue[n].state # "absent"
    /\ id \in ActiveIds(issue[n].grants)
    /\ issue' = [issue EXCEPT ![n] = Unlabeled(@, id, TRUE)]
    /\ UNCHANGED admins

BotEdit(n) ==
    /\ issue[n].state # "absent"
    /\ issue' = [issue EXCEPT ![n] = EditedByNonHuman(@)]
    /\ UNCHANGED admins

CloseIssue(n) ==
    /\ issue[n].state = "open"
    /\ issue' = [issue EXCEPT ![n].state = "closed"]
    /\ UNCHANGED admins

ReopenIssue(n) ==
    /\ issue[n].state = "closed"
    /\ issue' = [issue EXCEPT ![n].state = "open"]
    /\ UNCHANGED admins

(* Someone opens a look-alike, or the first tracking issue by hand.        *)
OpenIssue ==
    /\ Existing # IssueNumbers
    /\ issue' = [issue EXCEPT ![Oldest(IssueNumbers \ Existing)] = NewIssue]
    /\ UNCHANGED admins

ChangeRole(h) ==
    /\ admins' = IF h \in admins THEN admins \ {h} ELSE admins \cup {h}
    /\ UNCHANGED issue

(* Bots hold the role throughout: only their kind may keep them out.       *)
IssueInit ==
    /\ issue = [n \in IssueNumbers |-> AbsentIssue]
    /\ \E h \in SUBSET Humans : admins = h \cup Bots

IssueTypeOK ==
    /\ issue \in [IssueNumbers -> Issue]
    /\ admins \subseteq Humans \cup Bots

=============================================================================

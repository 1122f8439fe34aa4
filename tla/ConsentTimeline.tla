--------------------------- MODULE ConsentTimeline ---------------------------
(***************************************************************************)
(* How the binding finds the current consent of an issue: it fetches the   *)
(* whole timeline, whose array order GitHub does not guarantee, sorts it   *)
(* by timestamp and reduces it (_chronological, current_consent and        *)
(* nonhuman_edit_after_grant in aviato/github_platform.py).                *)
(*                                                                         *)
(* The issue's true history is recorded here entry by entry, next to the   *)
(* summary that TrackingIssue keeps of it.                                 *)
(***************************************************************************)
EXTENDS TrackingIssue, SequencesExt

CONSTANTS
    TheIssue,     (* the one issue looked at                               *)
    MaxEntries    (* bound on the length of its timeline                   *)

ASSUME TimelineAssumption == TheIssue \in IssueNumbers /\ MaxEntries \in Nat

VARIABLES timeline   (* the entries in the order in which they happened    *)

timelineVars == <<issue, admins, timeline>>

Entry == [event : {"labeled", "unlabeled", "other"}, id : DiffIds \cup {NoDiff},
          who : Humans \cup Bots, at : Nat]

-----------------------------------------------------------------------------
(* The reduction of an array of entries.                                   *)

(* Faulty: trusts the order of the array.                                  *)
AsReturned(array) == array

(* The ways to rearrange an array of n entries.                            *)
Orders == [n \in 0..MaxEntries |-> Bijection(1..n, 1..n)]

(* Entries by timestamp; those of one second keep their places.            *)
Chronological(array) ==
    LET Precedes(i, j) == \/ array[i].at < array[j].at
                          \/ array[i].at = array[j].at /\ i < j
        order == CHOOSE p \in Orders[Len(array)] :
                    \A i, j \in DOMAIN array : i < j => Precedes(p[i], p[j])
    IN  [i \in DOMAIN array |-> array[order[i]]]

(* A label of a diff that no later labelling or removal of it replaces.    *)
ActiveGrants(entries) ==
    {i \in DOMAIN entries :
        /\ entries[i].event = "labeled"
        /\ \A j \in DOMAIN entries :
              j > i /\ entries[j].id = entries[i].id => entries[j].event = "other"}

(* What get_issue hands on about the newest active grant, if there is one. *)
CurrentConsentIn(array) ==
    LET entries == Chronological(array)
        g == Max(ActiveGrants(entries))
    IN  IF ActiveGrants(entries) = {} THEN <<>>
        ELSE <<[id |-> entries[g].id, by |-> entries[g].who,
                edited |-> \E j \in DOMAIN entries : j > g /\ entries[j].who \in Bots]>>

-----------------------------------------------------------------------------
(* What can be entered in the timeline, and when.                          *)

Happens(event, id, who) ==
    /\ Len(timeline) < MaxEntries
    /\ LET now == IF timeline = <<>> THEN 0 ELSE Last(timeline).at
       IN  \E at \in {now, now + 1} :
              timeline' = Append(timeline,
                                 [event |-> event, id |-> id, who |-> who, at |-> at])

Label(who, id) ==
    /\ AddLabel(TheIssue, who, id)
    /\ Happens("labeled", id, who)

Unlabel(who, id) ==
    /\ id \in ActiveIds(issue[TheIssue].grants)
    /\ issue' = [issue EXCEPT ![TheIssue] = Unlabeled(@, id, who \in Humans)]
    /\ Happens("unlabeled", id, who)
    /\ UNCHANGED admins

Comment(who) ==
    /\ issue' = IF who \in Humans THEN issue
                ELSE [issue EXCEPT ![TheIssue] = EditedByNonHuman(@)]
    /\ Happens("other", NoDiff, who)
    /\ UNCHANGED admins

TimelineInit ==
    /\ issue = [n \in IssueNumbers |-> NewIssue]
    /\ admins = Humans
    /\ timeline = <<>>

TimelineNext ==
    \E who \in Humans \cup Bots :
        \/ \E id \in DiffIds : Label(who, id) \/ Unlabel(who, id)
        \/ Comment(who)

TimelineSpec == TimelineInit /\ [][TimelineNext]_timelineVars

-----------------------------------------------------------------------------
(* The arrays in which GitHub may return the timeline: any order, except   *)
(* that entries with one timestamp come in the order they happened.        *)
Returned ==
    {[i \in DOMAIN timeline |-> timeline[p[i]]] : p \in
        {q \in Orders[Len(timeline)] :
            \A i, j \in DOMAIN timeline :
               i < j /\ timeline[q[i]].at = timeline[q[j]].at => q[i] < q[j]}}

Summary(i) ==
    IF HasConsent(i)
    THEN <<[id |-> CurrentConsent(i).id, by |-> CurrentConsent(i).by,
            edited |-> NonHumanEditAfterGrant(i)]>>
    ELSE <<>>

(* Whatever the order of the array, the reduction yields the newest grant  *)
(* that nobody has revoked, who gave it and whether a bot's entry follows  *)
(* it: a revoke or an edit cannot hide behind a stale grant. The other     *)
(* modules rest on this when they read an issue's summary.                 *)
ReductionReflectsHistory ==
    \A array \in Returned : CurrentConsentIn(array) = Summary(issue[TheIssue])

=============================================================================

----------------------------- MODULE ClaimLedger -----------------------------
(***************************************************************************)
(* What the table of claims for clothing promises: the claims of an        *)
(* request come together, undated or with the dates of claims that a       *)
(* detail showed, and a claim is dated by a clerk, or in one act with a    *)
(* day on which its employee was found on duty.                            *)
(*                                                                         *)
(* There are no kinds of journeys, no deletions of approvals, no cache and *)
(* no job with its queries one after another, but for what they still      *)
(* hold: claims that are gone can be copied, and a day that has changed be *)
(* written, as long as someone has them.  ClothingClaims is shown to       *)
(* implement this module.                                                  *)
(***************************************************************************)
EXTENDS Integers

CONSTANTS Employees, Approvals,
          Bodies,        \* dates that clerks send, each given, null or missing
          ByHand,        \* the same, for one claim
          DutyDays, TwoYears,
          Missing, Nil

VARIABLES today,
          claims,
          writes,       \* requests and errors so far; they order the claims
          shown,        \* claims as a detail shows them that someone has
          days          \* those on which an employee is, or was found, on duty

ledger == <<today, claims, writes, shown, days>>

ClaimsIn(a) == {c \in claims : c.approval = a}

Midnight == today' = today + 1 /\ UNCHANGED <<claims, writes, shown, days>>

Look == shown' \subseteq shown \cup claims /\ UNCHANGED <<today, claims, writes, days>>

Report(e) ==
    /\ days' = [days EXCEPT ![e] = days'[e]]
    /\ days'[e] \subseteq days[e] \cup DutyDays
    /\ UNCHANGED <<today, claims, writes, shown>>

(* A new claim is made out of nothing, or of one that is shown. *)
Undated(c) == c.reporting = Nil /\ c.next = Nil
CopyOf(c, d) == c = [d EXCEPT !.batch = c.batch, !.approval = c.approval, !.created = c.created]

(* The claims of one approval are made together, one for each employee, in
   place of those it has; or some are given up. *)
Rewrite(a) ==
    LET new == claims' \ claims
    IN  /\ writes' = writes + 1
        /\ \A c \in new : /\ c.batch = writes' /\ c.approval = a /\ c.created = today
                          /\ Undated(c) \/ \E d \in shown : CopyOf(c, d)
                          /\ \A d \in claims' : d.approval = a /\ d.employee = c.employee => c = d
        /\ new # {} => \A d \in claims' : d.approval = a => d \in new
        /\ \A d \in claims : d.approval # a => d \in claims'
        /\ UNCHANGED <<today, shown, days>>

(* What is missing stays as it is; a day of report comes with a date for the
   next claim. *)
Enters(body, c, d) ==
    /\ d = [c EXCEPT !.reporting = d.reporting, !.next = d.next]
    /\ d.reporting = (IF body.reporting = Missing THEN c.reporting ELSE body.reporting)
    /\ IF body.next \in Int THEN d.next = body.next
       ELSE IF body.reporting \in Int THEN d.next \in Int
       ELSE d.next = (IF body.next = Missing THEN c.next ELSE Nil)

Enter(a, body) ==
    /\ writes' = writes + 1
    /\ \A d \in claims' : d \in claims \ ClaimsIn(a) \/ \E c \in ClaimsIn(a) : Enters(body, c, d)
    /\ \A c \in claims : c \in claims' \/ (c.approval = a /\ \E d \in claims' : Enters(body, c, d))
    /\ UNCHANGED <<today, shown, days>>

(* By hand: one claim, with the dates that are given. *)
Given(new, old) == IF new = Missing THEN old ELSE new
Add(a, e, body) ==
    /\ writes' = writes + 1
    /\ \A c \in ClaimsIn(a) : c.employee # e
    /\ claims' \ claims = {c \in claims' : c.approval = a /\ c.employee = e}
    /\ \A c \in claims' \ claims :
           /\ c.batch = writes' /\ c.created = today
           /\ c.reporting = Given(body.reporting, Nil) /\ c.next = Given(body.next, Nil)
    /\ claims \subseteq claims'
    /\ UNCHANGED <<today, shown, days>>
Amend(c, body) ==
    /\ writes' = writes + 1
    /\ claims' = (claims \ {c}) \cup
           {[c EXCEPT !.reporting = Given(body.reporting, @), !.next = Given(body.next, @)]}
    /\ UNCHANGED <<today, shown, days>>

(* What nobody has any more is forgotten. *)
Forgets == days' \in [Employees -> SUBSET DutyDays] /\ \A e \in Employees : days'[e] \subseteq days[e]

(* An employee was found on duty, and may claim again two years and a day later. *)
Dates(c) ==
    /\ \E day \in days[c.employee] :
           claims' = (claims \ {c}) \cup {[c EXCEPT !.reporting = day, !.next = day + TwoYears + 1]}
    /\ Forgets
    /\ UNCHANGED <<today, writes, shown>>

Init ==
    /\ today = 0 /\ claims = {} /\ writes = 0 /\ shown = {}
    /\ days = [e \in Employees |-> {}]

(* An error may be counted, and changes no claim; no more does a job that finds
   its claim gone. *)
Attempt == writes' \in {writes, writes + 1} /\ Forgets /\ UNCHANGED <<today, claims, shown>>

Next ==
    \/ Midnight \/ Look \/ Attempt
    \/ \E e \in Employees : Report(e) \/ \E a \in Approvals, body \in ByHand : Add(a, e, body)
    \/ \E a \in Approvals : Rewrite(a) \/ \E body \in Bodies : Enter(a, body)
    \/ \E c \in claims : Dates(c) \/ \E body \in ByHand : Amend(c, body)

Spec == Init /\ [][Next]_ledger
=============================================================================

---------------------------- MODULE RoleMailbox ----------------------------
(***************************************************************************)
(* The mails of a role in its agent: agent/cls/mailbox.lua and               *)
(* agent/apis/mailbox_api.lua.  The role pulls what waits for it in the       *)
(* mailbox service (module Mail), whose answers are taken here without the    *)
(* expiry and the limit (MAIL_CACHE_LIMIT) of mails that wait there.        *)
(*                                                                         *)
(* update_mailbox and the daily update run under the session lock (module     *)
(* Role), of which each connection of the client makes a new one: a pull may   *)
(* overlap with one of a former connection.  Requests that delete mails take   *)
(* no lock and run while pulls wait.  A mail is known by its place in the      *)
(* order of create_time.                                                    *)
(***************************************************************************)
EXTENDS Naturals, FiniteSets, FiniteSetsExt, Sequences

CONSTANTS
  MAILBOX_LIMIT,     \* the most mails of a type in an answer
  MaxMail,           \* bound: mails created
  MaxPull            \* bound: pulls under way

\* What is assumed of them.
Constants == MAILBOX_LIMIT \in Nat \ {0} /\ MaxMail \in Nat /\ MaxPull \in Nat

VARIABLES
  last,              \* mails created so far
  old,               \* mails up to this one are older than MAIL_EXPIRE_TIME
  waiting,           \* type -> mails in the mailbox service
  box,               \* type -> private_mails, system_mails
  asked,             \* calls of pull_mails that the service has not handled
  answers,           \* its answers on their way, in order
  removed            \* history: private mails that made room for others

pulls == << asked, answers >>
vars == << last, old, waiting, box, pulls, removed >>

Type == {"private", "system"}
Mail == [n : 1 .. MaxMail, attachment : BOOLEAN]
Older(S, m) == {k \in S : k.n < m.n}

Init ==
  /\ last = 0 /\ old = 0 /\ asked = 0 /\ answers = << >>
  /\ waiting = [t \in Type |-> {}] /\ box = [t \in Type |-> {}]
  /\ removed = {}

-----------------------------------------------------------------------------

\* _arrange_pl
Arranged(t, b) == IF t = "private" THEN b ELSE {m \in b : m.attachment}

\* mutated: one mail too few goes
Mutdelete_old_mails(t, b, c) ==
  IF c >= Cardinality(b) THEN {}
  ELSE {m \in Arranged(t, b) : Cardinality(Older(Arranged(t, b), m)) + 1 >= c}

\* What is left of a box when its c oldest mails go.
delete_old_mails(t, b, c) ==
  IF c >= Cardinality(b) THEN {}
  ELSE {m \in Arranged(t, b) : Cardinality(Older(Arranged(t, b), m)) >= c}

\* As many mails go as come, however many there are.
add_mails(t, b, new) == delete_old_mails(t, b, Cardinality(new)) \cup new

\* What the mailbox service answers: the first mails that wait.
Answer(t) == {m \in waiting[t] : Cardinality(Older(waiting[t], m)) < MAILBOX_LIMIT}

(* send_private_mail of other roles, and system mails.                      *)
Arrive(t, attachment) ==
  /\ last < MaxMail
  /\ last' = last + 1
  /\ waiting' = [waiting EXCEPT ![t] = @ \cup {[n |-> last + 1, attachment |-> attachment]}]
  /\ UNCHANGED << old, box, pulls, removed >>

(* update_mailbox, up to its call.                                          *)
update_mailbox ==
  /\ asked + Len(answers) < MaxPull
  /\ asked' = asked + 1
  /\ UNCHANGED << last, old, waiting, box, answers, removed >>

(* pull_mails: the service forgets what it answers.                          *)
Answered ==
  /\ asked > 0
  /\ asked' = asked - 1
  /\ answers' = Append(answers, [t \in Type |-> Answer(t)])
  /\ waiting' = [t \in Type |-> waiting[t] \ Answer(t)]
  /\ UNCHANGED << last, old, box, removed >>

(* update_mailbox, behind its call.                                         *)
Pulled ==
  /\ answers # << >>
  /\ box' = [t \in Type |-> add_mails(t, box[t], Head(answers)[t])]
  /\ answers' = Tail(answers)
  /\ removed' = removed \cup (box.private \ box'.private)
  /\ UNCHANGED << last, old, waiting, asked >>

(* The call or its answer is lost: update_mailbox returns the error.  The     *)
(* service may handle a call that nobody waits for any more.                 *)
PullFailed ==
  /\ \/ asked > 0 /\ asked' = asked - 1 /\ UNCHANGED answers
     \/ answers # << >> /\ answers' = Tail(answers) /\ UNCHANGED asked
  /\ UNCHANGED << last, old, waiting, box, removed >>

send_agent_mail(attachment) ==
  /\ last < MaxMail
  /\ last' = last + 1
  /\ box' = [box EXCEPT !.system =
       add_mails("system", @, {[n |-> last + 1, attachment |-> attachment]})]
  /\ UNCHANGED << old, waiting, pulls, removed >>

(* delete_mail of the role, and each deletion of delete_mails.               *)
delete_mail(t, m) ==
  /\ m \in box[t]
  /\ box' = [box EXCEPT ![t] = @ \ {m}]
  /\ UNCHANGED << last, old, waiting, pulls, removed >>

(* EVT_DAILY_UPDATE.                                                        *)
clear_month_mails ==
  /\ box' = [t \in Type |-> {m \in box[t] : m.n > old}]
  /\ UNCHANGED << last, old, waiting, pulls, removed >>

Age ==
  /\ old < last
  /\ old' = old + 1
  /\ UNCHANGED << last, waiting, box, pulls, removed >>

Next ==
  \/ \E t \in Type, a \in BOOLEAN : Arrive(t, a)
  \/ update_mailbox \/ Answered \/ Pulled \/ PullFailed
  \/ \E a \in BOOLEAN : send_agent_mail(a)
  \/ \E t \in Type : \E m \in box[t] : delete_mail(t, m)
  \/ clear_month_mails \/ Age

Spec == Init /\ [][Next]_vars

-----------------------------------------------------------------------------

(* mailbox.lua:73-176: whatever is pulled, sent by the agent, and deleted and *)
(* expired while pulls wait for their answers, neither box outgrows           *)
(* MAILBOX_LIMIT, though no line compares its size with it, and a private     *)
(* mail only goes to make room when it is older than every mail that stays.  *)
BoxesBounded ==
  /\ \A t \in Type : Cardinality(box[t]) <= MAILBOX_LIMIT
  /\ \A d \in removed, m \in box.private : d.n < m.n

(* A mail only goes to make room when its box is full.                      *)
OnlyWhenFull ==
  [][\A m \in removed' \ removed : Cardinality(box.private) = MAILBOX_LIMIT]_vars
=============================================================================

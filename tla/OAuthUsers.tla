----------------------------- MODULE OAuthUsers -----------------------------
(***************************************************************************)
(* Which user a Google login is: upsert_oauth_user of crates/policy-server *)
(* /db/src/stores/postgres.rs.  Logins run in parallel transactions; each  *)
(* takes advisory locks on its email and on its subject, then row locks,   *)
(* and holds all of them until it commits or fails.                        *)
(*                                                                         *)
(* A user's id never changes, so the table users maps ids to rows.  Its    *)
(* unique indexes are on email and on (provider, provider_subject).        *)
(***************************************************************************)
EXTENDS Integers, FiniteSets

CONSTANTS
    Logins,     \* transactions
    Subjects,   \* provider_subject of the one provider, "google"
    Emails,     \* canonical emails
    NoSubject,  \* a row from before subjects were recorded
    NoRow       \* no such user

VARIABLES
    users,     \* table users: id -> [email, subject] or NoRow
    advisory,  \* advisory locks: key -> the login that holds it, or nobody
    rowLock,   \* FOR UPDATE locks: id -> the login that holds it, or nobody
    login,     \* the transactions: identity, program counter, the row found
    first      \* history: the user each subject was first logged in as

vars == <<users, advisory, rowLock, login, first>>

Nobody == "nobody"

\* derive_oauth_user_id and, for rows from before subjects, derive_user_id.
Id(kind, of) == <<kind, of>>
Ids == {Id("subject", s) : s \in Subjects} \cup {Id("email", e) : e \in Emails}
Keys == ({"email"} \X Emails) \cup ({"subject"} \X Subjects)
Row == [email : Emails, subject : Subjects \cup {NoSubject}]
NoId == Id("none", NoSubject)
Login == [pc : {"idle", "lock1", "lock2", "bySubject", "byEmail", "insert", "done",
                "refused", "conflict"},
          email : Emails, subject : Subjects, found : Ids \cup {NoId}]

EmailTaken(e, id) == \E u \in Ids \ {id} : users[u] # NoRow /\ users[u].email = e
SubjectTaken(s, id) == \E u \in Ids \ {id} : users[u] # NoRow /\ users[u].subject = s

\* lock_keys.sort_unstable(): "oauth-email:..." comes before "oauth-subject:...".
FirstKey(t) == <<"email", login[t].email>>
SecondKey(t) == <<"subject", login[t].subject>>

Begin(t, e, s) ==
    /\ login[t].pc = "idle"
    /\ login' = [login EXCEPT ![t] = [@ EXCEPT !.pc = "lock1", !.email = e, !.subject = s]]
    /\ UNCHANGED <<users, advisory, rowLock, first>>

\* pg_advisory_xact_lock waits until the key is free.
Lock(t, pc, key, next) ==
    /\ login[t].pc = pc
    /\ advisory[key] = Nobody
    /\ advisory' = [advisory EXCEPT ![key] = t]
    /\ login' = [login EXCEPT ![t].pc = next]
    /\ UNCHANGED <<users, rowLock, first>>

\* The transaction ends: every lock it holds is released.
Finish(t, pc) ==
    /\ login' = [login EXCEPT ![t].pc = pc]
    /\ advisory' = [k \in Keys |-> IF advisory[k] = t THEN Nobody ELSE advisory[k]]
    /\ rowLock' = [u \in Ids |-> IF rowLock[u] = t THEN Nobody ELSE rowLock[u]]

LoggedIn(t, id) ==
    first' = [first EXCEPT ![login[t].subject] = IF @ = NoId THEN id ELSE @]

\* UPDATE or INSERT of a row, then COMMIT; a unique index refuses a second row with
\* the same email or subject.
Write(t, id, row) ==
    IF EmailTaken(row.email, id) \/ SubjectTaken(row.subject, id)
    THEN Finish(t, "conflict") /\ UNCHANGED <<users, first>>
    ELSE /\ users' = [users EXCEPT ![id] = row]
         /\ Finish(t, "done")
         /\ LoggedIn(t, id)

\* SELECT ... WHERE provider_subject = $2 FOR UPDATE: the row, once nobody else has
\* it locked; its email becomes the login's.
BySubject(t) ==
    LET match == {u \in Ids : users[u] # NoRow /\ users[u].subject = login[t].subject} IN
    /\ login[t].pc = "bySubject"
    /\ \/ /\ match = {}
          /\ login' = [login EXCEPT ![t].pc = "byEmail"]
          /\ UNCHANGED <<users, advisory, rowLock, first>>
       \/ \E u \in match :
            /\ rowLock[u] = Nobody
            /\ rowLock' = [rowLock EXCEPT ![u] = t]
            /\ login' = [login EXCEPT ![t].pc = "insert", ![t].found = u]
            /\ UNCHANGED <<users, advisory, first>>

\* SELECT ... WHERE email = $1 FOR UPDATE: another subject's email is refused, a row
\* without a subject is linked.
ByEmail(t) ==
    LET match == {u \in Ids : users[u] # NoRow /\ users[u].email = login[t].email} IN
    /\ login[t].pc = "byEmail"
    /\ \/ /\ match = {}
          /\ login' = [login EXCEPT ![t].pc = "insert"]
          /\ UNCHANGED <<users, advisory, rowLock, first>>
       \/ \E u \in match :
            /\ rowLock[u] = Nobody
            /\ IF users[u].subject \notin {NoSubject, login[t].subject}
               THEN Finish(t, "refused")
               ELSE /\ rowLock' = [rowLock EXCEPT ![u] = t]
                    /\ login' = [login EXCEPT ![t].pc = "insert", ![t].found = u]
                    /\ UNCHANGED advisory
            /\ UNCHANGED <<users, first>>

\* The row that was found gets the login's email or subject; without one a row with
\* an id of the subject is inserted.
Save(t) ==
    LET id == IF login[t].found = NoId THEN Id("subject", login[t].subject)
              ELSE login[t].found
    IN
    /\ login[t].pc = "insert"
    /\ IF login[t].found = NoId /\ users[id] # NoRow
       THEN Finish(t, "conflict") /\ UNCHANGED <<users, first>>
       ELSE Write(t, id, [email |-> login[t].email, subject |-> login[t].subject])

Init ==
    /\ users \in {[u \in Ids |-> IF u \in {Id("email", e) : e \in old}
                                 THEN [email |-> u[2], subject |-> NoSubject] ELSE NoRow] :
                  old \in SUBSET Emails}
    /\ advisory = [k \in Keys |-> Nobody]
    /\ rowLock = [u \in Ids |-> Nobody]
    /\ login = [t \in Logins |-> [pc |-> "idle", email |-> CHOOSE e \in Emails : TRUE,
                                  subject |-> CHOOSE s \in Subjects : TRUE, found |-> NoId]]
    /\ first = [s \in Subjects |-> NoId]

Step(t) ==
    \/ Lock(t, "lock1", FirstKey(t), "lock2") \/ Lock(t, "lock2", SecondKey(t), "bySubject")
    \/ BySubject(t) \/ ByEmail(t) \/ Save(t)

Next ==
    \E t \in Logins :
        Step(t) \/ \E e \in Emails, s \in Subjects : Begin(t, e, s)

Spec == Init /\ [][Next]_vars

-----------------------------------------------------------------------------
TypeOK ==
    /\ users \in [Ids -> Row \cup {NoRow}]
    /\ advisory \in [Keys -> Logins \cup {Nobody}]
    /\ rowLock \in [Ids -> Logins \cup {Nobody}]
    /\ login \in [Logins -> Login]
    /\ first \in [Subjects -> Ids \cup {NoId}]

\* "OpenID Connect guarantees iss + sub stability, while email can change or be
\* reused" (postgres.rs:303): a subject is the same user at every login, and no user
\* is ever two subjects.
SameUserEveryTime ==
    /\ \A s \in Subjects : first[s] # NoId =>
          users[first[s]] # NoRow /\ users[first[s]].subject = s
    /\ \A s1, s2 \in Subjects : first[s1] # NoId /\ first[s1] = first[s2] => s1 = s2

\* "concurrent first logins cannot race into unique-constraint errors"
\* (postgres.rs:335): a constraint is hit only by a known subject whose new email
\* belongs to another user.
FirstLoginNeverConflicts ==
    \A t \in Logins : login[t].pc = "conflict" => first[login[t].subject] # NoId
=============================================================================

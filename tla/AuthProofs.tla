----------------------------- MODULE AuthProofs -----------------------------
(***************************************************************************)
(* Who is signed in. First the logins: a subject is the same user at every *)
(* login, and first logins meet no unique constraint, for any number of    *)
(* parallel logins, subjects and emails. The advisory locks keep every     *)
(* other login's writes away from what a login has looked for and not      *)
(* found; the row locks from the row it has found. Then, below, the        *)
(* refresh sessions a login opens: one of them is live per login, and      *)
(* losing it is told once.                                                 *)
(***************************************************************************)
EXTENDS OAuthUsers, TLAPS

\* The values that stand for nothing are none of the values.
Distinct ==
    /\ Subjects # {} /\ Emails # {}
    /\ NoSubject \notin Subjects /\ Nobody \notin Logins /\ NoRow \notin Row

Pc(t) == login[t].pc
NoSuchSubject(s) == \A u \in Ids : users[u] # NoRow => users[u].subject # s
NoSuchEmail(e) == \A u \in Ids : users[u] # NoRow => users[u].email # e

Locked(t) ==
    /\ Pc(t) \in {"lock2", "bySubject", "byEmail", "insert"} => advisory[FirstKey(t)] = t
    /\ Pc(t) \in {"bySubject", "byEmail", "insert"} => advisory[SecondKey(t)] = t

Found(t) ==
    LET u == login[t].found IN
    /\ rowLock[u] = t /\ users[u] # NoRow
    /\ \/ users[u].subject = login[t].subject
       \/ /\ users[u].subject = NoSubject /\ users[u].email = login[t].email
          /\ NoSuchSubject(login[t].subject)

Searched(t) ==
    /\ Pc(t) \in {"idle", "lock1", "lock2", "bySubject", "byEmail"} => login[t].found = NoId
    /\ Pc(t) = "byEmail" => NoSuchSubject(login[t].subject)
    /\ Pc(t) = "insert" =>
         IF login[t].found = NoId
         THEN NoSuchSubject(login[t].subject) /\ NoSuchEmail(login[t].email)
         ELSE Found(t)

Rows ==
    /\ \A u, v \in Ids :
         users[u] # NoRow /\ users[v] # NoRow /\ users[u].email = users[v].email => u = v
    /\ \A u \in Ids :
         users[u] # NoRow /\ users[u].subject # NoSubject => first[users[u].subject] # NoId
    /\ \A s \in Subjects :
         users[Id("subject", s)] # NoRow => users[Id("subject", s)].subject = s
    /\ \A s \in Subjects : first[s] # NoId =>
         users[first[s]] # NoRow /\ users[first[s]].subject = s

IInv ==
    /\ TypeOK /\ Rows /\ FirstLoginNeverConflicts
    /\ \A t \in Logins : Locked(t) /\ Searched(t)

\* The keys, ids and rows of a login are keys, ids and rows.
LEMMA Facts ==
    ASSUME Distinct, TypeOK, NEW t \in Logins
    PROVE  /\ login[t] \in Login /\ login[t].email \in Emails /\ login[t].subject \in Subjects
           /\ login[t].found \in Ids \cup {NoId}
           /\ FirstKey(t) \in Keys /\ SecondKey(t) \in Keys
           /\ Id("subject", login[t].subject) \in Ids
           /\ [email |-> login[t].email, subject |-> login[t].subject] \in Row
           /\ NoId \notin Ids
<1>1. login[t] \in Login /\ login[t].email \in Emails /\ login[t].subject \in Subjects
      /\ login[t].found \in Ids \cup {NoId}
  BY DEF TypeOK, Login
<1>2. FirstKey(t) \in Keys /\ SecondKey(t) \in Keys
  BY <1>1 DEF Keys, FirstKey, SecondKey
<1>3. Id("subject", login[t].subject) \in Ids /\ NoId \notin Ids
  BY <1>1 DEF Ids, NoId, Id
<1>4. [email |-> login[t].email, subject |-> login[t].subject] \in Row
  BY <1>1 DEF Row
<1> QED
  BY <1>1, <1>2, <1>3, <1>4

\* Two logins that hold their locks have neither the email nor the subject in common.
LEMMA Apart ==
    ASSUME IInv, NEW q \in Logins, NEW t \in Logins, q # t,
           Pc(q) \in {"bySubject", "byEmail", "insert"},
           Pc(t) \in {"bySubject", "byEmail", "insert"}
    PROVE  login[q].email # login[t].email /\ login[q].subject # login[t].subject
BY ZenonT(30) DEF IInv, Locked, FirstKey, SecondKey

\* A login keeps what it knows while the table is as it was and its locks are its own.
LEMMA OtherKept ==
    ASSUME Distinct, IInv, NEW q \in Logins, login'[q] = login[q], users' = users,
           \A k \in Keys : advisory[k] = q => advisory'[k] = q,
           \A u \in Ids : rowLock[u] = q => rowLock'[u] = q
    PROVE  Locked(q)' /\ Searched(q)'
<1>1. /\ FirstKey(q) \in Keys /\ SecondKey(q) \in Keys
      /\ login[q].found \in Ids \cup {NoId}
      /\ Locked(q) /\ Searched(q)
  BY Facts, ZenonT(30) DEF IInv
<1>2. Locked(q)'
  BY <1>1 DEF Locked, Pc, FirstKey, SecondKey
<1>3. Searched(q)'
  BY <1>1 DEF Searched, Pc, Found, NoSuchSubject, NoSuchEmail
<1> QED
  BY <1>2, <1>3

\* The rest of the invariant is of the table and of what has ended.
LEMMA TableKept ==
    ASSUME Distinct, IInv, users' = users, first' = first, TypeOK',
           \A q \in Logins : Locked(q)' /\ Searched(q)',
           \A q \in Logins : login'[q].pc = "conflict" => first[login'[q].subject] # NoId
    PROVE  IInv'
BY DEF IInv, Rows, FirstLoginNeverConflicts

\* The program starts with it.
LEMMA InitIInv ==
    ASSUME Distinct, Init
    PROVE  IInv
<1>1. TypeOK
  <2>1. users \in [Ids -> Row \cup {NoRow}]
    <3>1. PICK old \in SUBSET Emails :
            users = [u \in Ids |-> IF u \in {Id("email", e) : e \in old}
                                   THEN [email |-> u[2], subject |-> NoSubject] ELSE NoRow]
      BY Zenon DEF Init
    <3>2. ASSUME NEW e \in old
          PROVE  [email |-> Id("email", e)[2], subject |-> NoSubject] \in Row
      BY <3>2 DEF Id, Row
    <3> QED
      BY <3>1, <3>2
  <2>2. [pc |-> "idle", email |-> CHOOSE e \in Emails : TRUE,
         subject |-> CHOOSE s \in Subjects : TRUE, found |-> NoId] \in Login
    <3>1. (CHOOSE e \in Emails : TRUE) \in Emails
      BY Zenon DEF Distinct
    <3>2. (CHOOSE s \in Subjects : TRUE) \in Subjects
      BY Zenon DEF Distinct
    <3> QED
      BY <3>1, <3>2 DEF Login
  <2> QED
    BY <2>1, <2>2, ZenonT(30) DEF Init, TypeOK
<1>2. Rows
  <2>1. PICK old \in SUBSET Emails :
          users = [u \in Ids |-> IF u \in {Id("email", e) : e \in old}
                                 THEN [email |-> u[2], subject |-> NoSubject] ELSE NoRow]
    BY Zenon DEF Init
  <2>2. ASSUME NEW u \in Ids, users[u] # NoRow
        PROVE  \E e \in old :
                 u = Id("email", e) /\ users[u].email = e /\ users[u].subject = NoSubject
    BY <2>1, <2>2 DEF Id
  <2>3. \A s \in Subjects : Id("subject", s) \in Ids
    BY DEF Ids
  <2>4. \A s \in Subjects : users[Id("subject", s)] = NoRow
    BY <2>2, <2>3, ZenonT(30) DEF Id
  <2> QED
    BY <2>2, <2>4 DEF Rows, Init
<1>3. FirstLoginNeverConflicts /\ \A t \in Logins : Locked(t) /\ Searched(t)
  BY DEF Init, FirstLoginNeverConflicts, Locked, Searched, Pc
<1> QED
  BY <1>1, <1>2, <1>3 DEF IInv

-----------------------------------------------------------------------------
\* A login begins, or takes an advisory lock.
LEMMA LockKept ==
    ASSUME Distinct, IInv, NEW t \in Logins,
           \/ \E e \in Emails, s \in Subjects : Begin(t, e, s)
           \/ Lock(t, "lock1", FirstKey(t), "lock2")
           \/ Lock(t, "lock2", SecondKey(t), "bySubject")
    PROVE  IInv'
<1>0. TypeOK /\ Locked(t) /\ Searched(t)
  BY DEF IInv
<1>1. ASSUME NEW e \in Emails, NEW s \in Subjects, Begin(t, e, s)
      PROVE  IInv'
  <2>1. /\ \A q \in Logins : q # t => login'[q] = login[q]
        /\ login'[t].pc = "lock1" /\ login'[t].found = login[t].found
    BY <1>0, <1>1, ZenonT(30) DEF Begin, TypeOK, Login
  <2>2. TypeOK'
    BY <1>0, <1>1, ZenonT(30) DEF Begin, TypeOK, Login
  <2>3. Locked(t)' /\ Searched(t)'
    BY <1>0, <1>1, <2>1, ZenonT(30) DEF Begin, Locked, Searched, Pc
  <2>4. \A q \in Logins : Locked(q)' /\ Searched(q)'
    BY <1>1, <2>1, <2>3, OtherKept, ZenonT(30) DEF Begin
  <2> QED
    BY <1>1, <2>1, <2>2, <2>4, TableKept, ZenonT(30) DEF Begin, IInv, FirstLoginNeverConflicts
<1>2. ASSUME NEW pc, NEW key, NEW next,
             \/ pc = "lock1" /\ key = FirstKey(t) /\ next = "lock2"
             \/ pc = "lock2" /\ key = SecondKey(t) /\ next = "bySubject",
             Lock(t, pc, key, next)
      PROVE  IInv'
  <2>1. key \in Keys /\ FirstKey(t) \in Keys
    BY <1>0, <1>2, Facts, ZenonT(30)
  <2>2. /\ \A q \in Logins : q # t => login'[q] = login[q]
        /\ login'[t].pc = next /\ login'[t].found = login[t].found
        /\ login'[t].email = login[t].email /\ login'[t].subject = login[t].subject
        /\ \A k \in Keys : advisory'[k] = IF k = key THEN t ELSE advisory[k]
    BY <1>0, <1>2 DEF Lock, TypeOK
  <2>3. TypeOK'
    BY <1>0, <1>2, <2>1 DEF Lock, TypeOK, Login
  <2>4. Locked(t)' /\ Searched(t)'
    BY <1>0, <1>2, <2>1, <2>2 DEF Lock, Locked, Searched, Pc, FirstKey, SecondKey
  <2>5. ASSUME NEW q \in Logins, q # t
        PROVE  Locked(q)' /\ Searched(q)'
    <3>1. advisory[key] # q
      BY <1>2 DEF Lock, Distinct
    <3> QED
      BY <1>2, <2>2, <2>5, <3>1, OtherKept DEF Lock
  <2> QED
    BY <1>2, <2>2, <2>3, <2>4, <2>5, TableKept DEF Lock, IInv, FirstLoginNeverConflicts
<1> QED
  BY <1>1, <1>2

\* A login ends without having written.
LEMMA FinishKept ==
    ASSUME Distinct, IInv, NEW t \in Logins, NEW pc \in {"refused", "conflict"},
           Finish(t, pc), UNCHANGED <<users, first>>,
           pc = "conflict" => first[login[t].subject] # NoId
    PROVE  IInv'
<1>0. TypeOK
  BY DEF IInv
<1>1. /\ \A q \in Logins : q # t => login'[q] = login[q]
      /\ login'[t].pc = pc /\ login'[t].subject = login[t].subject
      /\ \A q \in Logins, k \in Keys : q # t /\ advisory[k] = q => advisory'[k] = q
      /\ \A q \in Logins, u \in Ids : q # t /\ rowLock[u] = q => rowLock'[u] = q
  BY <1>0 DEF Finish, TypeOK
<1>2. TypeOK'
  BY <1>0 DEF Finish, TypeOK, Login
<1>3. Locked(t)' /\ Searched(t)'
  BY <1>1 DEF Locked, Searched, Pc
<1>4. \A q \in Logins : Locked(q)' /\ Searched(q)'
  BY <1>1, <1>3, OtherKept
<1> QED
  BY <1>1, <1>2, <1>4, TableKept DEF IInv, FirstLoginNeverConflicts

\* A login looks for its row, and locks the one it finds.
LEMMA SearchKept ==
    ASSUME Distinct, IInv, NEW t \in Logins, BySubject(t) \/ ByEmail(t)
    PROVE  IInv'
<1>0. TypeOK /\ Locked(t) /\ Searched(t) /\ Rows
  BY Zenon DEF IInv
<1>1. ASSUME NEW next \in {"byEmail", "insert"}, NEW u \in Ids \cup {NoId},
             \A q \in Logins : q # t => login'[q] = login[q],
             login' \in [Logins -> Login],
             login'[t].pc = next, login'[t].found = u,
             login'[t].email = login[t].email, login'[t].subject = login[t].subject,
             UNCHANGED <<users, advisory, first>>, rowLock' \in [Ids -> Logins \cup {Nobody}],
             \A v \in Ids : rowLock[v] # Nobody => rowLock'[v] = rowLock[v],
             Pc(t) \in {"bySubject", "byEmail"}, Searched(t)'
      PROVE  IInv'
  <2>1. TypeOK'
    BY <1>0, <1>1 DEF TypeOK
  <2>2. Locked(t)'
    BY <1>0, <1>1 DEF Locked, Pc, FirstKey, SecondKey
  <2>3. \A q \in Logins : q # t => Locked(q)' /\ Searched(q)'
    BY <1>1, OtherKept, Zenon DEF Distinct
  <2> QED
    BY <1>1, <2>1, <2>2, <2>3, TableKept DEF IInv, FirstLoginNeverConflicts
<1>2. CASE BySubject(t)
  <2> DEFINE match == {u \in Ids : users[u] # NoRow /\ users[u].subject = login[t].subject}
  <2>1. CASE match = {} /\ login' = [login EXCEPT ![t].pc = "byEmail"]
                        /\ UNCHANGED <<users, advisory, rowLock, first>>
    <3>1. /\ \A q \in Logins : q # t => login'[q] = login[q]
          /\ login' \in [Logins -> Login] /\ login'[t].pc = "byEmail"
          /\ login'[t].found = login[t].found /\ login[t].found = NoId
          /\ login'[t].email = login[t].email /\ login'[t].subject = login[t].subject
      BY <1>0, <1>2, <2>1, Zenon DEF BySubject, TypeOK, Login, Searched, Pc
    <3>2. Searched(t)'
      BY <2>1, <3>1 DEF Searched, Pc, NoSuchSubject
    <3> QED
      BY <1>0, <1>1, <1>2, <2>1, <3>1, <3>2, ZenonT(30) DEF BySubject, TypeOK, Pc
  <2>2. ASSUME NEW u \in match, rowLock[u] = Nobody, rowLock' = [rowLock EXCEPT ![u] = t],
               login' = [login EXCEPT ![t].pc = "insert", ![t].found = u],
               UNCHANGED <<users, advisory, first>>
        PROVE  IInv'
    <3>1. /\ \A q \in Logins : q # t => login'[q] = login[q]
          /\ login' \in [Logins -> Login] /\ login'[t].pc = "insert" /\ login'[t].found = u
          /\ login'[t].email = login[t].email /\ login'[t].subject = login[t].subject
      BY <1>0, <2>2, ZenonT(30) DEF TypeOK, Login
    <3>2. /\ rowLock' \in [Ids -> Logins \cup {Nobody}] /\ rowLock'[u] = t
          /\ \A v \in Ids : rowLock[v] # Nobody => rowLock'[v] = rowLock[v]
      BY <1>0, <2>2 DEF TypeOK
    <3>3. Searched(t)'
      BY <2>2, <3>1, <3>2, Facts, <1>0, ZenonT(30) DEF Searched, Pc, Found
    <3> QED
      BY <1>1, <1>2, <2>2, <3>1, <3>2, <3>3, ZenonT(30) DEF BySubject, Pc
  <2> QED
    BY <1>2, <2>1, <2>2, SMTT(30) DEF BySubject
<1>3. CASE ByEmail(t)
  <2> DEFINE match == {u \in Ids : users[u] # NoRow /\ users[u].email = login[t].email}
  <2>0. Pc(t) = "byEmail" /\ NoSuchSubject(login[t].subject) /\ login[t].found = NoId
    BY <1>0, <1>3 DEF ByEmail, Searched, Pc
  <2>1. CASE match = {} /\ login' = [login EXCEPT ![t].pc = "insert"]
                        /\ UNCHANGED <<users, advisory, rowLock, first>>
    <3>1. /\ \A q \in Logins : q # t => login'[q] = login[q]
          /\ login' \in [Logins -> Login] /\ login'[t].pc = "insert"
          /\ login'[t].found = NoId
          /\ login'[t].email = login[t].email /\ login'[t].subject = login[t].subject
      BY <1>0, <2>0, <2>1 DEF TypeOK, Login
    <3>2. Searched(t)'
      BY <2>0, <2>1, <3>1 DEF Searched, Pc, NoSuchSubject, NoSuchEmail
    <3> QED
      BY <1>0, <1>1, <2>0, <2>1, <3>1, <3>2 DEF TypeOK
  <2>2. ASSUME NEW u \in match, rowLock[u] = Nobody, rowLock' = [rowLock EXCEPT ![u] = t],
               users[u].subject \in {NoSubject, login[t].subject},
               login' = [login EXCEPT ![t].pc = "insert", ![t].found = u],
               UNCHANGED <<users, advisory, first>>
        PROVE  IInv'
    <3>1. /\ \A q \in Logins : q # t => login'[q] = login[q]
          /\ login' \in [Logins -> Login] /\ login'[t].pc = "insert" /\ login'[t].found = u
          /\ login'[t].email = login[t].email /\ login'[t].subject = login[t].subject
      BY <1>0, <2>2, ZenonT(30) DEF TypeOK, Login
    <3>2. /\ rowLock' \in [Ids -> Logins \cup {Nobody}] /\ rowLock'[u] = t
          /\ \A v \in Ids : rowLock[v] # Nobody => rowLock'[v] = rowLock[v]
      BY <1>0, <2>2 DEF TypeOK
    <3>3. Searched(t)'
      <4>1. u \in Ids /\ u # NoId /\ users[u] # NoRow /\ users[u].email = login[t].email
        BY <1>0, <2>2, Facts, ZenonT(30)
      <4>2. users[u].subject = NoSubject
        BY <2>0, <2>2, <4>1 DEF NoSuchSubject
      <4>3. NoSuchSubject(login[t].subject)'
        BY <2>0, <2>2, <3>1 DEF NoSuchSubject
      <4> QED
        BY <2>2, <3>1, <3>2, <4>1, <4>2, <4>3 DEF Searched, Pc, Found
    <3> QED
      BY <1>1, <2>0, <2>2, <3>1, <3>2, <3>3
  <2>3. CASE Finish(t, "refused") /\ UNCHANGED <<users, first>>
    BY <2>3, FinishKept
  <2> QED
    BY <1>3, <2>1, <2>2, <2>3 DEF ByEmail
<1> QED
  BY <1>2, <1>3

\* A login writes its row: one that is not another login's, so that what the others
\* have found is still there, and what they have not found is not this row.
LEMMA WriteKept ==
    ASSUME Distinct, IInv, NEW t \in Logins, Pc(t) = "insert", NEW id \in Ids,
           IF login[t].found = NoId
           THEN id = Id("subject", login[t].subject) /\ users[id] = NoRow
           ELSE id = login[t].found,
           ~EmailTaken(login[t].email, id),
           users' = [users EXCEPT ![id] =
                        [email |-> login[t].email, subject |-> login[t].subject]],
           Finish(t, "done"), LoggedIn(t, id)
    PROVE  IInv'
<1> DEFINE subject == login[t].subject
           email == login[t].email
<1>0. /\ TypeOK /\ Searched(t) /\ Rows
      /\ subject \in Subjects /\ email \in Emails /\ NoId \notin Ids /\ NoSubject \notin Subjects
      /\ [email |-> email, subject |-> subject] \in Row
  BY Facts DEF IInv, Distinct
<1>1. /\ \A q \in Logins : q # t => login'[q] = login[q]
      /\ login'[t].pc = "done"
      /\ \A q \in Logins, k \in Keys : q # t /\ advisory[k] = q => advisory'[k] = q
      /\ \A q \in Logins, u \in Ids : q # t /\ rowLock[u] = q => rowLock'[u] = q
  BY <1>0 DEF Finish, TypeOK
<1>2. /\ \A u \in Ids : u # id => users'[u] = users[u]
      /\ users'[id] # NoRow /\ users'[id].email = email /\ users'[id].subject = subject
  BY <1>0, Zenon DEF TypeOK, Distinct
<1>3. /\ \A s \in Subjects : s # subject => first'[s] = first[s]
      /\ first[subject] # NoId => first'[subject] = first[subject]
      /\ first[subject] = NoId => first'[subject] = id
      /\ first' \in [Subjects -> Ids \cup {NoId}]
  BY <1>0 DEF LoggedIn, TypeOK
<1>4. TypeOK'
  BY <1>0, <1>3 DEF Finish, TypeOK, Login
<1>5. users[id] # NoRow => users[id].subject \in {subject, NoSubject}
  BY <1>0, Zenon DEF Searched, Found, Pc
<1>6. Rows'
  <2>1. \A u, v \in Ids :
          users'[u] # NoRow /\ users'[v] # NoRow /\ users'[u].email = users'[v].email => u = v
    BY <1>0, <1>2 DEF Rows, EmailTaken
  <2>2. \A u \in Ids :
          users'[u] # NoRow /\ users'[u].subject # NoSubject => first'[users'[u].subject] # NoId
    <3> SUFFICES ASSUME NEW u \in Ids, users'[u] # NoRow, users'[u].subject # NoSubject
                 PROVE  first'[users'[u].subject] # NoId
      BY Zenon
    <3>1. CASE u = id
      BY <1>0, <1>2, <1>3, <3>1, SMTT(30)
    <3>2. CASE u # id
      <4>1. users[u] \in Row /\ users[u].subject \in Subjects
        BY <1>0, <1>2, <3>2, SMTT(30) DEF TypeOK, Row
      <4> QED
        BY <1>0, <1>2, <1>3, <3>2, <4>1, SMTT(30) DEF Rows
    <3> QED
      BY <3>1, <3>2
  <2>3. ASSUME NEW s \in Subjects, users'[Id("subject", s)] # NoRow
        PROVE  users'[Id("subject", s)].subject = s
    <3>1. Id("subject", s) \in Ids
      BY Zenon DEF Ids
    <3>2. CASE Id("subject", s) # id
      BY <1>0, <1>2, <2>3, <3>1, <3>2, SMTT(30) DEF Rows
    <3>3. CASE Id("subject", s) = id
      <4>1. CASE users[id] = NoRow
        <5>1. login[t].found = NoId
          BY <1>0, <4>1, Zenon DEF Searched, Found, Pc
        <5>2. Id("subject", s) = Id("subject", subject)
          BY <3>3, <5>1, Zenon
        <5> QED
          BY <1>2, <3>3, <5>2, Zenon DEF Id
      <4>2. CASE users[id] # NoRow
        BY <1>0, <1>2, <1>5, <2>3, <3>3, <4>2, Zenon DEF Rows
      <4> QED
        BY <4>1, <4>2
    <3> QED
      BY <3>2, <3>3
  <2>4. ASSUME NEW s \in Subjects, first'[s] # NoId
        PROVE  users'[first'[s]] # NoRow /\ users'[first'[s]].subject = s
    <3>1. CASE first'[s] = id /\ s = subject
      BY <1>2, <3>1, Zenon
    <3>2. CASE first'[s] = first[s]
      <4>1. first[s] \in Ids /\ users[first[s]] # NoRow /\ users[first[s]].subject = s
        BY <1>0, <2>4, <3>2, SMTT(30) DEF Rows, TypeOK
      <4>2. CASE first[s] = id
        BY <1>0, <1>2, <1>5, <3>2, <4>1, <4>2, Zenon
      <4>3. CASE first[s] # id
        BY <1>2, <3>2, <4>1, <4>3, Zenon
      <4> QED
        BY <4>2, <4>3, Zenon
    <3> QED
      BY <1>3, <3>1, <3>2, Zenon
  <2> QED
    BY <2>1, <2>2, <2>3, <2>4, Zenon DEF Rows
<1>7. FirstLoginNeverConflicts'
  <2> SUFFICES ASSUME NEW q \in Logins, login'[q].pc = "conflict"
               PROVE  first'[login'[q].subject] # NoId
    BY DEF FirstLoginNeverConflicts
  <2>1. q # t /\ login'[q] = login[q]
    BY <1>1, SMTT(30)
  <2>2. login[q].subject \in Subjects /\ first[login[q].subject] # NoId
    BY <1>0, <2>1, Facts, ZenonT(30) DEF IInv, FirstLoginNeverConflicts
  <2> QED
    BY <1>3, <2>1, <2>2
<1>8. ASSUME NEW q \in Logins, q # t
      PROVE  Locked(q)' /\ Searched(q)'
  <2>0. /\ login'[q] = login[q] /\ Locked(q) /\ Searched(q)
        /\ FirstKey(q) \in Keys /\ SecondKey(q) \in Keys
        /\ login[q].found \in Ids \cup {NoId}
    BY <1>0, <1>1, <1>8, Facts, Zenon DEF IInv
  <2>1. Locked(q)'
    BY <1>1, <1>8, <2>0 DEF Locked, Pc, FirstKey, SecondKey
  <2>2. Pc(q) \in {"byEmail", "insert"} => login[q].email # email /\ login[q].subject # subject
    BY <1>8, Apart, Zenon
  <2>3. /\ Pc(q) \in {"byEmail", "insert"} /\ NoSuchSubject(login[q].subject)
             => NoSuchSubject(login[q].subject)'
        /\ Pc(q) = "insert" /\ NoSuchEmail(login[q].email) => NoSuchEmail(login[q].email)'
    BY <1>2, <2>0, <2>2, SMTT(30) DEF NoSuchSubject, NoSuchEmail
  <2>4. CASE Pc(q) = "insert" /\ login[q].found # NoId
    <3>1. Found(q) /\ login[q].found \in Ids
      BY <2>0, <2>4, Zenon DEF Searched
    <3>2. login[q].found # id
      BY <1>0, <1>8, <2>4, <3>1, Zenon DEF Searched, Found, Pc
    <3>3. Found(q)'
      BY <1>1, <1>2, <1>8, <2>0, <2>3, <2>4, <3>1, <3>2, SMTT(30) DEF Found
    <3> QED
      BY <2>0, <2>1, <2>4, <3>3, Zenon DEF Searched, Pc
  <2>5. CASE ~(Pc(q) = "insert" /\ login[q].found # NoId)
    BY <2>0, <2>1, <2>3, <2>5, Zenon DEF Searched, Pc
  <2> QED
    BY <2>4, <2>5
<1>9. Locked(t)' /\ Searched(t)'
  BY <1>1, Zenon DEF Locked, Searched, Pc
<1> QED
  BY <1>4, <1>6, <1>7, <1>8, <1>9 DEF IInv

\* The write of a login that is its subject's first meets no unique constraint.
LEMMA SaveKept ==
    ASSUME Distinct, IInv, NEW t \in Logins, Save(t)
    PROVE  IInv'
<1> DEFINE subject == login[t].subject
           email == login[t].email
           id == IF login[t].found = NoId THEN Id("subject", subject) ELSE login[t].found
           clash == \/ login[t].found = NoId /\ users[id] # NoRow
                    \/ EmailTaken(email, id) \/ SubjectTaken(subject, id)
<1>0. /\ Pc(t) = "insert" /\ Searched(t) /\ Rows /\ TypeOK
      /\ id \in Ids /\ subject \in Subjects /\ NoSubject \notin Subjects
  BY Facts, Zenon DEF IInv, Save, Pc, Distinct
<1>1. CASE clash /\ Finish(t, "conflict") /\ UNCHANGED <<users, first>>
  <2>1. first[subject] # NoId
    <3>1. CASE login[t].found = NoId
      <4>1. NoSuchSubject(subject) /\ NoSuchEmail(email)
        BY <1>0, <3>1, Zenon DEF Searched
      <4>2. users[id] # NoRow
        BY <1>1, <4>1, Zenon DEF EmailTaken, SubjectTaken, NoSuchSubject, NoSuchEmail
      <4>3. users[id].subject = subject
        BY <1>0, <3>1, <4>2, Zenon DEF Rows
      <4> QED
        BY <1>0, <4>1, <4>2, <4>3 DEF NoSuchSubject
    <3>2. CASE login[t].found # NoId
      <4>1. Found(t) /\ id = login[t].found
        BY <1>0, <3>2, Zenon DEF Searched
      <4>2. CASE users[id].subject = subject
        BY <1>0, <4>1, <4>2, SMTT(30) DEF Rows, Found
      <4>3. CASE users[id].email = email /\ NoSuchSubject(subject)
        BY <1>0, <1>1, <3>2, <4>1, <4>3, SMTT(30)
        DEF Rows, Found, EmailTaken, SubjectTaken, NoSuchSubject
      <4> QED
        BY <4>1, <4>2, <4>3 DEF Found
    <3> QED
      BY <3>1, <3>2, Zenon
  <2> QED
    BY <1>1, <2>1, FinishKept
<1>2. CASE ~clash /\ users' = [users EXCEPT ![id] = [email |-> email, subject |-> subject]]
                  /\ Finish(t, "done") /\ LoggedIn(t, id)
  <2>1. IF login[t].found = NoId
        THEN id = Id("subject", login[t].subject) /\ users[id] = NoRow
        ELSE id = login[t].found
    BY <1>2
  <2> HIDE DEF id
  <2> QED
    BY <1>0, <1>2, <2>1, WriteKept, Zenon
<1> QED
  BY <1>1, <1>2, Zenon DEF Save, Write

-----------------------------------------------------------------------------
\* The invariant holds of every reachable state.
LEMMA IInvInvariant ==
    ASSUME Distinct
    PROVE  Spec => []IInv
<1>1. Init => IInv
  BY InitIInv
<1>2. IInv /\ [Next]_vars => IInv'
  <2> SUFFICES ASSUME IInv, [Next]_vars PROVE IInv'
    BY Zenon
  <2>1. CASE UNCHANGED vars
    BY <2>1 DEF vars, IInv, TypeOK, Rows, FirstLoginNeverConflicts, Locked, Searched, Found,
       Pc, FirstKey, SecondKey, NoSuchSubject, NoSuchEmail
  <2>2. ASSUME NEW t \in Logins, Step(t) \/ \E e \in Emails, s \in Subjects : Begin(t, e, s)
        PROVE  IInv'
    BY <2>2, LockKept, SearchKept, SaveKept DEF Step
  <2> QED
    BY <2>1, <2>2 DEF Next
<1> QED
  BY <1>1, <1>2, PTL DEF Spec

\* A subject is the same user at every login, whatever emails it comes with and
\* whoever logs in at the same time (upsert_oauth_user).
THEOREM SameUserAlways ==
    ASSUME Distinct
    PROVE  Spec => []SameUserEveryTime
<1>1. IInv => SameUserEveryTime
  BY DEF IInv, Rows, SameUserEveryTime
<1> QED
  BY <1>1, IInvInvariant, PTL

\* Concurrent first logins cannot race into unique-constraint errors
\* (upsert_oauth_user).
THEOREM FirstLoginSucceeds ==
    ASSUME Distinct
    PROVE  Spec => []FirstLoginNeverConflicts
<1>1. IInv => FirstLoginNeverConflicts
  BY DEF IInv
<1> QED
  BY <1>1, IInvInvariant, PTL

-----------------------------------------------------------------------------
(***************************************************************************)
(* Refresh sessions, for any number of overlapping requests and of tokens. *)
(* The invariant says of the server that nothing is known of the tokens to *)
(* come and that a pair with a successor was revoked; of the client that   *)
(* its guard was set with the first notice and, as long as nothing         *)
(* disturbed it, that the one request that refreshes does so with the      *)
(* stored token.                                                           *)
(***************************************************************************)
CONSTANTS Requests, MaxTokens
VARIABLES issued, origin, parent, revoked, expired, access, refresh, notified, signing,
          copied, req, fired, disturbed

Auth == INSTANCE AuthSession WITH login <- origin

\* The tokens are bounded, by any number.
Bound == MaxTokens \in Nat

Server ==
    /\ issued \in 0 .. MaxTokens
    /\ origin \in [Auth!Tokens -> 0 .. MaxTokens] /\ parent \in [Auth!Tokens -> 0 .. MaxTokens]
    /\ revoked \subseteq 1 .. issued /\ expired \subseteq 1 .. issued
    /\ \A t \in Auth!Tokens : t > issued => parent[t] = 0 /\ origin[t] = 0
    /\ \A t \in 1 .. issued : origin[t] <= t /\ (parent[t] # 0 => parent[t] \in revoked)

Client ==
    /\ access \in 0 .. issued /\ refresh \in 0 .. issued /\ copied \subseteq 1 .. issued
    /\ req \in [Requests -> Auth!Req]
    /\ \A r \in Requests : req[r].token <= issued /\ (Auth!Refreshing(r) => req[r].token # 0)

Notices == fired \in {0, 1} /\ (fired = 1 => notified)

Holds(r) ==
    /\ req[r].pc = "refreshing" => req[r].token = refresh
    /\ req[r].pc = "granted" => Auth!Live(req[r].token) \/ req[r].token \in expired

InStep ==
    ~disturbed =>
        /\ \A q, r \in Requests : Auth!Refreshing(q) /\ Auth!Refreshing(r) => q = r
        /\ \A r \in Requests : Holds(r)
        /\ Auth!SessionKept

SessionsIInv == Server /\ Client /\ Auth!OneLiveSession /\ Notices /\ InStep

\* The program starts with it.
LEMMA InitSessions ==
    ASSUME Bound, Auth!Init
    PROVE  SessionsIInv
<1> USE DEF Bound, Auth!Init
<1>1. Server
  BY DEF Server, Auth!Tokens
<1>2. [pc |-> "idle", token |-> 0] \in Auth!Req
  BY DEF Auth!Req, Auth!Pcs
<1>3. Client /\ Notices
  BY <1>2 DEF Client, Notices, Auth!Refreshing
<1>4. Auth!OneLiveSession /\ InStep
  BY DEF Auth!OneLiveSession, InStep, Holds, Auth!SessionKept, Auth!Refreshing
<1> QED
  BY <1>1, <1>3, <1>4 DEF SessionsIInv

-----------------------------------------------------------------------------
(***************************************************************************)
(* The server.                                                             *)
(***************************************************************************)
\* A session is replaced, a login or an access-only pair begins, a session expires.
Replace(old) ==
    /\ Auth!Live(old) /\ revoked' = revoked \cup {old} /\ Auth!Issue(origin[old], old)
    /\ expired' = expired
NewLogin == Auth!Issue(0, 0) /\ UNCHANGED <<revoked, expired>>
AccessOnly ==
    /\ issued < MaxTokens
    /\ issued' = issued + 1 /\ revoked' = revoked \cup {issued + 1}
    /\ UNCHANGED <<origin, parent, expired>>
Expire(t) == Auth!Live(t) /\ expired' = expired \cup {t} /\ UNCHANGED Auth!serverVars

ServerStep ==
    \/ UNCHANGED <<Auth!serverVars, expired>>
    \/ \E old \in 1 .. issued : Replace(old)
    \/ NewLogin \/ AccessOnly
    \/ \E t \in 1 .. issued : Expire(t)

\* Every step is one of these to the server.
LEMMA NextServer ==
    ASSUME [Auth!Next]_(Auth!vars)
    PROVE  ServerStep
<1> USE DEF ServerStep
<1>1. ASSUME NEW r \in Requests, Auth!Rotate(r) PROVE ServerStep
  BY <1>1, Zenon DEF Auth!Rotate, Replace, Auth!Live
<1>2. ASSUME NEW r \in Requests,
             Auth!Send(r) \/ Auth!Answer(r) \/ Auth!PostRefresh(r) \/ Auth!ServerError(r)
             \/ Auth!Granted(r)
             \/ Auth!Refused(r) \/ Auth!Lost(r)
      PROVE  UNCHANGED <<Auth!serverVars, expired>>
  BY <1>2, Zenon
     DEF Auth!Send, Auth!Answer, Auth!PostRefresh, Auth!ServerError, Auth!Granted,
         Auth!Refused, Auth!Lost
<1>3. CASE Auth!SignIn \/ Auth!SignOut \/ Auth!Restart \/ UNCHANGED Auth!vars
  BY <1>3 DEF Auth!SignIn, Auth!SignOut, Auth!Restart, Auth!vars, Auth!serverVars
<1>4. CASE Auth!SignedIn
  BY <1>4, Zenon DEF Auth!SignedIn, NewLogin
<1>5. CASE Auth!Mirror
  BY <1>5 DEF Auth!Mirror, AccessOnly
<1>6. CASE Auth!PageRefresh
  BY <1>6 DEF Auth!PageRefresh, Replace, Auth!Live
<1>7. ASSUME NEW t \in Auth!Tokens, Auth!RefreshExpires(t) PROVE ServerStep
  BY <1>7, Zenon DEF Auth!RefreshExpires, Expire, Auth!Live
<1> QED
  BY <1>1, <1>2, <1>3, <1>4, <1>5, <1>6, <1>7, Zenon DEF Auth!Next

\* A new pair is of a new number.
LEMMA IssueNew ==
    ASSUME Bound, Server, NEW l \in 0 .. issued, NEW p \in 0 .. issued, Auth!Issue(l, p)
    PROVE  /\ issued' = issued + 1 /\ issued' \in Auth!Tokens /\ issued \in Nat
           /\ origin' \in [Auth!Tokens -> 0 .. MaxTokens]
           /\ parent' \in [Auth!Tokens -> 0 .. MaxTokens]
           /\ \A t \in Auth!Tokens :
                t # issued + 1 => origin'[t] = origin[t] /\ parent'[t] = parent[t]
           /\ parent'[issued + 1] = p
           /\ origin'[issued + 1] = IF p = 0 THEN issued + 1 ELSE l
BY DEF Bound, Server, Auth!Tokens, Auth!Issue

\* It is the only successor of the pair it replaces, and the only live session of its
\* login: the first, or the one for the pair that was live and now is not.
LEMMA IssueOne ==
    ASSUME Bound, Server, Auth!OneLiveSession, NEW l \in 0 .. issued, NEW p \in 0 .. issued,
           Auth!Issue(l, p), expired' = expired, revoked' = revoked \cup ({p} \ {0}),
           p # 0 => Auth!Live(p) /\ l = origin[p]
    PROVE  Server' /\ Auth!OneLiveSession'
<1> DEFINE new == issued + 1
<1>1. /\ issued' = new /\ new \in Auth!Tokens /\ issued \in Nat
      /\ origin' \in [Auth!Tokens -> 0 .. MaxTokens]
      /\ parent' \in [Auth!Tokens -> 0 .. MaxTokens]
      /\ \A t \in Auth!Tokens : t # new => origin'[t] = origin[t] /\ parent'[t] = parent[t]
      /\ parent'[new] = p
      /\ origin'[new] = IF p = 0 THEN new ELSE l
  BY IssueNew, Zenon
<1>2. ASSUME NEW u \in 1 .. issued', u # new
      PROVE  /\ u \in 1 .. issued /\ u \in Auth!Tokens /\ u # new /\ u < new
             /\ origin'[u] = origin[u] /\ parent'[u] = parent[u]
             /\ origin[u] \in Nat /\ origin[u] <= u
             /\ parent[u] # 0 => parent[u] \in revoked
  <2>1. u \in 1 .. issued /\ u \in Auth!Tokens
    BY <1>1, <1>2, SMTT(30) DEF Auth!Tokens, Bound
  <2> QED
    BY <1>1, <1>2, <2>1 DEF Server
<1>3. Server'
  <2>1. revoked' \subseteq 1 .. issued' /\ expired' \subseteq 1 .. issued'
    BY <1>1 DEF Server
  <2>2. \A t \in Auth!Tokens : t > issued' => parent'[t] = 0 /\ origin'[t] = 0
    BY <1>1, SMTT(30) DEF Server, Auth!Tokens, Bound
  <2>3. ASSUME NEW t \in 1 .. issued'
        PROVE  origin'[t] <= t /\ (parent'[t] # 0 => parent'[t] \in revoked')
    BY <1>1, <1>2
  <2>4. issued' \in 0 .. MaxTokens
    BY <1>1 DEF Auth!Tokens, Bound
  <2> QED
    BY <1>1, <2>1, <2>2, <2>3, <2>4, Zenon DEF Server
<1>4. ASSUME NEW u \in 1 .. issued', u # new, parent'[u] # 0
      PROVE  parent'[u] # p
  BY <1>2, <1>4 DEF Auth!Live
<1>5. ASSUME NEW u \in 1 .. issued', u # new, Auth!Live(u)'
      PROVE  Auth!Live(u) /\ origin'[u] # origin'[new]
  <2>1. Auth!Live(u) /\ u \notin revoked'
    BY <1>2, <1>5, Zenon DEF Auth!Live
  <2>2. CASE p = 0
    BY <1>1, <1>2, <1>5, <2>1, <2>2
  <2>3. CASE p # 0
    <3>1. Auth!Live(p) /\ p \in 1 .. issued /\ p \in revoked' /\ origin'[new] = origin[p]
      BY <1>1, <2>3, Zenon DEF Auth!Live
    <3>2. origin[u] # origin[p]
      BY <1>2, <1>5, <2>1, <3>1, Zenon DEF Auth!OneLiveSession
    <3> QED
      BY <1>2, <1>5, <2>1, <3>1, <3>2, Zenon
  <2> QED
    BY <2>2, <2>3
<1> HIDE DEF new
<1>6. ASSUME NEW s \in 1 .. issued', NEW t \in 1 .. issued'
      PROVE  /\ parent'[s] # 0 /\ parent'[s] = parent'[t] => s = t
             /\ Auth!Live(s)' /\ Auth!Live(t)' /\ origin'[s] = origin'[t] => s = t
  <2>1. CASE s = new \/ t = new
    BY <1>1, <1>4, <1>5, <2>1, Zenon
  <2>2. CASE s # new /\ t # new
    BY <1>2, <1>5, <2>2, Zenon DEF Auth!OneLiveSession
  <2> QED
    BY <2>1, <2>2, Zenon
<1> QED
  BY <1>3, <1>6, Zenon DEF Auth!OneLiveSession

\* What the server knows stays consistent, and a login keeps one session at most.
LEMMA ServerKept ==
    ASSUME Bound, Server, Auth!OneLiveSession, ServerStep
    PROVE  /\ Server' /\ Auth!OneLiveSession'
           /\ issued \in Nat /\ issued' \in Nat /\ issued <= issued'
<1>1. CASE UNCHANGED <<Auth!serverVars, expired>>
  BY <1>1 DEF Server, Bound, Auth!serverVars, Auth!OneLiveSession, Auth!Live
<1>2. ASSUME NEW old \in 1 .. issued, Replace(old)
      PROVE  Server' /\ Auth!OneLiveSession' /\ issued' = issued + 1
  <2>1. old \in 0 .. issued /\ old # 0 /\ origin[old] \in 0 .. issued
    BY DEF Server, Auth!Tokens, Bound
  <2> QED
    BY <1>2, <2>1, IssueOne, IssueNew, Zenon DEF Replace
<1>3. CASE NewLogin
  <2>1. 0 \in 0 .. issued
    BY DEF Server, Bound
  <2>2. revoked' = revoked \cup ({0} \ {0}) /\ expired' = expired
    BY <1>3, Zenon DEF NewLogin
  <2> QED
    BY <1>3, <2>1, <2>2, IssueOne, IssueNew DEF NewLogin
<1>4. CASE AccessOnly
  <2>1. Server' /\ issued' = issued + 1
    <3>1. /\ issued \in Nat /\ issued' = issued + 1 /\ issued' \in 0 .. MaxTokens
          /\ issued' \in Auth!Tokens
      BY <1>4 DEF AccessOnly, Server, Bound, Auth!Tokens
    <3>2. revoked' \subseteq 1 .. issued' /\ expired' \subseteq 1 .. issued'
      BY <1>4, <3>1 DEF AccessOnly, Server
    <3>3. \A t \in Auth!Tokens : t > issued' => parent'[t] = 0 /\ origin'[t] = 0
      BY <1>4, <3>1 DEF AccessOnly, Server, Auth!Tokens, Bound
    <3>4. ASSUME NEW t \in 1 .. issued'
          PROVE  origin'[t] <= t /\ (parent'[t] # 0 => parent'[t] \in revoked')
      BY <1>4, <3>1 DEF AccessOnly, Server, Auth!Tokens, Bound
    <3> QED
      BY <1>4, <3>1, <3>2, <3>3, <3>4, Zenon DEF AccessOnly, Server
  <2>2. Auth!OneLiveSession'
    <3>1. ASSUME NEW u \in 1 .. issued', parent'[u] # 0 \/ Auth!Live(u)'
          PROVE  /\ u \in 1 .. issued /\ parent'[u] = parent[u] /\ origin'[u] = origin[u]
                 /\ Auth!Live(u)' => Auth!Live(u)
      BY <1>4, <2>1, <3>1, SMTT(30) DEF AccessOnly, Server, Auth!Tokens, Bound, Auth!Live
    <3> QED
      BY <3>1, Zenon DEF Auth!OneLiveSession
  <2> QED
    BY <2>1, <2>2, SMTT(30) DEF Server, Bound
<1>5. ASSUME NEW t \in 1 .. issued, Expire(t)
      PROVE  Server' /\ Auth!OneLiveSession' /\ issued' = issued
  BY <1>5 DEF Expire, Server, Bound, Auth!OneLiveSession, Auth!Live, Auth!serverVars
<1>6. issued \in Nat
  BY DEF Server, Bound
<1> QED
  BY <1>1, <1>2, <1>3, <1>4, <1>5, <1>6, SMTT(30) DEF ServerStep, Auth!serverVars

-----------------------------------------------------------------------------
(***************************************************************************)
(* The client.                                                             *)
(***************************************************************************)
\* A request moves by itself.
LEMMA SetReq ==
    ASSUME req \in [Requests -> Auth!Req], NEW r \in Requests, NEW pc \in Auth!Pcs,
           NEW t \in 0 .. MaxTokens, Auth!Set(r, pc, t)
    PROVE  /\ req' \in [Requests -> Auth!Req]
           /\ req'[r].pc = pc /\ req'[r].token = t
           /\ \A q \in Requests : q # r => req'[q] = req[q]
<1>1. [pc |-> pc, token |-> t] \in Auth!Req
  BY Zenon DEF Auth!Req
<1> QED
  BY <1>1, Zenon DEF Auth!Set

\* What the request r does to the requests: it moves to pc with the token t.
LEMMA ClientMoves ==
    ASSUME Bound, Server, Client, issued' \in Nat, issued <= issued', issued' <= MaxTokens,
           NEW r \in Requests, NEW pc \in Auth!Pcs, NEW t \in 0 .. issued', Auth!Set(r, pc, t),
           pc \in {"refreshing", "granted", "refused"} => t # 0
    PROVE  /\ req' \in [Requests -> Auth!Req]
           /\ \A q \in Requests :
                req'[q].token <= issued' /\ (Auth!Refreshing(q)' => req'[q].token # 0)
<1>1. t \in 0 .. MaxTokens
  BY DEF Bound
<1>2. /\ req' \in [Requests -> Auth!Req]
      /\ req'[r].pc = pc /\ req'[r].token = t
      /\ \A q \in Requests : q # r => req'[q] = req[q]
  BY <1>1, SetReq, Zenon DEF Client
<1>3. ASSUME NEW q \in Requests
      PROVE  req'[q].token <= issued' /\ (Auth!Refreshing(q)' => req'[q].token # 0)
  <2>1. CASE q = r
    BY <1>2, <2>1, SMTT(30) DEF Auth!Refreshing
  <2>2. CASE q # r
    <3>1. req[q].token \in 0 .. MaxTokens
      BY Zenon DEF Client, Auth!Req
    <3> QED
      BY <1>2, <2>2, <3>1 DEF Client, Auth!Refreshing, Server, Bound
  <2> QED
    BY <2>1, <2>2, Zenon
<1> QED
  BY <1>2, <1>3, Zenon

\* The tokens the client knows were issued, and a refresh has one.
LEMMA ClientKept ==
    ASSUME Bound, Server, Client, Server', issued <= issued', [Auth!Next]_(Auth!vars)
    PROVE  Client'
<1>0. /\ issued \in Nat /\ issued' \in Nat /\ issued' <= MaxTokens
      /\ \A r \in Requests : req[r].token \in 0 .. issued
      /\ \A r \in Requests : req[r].pc \in Auth!Pcs
  BY DEF Server, Bound, Client, Auth!Req
<1>1. ASSUME access' \in 0 .. issued', refresh' \in 0 .. issued', copied' \subseteq 1 .. issued',
             req' = req
      PROVE  Client'
  BY <1>0, <1>1, SMTT(30) DEF Client, Auth!Refreshing
<1>2. ASSUME NEW r \in Requests, Auth!Send(r) \/ Auth!Answer(r) \/ Auth!Lost(r)
      PROVE  Client'
  <2>1. /\ UNCHANGED <<access, refresh, copied>>
        /\ \E pc \in {"idle", "sent", "denied"}, t \in 0 .. issued : Auth!Set(r, pc, t)
    BY <1>0, <1>2, SMTT(30) DEF Auth!Send, Auth!Answer, Auth!Lost, Auth!tokenVars, Client
  <2> QED
    BY <1>0, <2>1, ClientMoves, SMTT(30) DEF Client, Auth!Pcs
<1>3. ASSUME NEW r \in Requests, Auth!PostRefresh(r)
      PROVE  Client'
  BY <1>0, <1>3, ClientMoves, SMTT(30) DEF Auth!PostRefresh, Auth!tokenVars, Client, Auth!Pcs
<1>4. ASSUME NEW r \in Requests, Auth!Rotate(r) \/ Auth!ServerError(r)
      PROVE  Client'
  <2>1. /\ UNCHANGED <<access, refresh, copied>>
        /\ \E pc \in {"granted", "refused"}, t \in 1 .. issued' : Auth!Set(r, pc, t)
    BY <1>0, <1>4, SMTT(30)
       DEF Auth!Rotate, Auth!ServerError, Auth!Issue, Auth!tokenVars, Client, Auth!Refreshing
  <2> QED
    BY <1>0, <2>1, ClientMoves, SMTT(30) DEF Client, Auth!Pcs
<1>5. ASSUME NEW r \in Requests, Auth!Granted(r)
      PROVE  Client'
  <2>1. req[r].token \in 1 .. issued
    BY <1>0, <1>5, SMTT(30) DEF Auth!Granted, Client, Auth!Refreshing
  <2>2. access' \in 0 .. issued' /\ refresh' \in 0 .. issued' /\ copied' \subseteq 1 .. issued'
    BY <1>0, <1>5, <2>1, Zenon DEF Auth!Granted, Auth!SetTokens, Client, Auth!serverVars
  <2>3. req[r].token \in 0 .. issued' /\ Auth!Set(r, "retry", req[r].token)
    BY <1>0, <1>5, <2>1 DEF Auth!Granted
  <2> QED
    BY <1>0, <2>2, <2>3, ClientMoves, Zenon DEF Client, Auth!Pcs
<1>6. ASSUME NEW r \in Requests, Auth!Refused(r)
      PROVE  Client'
  BY <1>0, <1>6, ClientMoves DEF Auth!Refused, Auth!serverVars, Client, Auth!Pcs
<1>7. CASE Auth!SignIn \/ Auth!SignOut
  <2>1. access' = 0 /\ refresh' = 0 /\ UNCHANGED <<issued, copied, req>>
    BY <1>7, Zenon DEF Auth!SignIn, Auth!SignOut, Auth!serverVars
  <2> QED
    BY <1>0, <1>1, <2>1 DEF Client
<1>8. CASE Auth!SignedIn
  <2>1. CASE Auth!Issue(0, 0) /\ Auth!SetTokens(issued + 1, issued + 1)
    BY <1>0, <1>1, <1>8, <2>1, SMTT(30) DEF Auth!SignedIn, Auth!Issue, Auth!SetTokens, Client
  <2>2. CASE UNCHANGED <<Auth!serverVars, Auth!tokenVars, copied>>
    BY <1>0, <1>1, <1>8, <2>2, SMTT(30) DEF Auth!SignedIn, Auth!tokenVars, Client
  <2> QED
    BY <1>8, <2>1, <2>2, Zenon DEF Auth!SignedIn
<1>9. CASE Auth!Mirror
  <2>1. CASE issued' = issued + 1 /\ Auth!SetTokens(issued + 1, 0)
    BY <1>0, <1>1, <1>9, <2>1, SMTT(30) DEF Auth!Mirror, Auth!SetTokens, Client
  <2>2. ASSUME NEW a \in copied, NEW t \in copied \cup {0}, Auth!SetTokens(a, t), issued' = issued
        PROVE  Client'
    BY <1>0, <1>1, <1>9, <2>2, SMTT(30) DEF Auth!Mirror, Auth!SetTokens, Client
  <2> QED
    BY <1>9, <2>1, <2>2, Zenon DEF Auth!Mirror, Auth!serverVars
<1>10. CASE Auth!PageRefresh
  <2>1. issued' = issued + 1 /\ copied' = copied \cup {issued + 1}
    BY <1>10, Zenon DEF Auth!PageRefresh, Auth!Issue
  <2> QED
    BY <1>0, <1>1, <1>10, <2>1, SMTT(30) DEF Auth!PageRefresh, Auth!tokenVars, Client
<1>11. CASE Auth!Restart
  <2>1. [pc |-> "idle", token |-> 0] \in Auth!Req
    BY <1>0, SMTT(30) DEF Auth!Req, Auth!Pcs, Bound
  <2> QED
    BY <1>0, <1>11, <2>1, SMTT(30)
       DEF Auth!Restart, Auth!tokenVars, Auth!serverVars, Client, Auth!Refreshing
<1>12. ASSUME NEW t \in Auth!Tokens, Auth!RefreshExpires(t)
       PROVE  Client'
  BY <1>0, <1>1, <1>12, Zenon DEF Auth!RefreshExpires, Auth!tokenVars, Auth!serverVars, Client
<1>13. CASE UNCHANGED Auth!vars
  BY <1>0, <1>1, <1>13, Zenon DEF Auth!vars, Client
<1> QED
  BY <1>2, <1>3, <1>4, <1>5, <1>6, <1>7, <1>8, <1>9, <1>10, <1>11, <1>12, <1>13, Zenon
    DEF Auth!Next

\* The guard is set with the first notice and cleared with new tokens.
LEMMA NoticesKept ==
    ASSUME Bound, Server, Client, Notices, [Auth!Next]_(Auth!vars)
    PROVE  Notices'
<1> USE DEF Notices
<1>1. ASSUME NEW r \in Requests, Auth!Granted(r)
      PROVE  Notices'
  BY <1>1 DEF Auth!Granted, Auth!SetTokens, Client, Auth!Refreshing
<1>2. ASSUME NEW r \in Requests, Auth!Refused(r)
      PROVE  Notices'
  BY <1>2, SMTT(30) DEF Auth!Refused
<1>3. CASE Auth!SignedIn
  BY <1>3, SMTT(30) DEF Auth!SignedIn, Auth!SetTokens, Server, Bound
<1>4. CASE Auth!Mirror
  BY <1>4, SMTT(30) DEF Auth!Mirror, Auth!SetTokens, Server, Client, Bound
<1>5. CASE Auth!Restart
  BY <1>5, SMTT(30) DEF Auth!Restart
<1>6. ASSUME NEW r \in Requests,
             Auth!Send(r) \/ Auth!Answer(r) \/ Auth!PostRefresh(r) \/ Auth!Rotate(r)
             \/ Auth!ServerError(r) \/ Auth!Lost(r)
      PROVE  UNCHANGED <<fired, notified>>
  BY <1>6, Zenon
    DEF Auth!Send, Auth!Answer, Auth!PostRefresh, Auth!Rotate, Auth!ServerError, Auth!Lost
<1>7. Auth!SignIn \/ Auth!SignOut \/ Auth!PageRefresh \/ UNCHANGED Auth!vars
      => UNCHANGED <<fired, notified>>
  BY DEF Auth!SignIn, Auth!SignOut, Auth!PageRefresh, Auth!vars
<1>8. ASSUME NEW t \in Auth!Tokens, Auth!RefreshExpires(t)
      PROVE  UNCHANGED <<fired, notified>>
  BY <1>8, SMTT(30) DEF Auth!RefreshExpires
<1> QED
  BY <1>1, <1>2, <1>3, <1>4, <1>5, <1>6, <1>7, <1>8, Zenon DEF Auth!Next

\* While nothing disturbs the client, a step that leaves the refreshing requests, the
\* stored token and the sessions alone, or lets them expire, keeps it in step.
LEMMA Aside ==
    ASSUME Server, InStep, disturbed => disturbed', refresh' = refresh,
           UNCHANGED Auth!serverVars, expired \subseteq expired',
           \A q \in Requests : Auth!Refreshing(q) \/ Auth!Refreshing(q)' => req'[q] = req[q]
    PROVE  InStep'
<1> SUFFICES ASSUME ~disturbed'
             PROVE  /\ \A q, r \in Requests : Auth!Refreshing(q)' /\ Auth!Refreshing(r)' => q = r
                    /\ \A r \in Requests : Holds(r)'
                    /\ Auth!SessionKept'
  BY Zenon DEF InStep
<1>1. \A t : Auth!Live(t) => Auth!Live(t)' \/ t \in expired'
  BY Zenon DEF Auth!Live, Auth!serverVars
<1>2. \A q \in Requests : Auth!Refreshing(q)' => req'[q] = req[q] /\ Auth!Refreshing(q)
  BY Zenon DEF Auth!Refreshing
<1>3. ASSUME NEW r \in Requests
      PROVE  Holds(r)'
  <2>1. CASE Auth!Refreshing(r)'
    <3>1. Holds(r) /\ req'[r] = req[r]
      BY <1>2, <2>1, Zenon DEF InStep
    <3> QED
      BY <1>1, <3>1, Zenon DEF Holds, Auth!Live, Auth!serverVars
  <2>2. CASE ~Auth!Refreshing(r)'
    BY <2>2, Zenon DEF Holds, Auth!Refreshing
  <2> QED
    BY <2>1, <2>2, Zenon
<1>4. Auth!SessionKept'
  BY <1>1, Zenon DEF InStep, Auth!SessionKept, Auth!Refreshing, Auth!Live, Auth!serverVars
<1> QED
  BY <1>2, <1>3, <1>4, ZenonT(30) DEF InStep

\* So does one after which no request refreshes and the stored token is of use.
LEMMA Quiet ==
    ASSUME \A q \in Requests : ~Auth!Refreshing(q)',
           refresh' = 0 \/ refresh' \in expired' \/ Auth!Live(refresh)'
    PROVE  InStep'
BY Zenon DEF InStep, Holds, Auth!SessionKept, Auth!Refreshing

\* Every step keeps the client in step with the server, or is a disturbance.
LEMMA InStepKept ==
    ASSUME Bound, Server, Client, InStep, [Auth!Next]_(Auth!vars)
    PROVE  InStep'
<1>0. /\ issued \in Nat /\ revoked \subseteq 1 .. issued /\ expired \subseteq 1 .. issued
      /\ req \in [Requests -> Auth!Req]
      /\ \A r \in Requests : req[r].token \in 0 .. MaxTokens /\ req[r].token <= issued
  BY SMTT(30) DEF Server, Bound, Client, Auth!Req
<1>1. ASSUME NEW r \in Requests, Auth!Send(r) \/ Auth!Answer(r)
      PROVE  InStep'
  <2>1. /\ \A q \in Requests : q # r => req'[q] = req[q]
        /\ ~Auth!Refreshing(r) /\ ~Auth!Refreshing(r)'
    BY <1>0, <1>1 DEF Auth!Send, Auth!Answer, Auth!Set, Auth!Refreshing
  <2> QED
    BY <1>1, <2>1, Aside, SMTT(30) DEF Auth!Send, Auth!Answer, Auth!tokenVars
<1>2. ASSUME NEW r \in Requests, Auth!PostRefresh(r)
      PROVE  InStep'
  <2>1. refresh \in 0 .. MaxTokens
    BY <1>0, SMTT(30) DEF Client, Server, Bound
  <2>2. CASE refresh = 0
    <3>1. /\ \A q \in Requests : q # r => req'[q] = req[q]
          /\ ~Auth!Refreshing(r) /\ ~Auth!Refreshing(r)'
      BY <1>0, <1>2, <2>2, SMTT(30) DEF Auth!PostRefresh, Auth!Set, Auth!Refreshing
    <3>2. disturbed => disturbed'
      BY <1>2, Zenon DEF Auth!PostRefresh
    <3> QED
      BY <1>2, <2>2, <3>1, <3>2, Aside, Zenon DEF Auth!PostRefresh, Auth!tokenVars
  <2>3. CASE refresh # 0
    <3> SUFFICES ASSUME ~disturbed' PROVE InStep'
      BY SMTT(30) DEF InStep
    <3>1. ~disturbed /\ \A q \in Requests \ {r} : ~Auth!Refreshing(q)
      BY <1>2, <2>3, Zenon DEF Auth!PostRefresh
    <3>2. /\ \A q \in Requests : q # r => req'[q] = req[q]
          /\ req'[r].pc = "refreshing" /\ req'[r].token = refresh
          /\ req[r].pc = "denied"
          /\ UNCHANGED <<issued, revoked, expired, refresh>>
      BY <1>0, <1>2, <2>3, SMTT(30)
        DEF Auth!PostRefresh, Auth!Set, Auth!tokenVars, Auth!serverVars
    <3> QED
      BY <3>1, <3>2, Zenon DEF InStep, Holds, Auth!SessionKept, Auth!Refreshing, Auth!Live
  <2> QED
    BY <2>2, <2>3, Zenon
<1>3. ASSUME NEW r \in Requests, Auth!Rotate(r) \/ Auth!ServerError(r)
      PROVE  InStep'
  <2> SUFFICES ASSUME ~disturbed' PROVE InStep'
    BY DEF InStep
  <2>1. /\ ~disturbed /\ req[r].pc = "refreshing" /\ req[r].token = refresh
        /\ refresh' = refresh /\ expired' = expired
        /\ \A q \in Requests : q # r => ~Auth!Refreshing(q)
    <3>1. req[r].pc = "refreshing" /\ UNCHANGED <<refresh, expired, disturbed>>
      BY <1>3, Zenon DEF Auth!Rotate, Auth!ServerError, Auth!tokenVars
    <3>2. /\ \A q \in Requests : Auth!Refreshing(q) /\ Auth!Refreshing(r) => q = r
          /\ Holds(r)
      BY <3>1 DEF InStep
    <3> QED
      BY <3>1, <3>2 DEF Holds, Auth!Refreshing
  <2>2. CASE Auth!Set(r, "refused", req[r].token) /\ UNCHANGED Auth!serverVars
    <3>1. /\ req'[r].pc = "refused"
          /\ \A q \in Requests : q # r => req'[q] = req[q]
      BY <1>0, <2>2, SMTT(30) DEF Auth!Set
    <3> QED
      BY <2>1, <2>2, <3>1, Zenon
         DEF InStep, Holds, Auth!SessionKept, Auth!Refreshing, Auth!Live, Auth!serverVars
  <2>3. CASE /\ Auth!Set(r, "granted", issued + 1) /\ issued' = issued + 1
             /\ revoked' = revoked \cup {req[r].token}
    <3>1. /\ req'[r].pc = "granted" /\ req'[r].token = issued + 1
          /\ \A q \in Requests : q # r => req'[q] = req[q]
      BY <1>0, <2>3, Zenon DEF Auth!Set
    <3>2. issued + 1 \in 1 .. issued' /\ issued + 1 \notin revoked' /\ issued + 1 \notin expired'
      BY <1>0, <2>1, <2>3, SMTT(30)
    <3> QED
      BY <2>1, <3>1, <3>2, Zenon DEF InStep, Holds, Auth!SessionKept, Auth!Refreshing, Auth!Live
  <2> QED
    BY <1>3, <2>2, <2>3, Zenon DEF Auth!Rotate, Auth!ServerError, Auth!Issue
<1>4. ASSUME NEW r \in Requests, Auth!Granted(r) \/ Auth!Refused(r)
      PROVE  InStep'
  <2> SUFFICES ASSUME ~disturbed' PROVE InStep'
    BY DEF InStep
  <2>1. /\ ~disturbed
        /\ \A q \in Requests : q # r => ~Auth!Refreshing(q) /\ req'[q] = req[q]
        /\ ~Auth!Refreshing(r)'
    BY <1>0, <1>4, SMTT(30) DEF Auth!Granted, Auth!Refused, Auth!Set, InStep, Auth!Refreshing
  <2>2. refresh' = 0 \/ refresh' \in expired' \/ Auth!Live(refresh)'
    BY <1>4, <2>1, Zenon
       DEF Auth!Granted, Auth!Refused, Auth!SetTokens, Auth!serverVars, InStep, Holds, Auth!Live
  <2> QED
    BY <2>1, <2>2, Quiet, Zenon DEF Auth!Refreshing
<1>5. ASSUME NEW r \in Requests, Auth!Lost(r)
      PROVE  InStep'
  BY <1>5 DEF Auth!Lost, InStep
<1>6. CASE Auth!SignIn \/ Auth!SignedIn \/ Auth!SignOut \/ Auth!Mirror
  <2> SUFFICES ASSUME ~disturbed' PROVE InStep'
    BY SMTT(30) DEF InStep
  <2>1. ~disturbed /\ req' = req /\ \A q \in Requests : ~Auth!Refreshing(q)
    BY <1>6, Zenon DEF Auth!SignIn, Auth!SignedIn, Auth!SignOut, Auth!Mirror
  <2>2. refresh = 0 \/ refresh \in expired \/ Auth!Live(refresh)
    BY <2>1, Zenon DEF InStep, Auth!SessionKept, Auth!Refreshing
  <2>3. CASE Auth!SignIn \/ Auth!SignOut
    BY <2>1, <2>3, Quiet, Zenon DEF Auth!SignIn, Auth!SignOut, Auth!Refreshing
  <2>4. CASE Auth!SignedIn
    <3>1. CASE Auth!Issue(0, 0) /\ refresh' = issued + 1 /\ UNCHANGED <<revoked, expired>>
      <4>1. Auth!Live(refresh)'
        BY <1>0, <3>1, SMTT(30) DEF Auth!Issue, Auth!Live
      <4> QED
        BY <2>1, <4>1, Quiet, Zenon DEF Auth!Refreshing
    <3>2. CASE UNCHANGED <<Auth!serverVars, Auth!tokenVars, expired>>
      BY <2>1, <2>2, <3>2, Quiet, SMTT(30)
        DEF Auth!Refreshing, Auth!Live, Auth!serverVars, Auth!tokenVars
    <3> QED
      BY <2>4, <3>1, <3>2, Zenon DEF Auth!SignedIn, Auth!SetTokens
  <2>5. CASE Auth!Mirror
    <3>1. CASE refresh' = 0
      BY <2>1, <3>1, Quiet, Zenon DEF Auth!Refreshing
    <3>2. CASE refresh' = refresh /\ UNCHANGED <<Auth!serverVars, expired>>
      BY <2>1, <2>2, <3>2, Quiet, Zenon DEF Auth!Refreshing, Auth!Live, Auth!serverVars
    <3> QED
      BY <2>5, <3>1, <3>2, Zenon DEF Auth!Mirror, Auth!SetTokens
  <2> QED
    BY <1>6, <2>3, <2>4, <2>5, Zenon
<1>7. CASE Auth!PageRefresh
  BY <1>7, Zenon DEF Auth!PageRefresh, InStep
<1>8. CASE Auth!Restart
  <2> SUFFICES ASSUME ~disturbed' PROVE InStep'
    BY DEF InStep
  <2>1. ~disturbed /\ \A q \in Requests : ~Auth!Refreshing(q) /\ ~Auth!Refreshing(q)'
    BY <1>8, Zenon DEF Auth!Restart, Auth!Refreshing
  <2>2. refresh = 0 \/ refresh \in expired \/ Auth!Live(refresh)
    BY <2>1, Zenon DEF InStep, Auth!SessionKept, Auth!Refreshing
  <2> QED
    BY <1>8, <2>1, <2>2, Quiet, SMTT(30)
      DEF Auth!Restart, Auth!Live, Auth!serverVars, Auth!tokenVars
<1>9. ASSUME NEW t \in Auth!Tokens, Auth!RefreshExpires(t)
      PROVE  InStep'
  BY <1>9, Aside, Zenon DEF Auth!RefreshExpires, Auth!tokenVars
<1>10. CASE UNCHANGED Auth!vars
  BY <1>10, Aside DEF Auth!vars, Auth!serverVars
<1> QED
  BY <1>1, <1>2, <1>3, <1>4, <1>5, <1>6, <1>7, <1>8, <1>9, <1>10, Zenon DEF Auth!Next

-----------------------------------------------------------------------------
\* The invariant holds of every reachable state.
LEMMA SessionsInvariant ==
    ASSUME Bound
    PROVE  Auth!Spec => []SessionsIInv
<1>1. Auth!Init => SessionsIInv
  BY InitSessions
<1>2. SessionsIInv /\ [Auth!Next]_(Auth!vars) => SessionsIInv'
  <2> SUFFICES ASSUME SessionsIInv, [Auth!Next]_(Auth!vars) PROVE SessionsIInv'
    OBVIOUS
  <2>1. Server' /\ Auth!OneLiveSession' /\ issued <= issued'
    BY NextServer, ServerKept DEF SessionsIInv
  <2> QED
    BY <2>1, ClientKept, NoticesKept, InStepKept, Zenon DEF SessionsIInv
<1> QED
  BY <1>1, <1>2, PTL DEF Auth!Spec

\* However many requests and pages post the same refresh token, one gets a successor,
\* and a login has one live session (rotate_refresh_session).
THEOREM OneLiveSessionAlways ==
    ASSUME Bound
    PROVE  Auth!Spec => []Auth!OneLiveSession
<1>1. SessionsIInv => Auth!OneLiveSession
  BY DEF SessionsIInv
<1> QED
  BY <1>1, SessionsInvariant, PTL

\* A burst of refused refreshes shows one notice (notifySessionExpired).
THEOREM NoticeOnceAlways ==
    ASSUME Bound
    PROVE  Auth!Spec => []Auth!NoticeOnce
<1>1. SessionsIInv => Auth!NoticeOnce
  BY SMTT(30) DEF SessionsIInv, Notices, Auth!NoticeOnce
<1> QED
  BY <1>1, SessionsInvariant, PTL

\* Without overlapping refreshes, lost answers and pages that act by themselves the
\* stored refresh token is one the server takes (refreshAccessToken, setTokens).
THEOREM SessionKeptAlways ==
    ASSUME Bound
    PROVE  Auth!Spec => []Auth!SessionKept
<1>1. SessionsIInv => Auth!SessionKept
  BY DEF SessionsIInv, InStep, Auth!SessionKept
<1> QED
  BY <1>1, SessionsInvariant, PTL
=============================================================================

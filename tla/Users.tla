-------------------------------- MODULE Users -------------------------------
(***************************************************************************)
(* server.js: accounts in SQLite and the requests that use them.  Every    *)
(* request is a chain of callbacks: a statement or a bcrypt call is handed *)
(* to a thread, other requests run, and the callback goes on with what was *)
(* read before.  Statements of different requests, and those of one        *)
(* request that are not waited for, are executed in any order.             *)
(*                                                                         *)
(* SQLite and bcrypt are external.  The schema is not in the repository;   *)
(* the answer 409 shows that usernames are unique.  A new uid is one more  *)
(* than the largest in the table or, with AUTOINCREMENT, the largest ever. *)
(***************************************************************************)
EXTENDS Naturals, FiniteSets

CONSTANTS
  Client,       \* connections, each with one request at a time
  Username, Passphrase,
  Status,       \* the values of the column status
  Accounts,     \* the tables the server may start with
  None,
  MaxRequests,  \* bound: requests of a run
  MaxFaults     \* bound: statements or hashes that fail, and kills

(* The stamp is whose login wrote login_timestamp and device_info.         *)
Row == [username : Username, passphrase : Passphrase, status : Status,
        stamp : Username \cup {None}]

ASSUME UsersAssumption ==
  /\ None \notin Username \cup Nat
  /\ MaxRequests \in Nat /\ MaxFaults \in Nat
  /\ \A t \in Accounts :
       /\ Cardinality(DOMAIN t) \in Nat
       /\ DOMAIN t = 1 .. Cardinality(DOMAIN t)
       /\ \A u \in DOMAIN t : t[u] \in Row /\ t[u].stamp \in {t[u].username, None}
       /\ \A u, v \in DOMAIN t : t[u].username = t[v].username => u = v

VARIABLES
  users,    \* the table: uid -> row
  attempts, \* the table login_attempts: the INSERTs executed
  pending,  \* statements nobody waits for, not executed yet
  req,      \* the request of each client
  count,    \* number of requests so far
  faults,
  (* history *)
  top,      \* largest uid given so far
  reused,   \* uids given more than once
  entitled, \* clients whose username and passphrase were those of an active
            \* account at some time since their request came
  logins,   \* answered logins: number of the request, success, and the
            \* account its query returned, or None
  lost      \* requests that a statement was lost of

tables  == <<users, attempts, pending>>
history == <<top, reused, entitled, logins, lost>>
vars    == <<tables, req, count, faults, history>>

Uid == Nat \ {0}

(* A statement that a login does not wait for is known by the number of    *)
(* the request and its place among the statements of that request: two     *)
(* INSERTs of the same values are two rows.                                *)
Nth == 1 .. 2
Attempt == [number : 1 .. MaxRequests, nth : Nth, uid : Uid \cup {None},
            username : Username, success : BOOLEAN]
Stamp == [number : 1 .. MaxRequests, nth : Nth, uid : Uid, by : Username]

Free == [kind |-> "none", at |-> "idle", number |-> 0, username |-> None,
         passphrase |-> None, status |-> None, uid |-> None, hash |-> None]

TypeOK ==
  /\ \A u \in DOMAIN users :
       /\ u \in 1 .. top
       /\ users[u] \in Row
       /\ \A v \in DOMAIN users \ {u} : users[u].username # users[v].username
  /\ attempts \subseteq Attempt
  /\ pending \subseteq Attempt \cup Stamp
  /\ \A c \in Client :
       /\ req[c].at \in {"idle", "hash", "statement", "none", "found", "failed", "done"}
       /\ req[c].number \in 0 .. count
       /\ req[c].at = "found" => req[c].hash \in Passphrase /\ req[c].uid \in 1 .. top

(* The database is as the last run left it.                                *)
Init ==
  /\ users \in Accounts
  /\ attempts = {} /\ pending = {}
  /\ req = [c \in Client |-> Free]
  /\ count = 0 /\ faults = 0
  /\ top = Cardinality(DOMAIN users)
  /\ reused = {} /\ entitled = {} /\ logins = {} /\ lost = {}

-----------------------------------------------------------------------------
Becomes(c, r) == req' = [req EXCEPT ![c] = r]
Moves(c, at)  == Becomes(c, [req[c] EXCEPT !.at = at])
At(c, kinds, at) == req[c].kind \in kinds /\ req[c].at = at
Fault == faults < MaxFaults /\ faults' = faults + 1

(* Would this login succeed with such a row?                               *)
Opens(r, row) ==
  /\ r.username = row.username /\ r.passphrase = row.passphrase
  /\ row.status = "active"

Arrives(c, r) ==
  /\ req[c] = Free /\ count < MaxRequests
  /\ count' = count + 1
  /\ Becomes(c, [r EXCEPT !.number = count + 1])
  /\ UNCHANGED <<tables, faults, top, reused, logins, lost>>

(* POST /register and POST /api/users (which has a default) take the       *)
(* status from the request and hash the passphrase before they insert.     *)
Register(c, n, p, s) ==
  /\ Arrives(c, [Free EXCEPT !.kind = "register", !.at = "hash", !.username = n,
                             !.passphrase = p, !.status = s])
  /\ UNCHANGED entitled

(* /login asks for the row of that name.                                   *)
Login(c, n, p) ==
  LET r == [Free EXCEPT !.kind = "login", !.at = "statement",
                        !.username = n, !.passphrase = p]
  IN  /\ Arrives(c, r)
      /\ entitled' = IF \E u \in DOMAIN users : Opens(r, users[u])
                     THEN entitled \cup {c} ELSE entitled

Delete(c, u) ==
  /\ Arrives(c, [Free EXCEPT !.kind = "delete", !.at = "statement", !.uid = u])
  /\ UNCHANGED entitled

-----------------------------------------------------------------------------
(* Threads execute statements                                              *)

Rows(n, s) == {u \in DOMAIN users : users[u].username = n /\ users[u].status \in s}

Looked(c, found) ==
  /\ At(c, {"login"}, "statement")
  /\ \/ found = {} /\ Moves(c, "none")
     \/ \E u \in found :
          Becomes(c, [req[c] EXCEPT !.at = "found", !.uid = u,
                                    !.hash = users[u].passphrase])
  /\ UNCHANGED <<tables, count, faults, history>>

(* Mutant: the status is not asked for.                                    *)
SelectAnyStatus(c) == Looked(c, Rows(req[c].username, {"active", "off"}))

(* The row found is what the rest of the login works with.                 *)
Select(c) == Looked(c, Rows(req[c].username, {"active"}))

(* The hash is ready and its callback asks for the insertion.              *)
Hashed(c) ==
  /\ At(c, {"register"}, "hash") /\ Moves(c, "statement")
  /\ UNCHANGED <<tables, count, faults, history>>

Taken(n) == \E u \in DOMAIN users : users[u].username = n

(* One more than the largest uid in the table, or than the largest ever.   *)
NewUids ==
  {top + 1} \cup
  {u \in 1 .. top : /\ \A v \in DOMAIN users : v < u
                    /\ u = 1 \/ u - 1 \in DOMAIN users}

Insert(c) ==
  LET r == req[c]
      row == [username |-> r.username, passphrase |-> r.passphrase,
              status |-> r.status, stamp |-> None]
  IN  /\ At(c, {"register"}, "statement")
      /\ ~Taken(r.username)
      /\ \E u \in NewUids :
           /\ users' = [v \in DOMAIN users \cup {u} |-> IF v = u THEN row ELSE users[v]]
           /\ IF u <= top THEN reused' = reused \cup {u} /\ top' = top
                          ELSE reused' = reused /\ top' = u
      /\ Moves(c, "done")
      /\ entitled' = entitled \cup
           {d \in Client : req[d].kind = "login" /\ Opens(req[d], row)}
      /\ UNCHANGED <<attempts, pending, count, faults, logins, lost>>

(* UNIQUE constraint failed                                                *)
InsertRefused(c) ==
  /\ At(c, {"register"}, "statement") /\ Taken(req[c].username)
  /\ Moves(c, "done")
  /\ UNCHANGED <<tables, count, faults, history>>

DeleteRow(c) ==
  /\ At(c, {"delete"}, "statement") /\ Moves(c, "done")
  /\ users' = [u \in DOMAIN users \ {req[c].uid} |-> users[u]]
  /\ UNCHANGED <<attempts, pending, count, faults, history>>

(* A hash or a statement somebody waits for fails.                         *)
Fails(c) ==
  /\ Fault
  /\ req[c].at \in {"hash", "statement"} /\ Moves(c, "failed")
  /\ UNCHANGED <<tables, count, history>>

(* Mutant: the WHERE clause is missing.                                    *)
StampedAll(s) == [u \in DOMAIN users |-> [users[u] EXCEPT !.stamp = s.by]]

(* UPDATE users ... WHERE uid = ?                                          *)
Stamped(s) ==
  [u \in DOMAIN users |->
     IF u = s.uid THEN [users[u] EXCEPT !.stamp = s.by] ELSE users[u]]

(* A statement nobody waits for                                            *)
Execute(s) ==
  /\ s \in pending
  /\ pending' = pending \ {s}
  /\ IF s \in Attempt
     THEN attempts' = attempts \cup {s} /\ UNCHANGED users
     ELSE users' = Stamped(s) /\ UNCHANGED attempts
  /\ UNCHANGED <<req, count, faults, history>>

ExecuteFails(s) ==
  /\ Fault
  /\ s \in pending
  /\ pending' = pending \ {s}
  /\ lost' = IF s \in Attempt THEN lost \cup {s.number} ELSE lost
  /\ UNCHANGED <<users, attempts, req, count, top, reused, entitled, logins>>

-----------------------------------------------------------------------------
(* Callbacks                                                               *)

(* INSERT INTO login_attempts, the nth statement of the request            *)
Insertion(r, nth, uid, success) ==
  [number |-> r.number, nth |-> nth, uid |-> uid, username |-> r.username,
   success |-> success]

(* UPDATE users after a login                                              *)
Update(r, nth) ==
  [number |-> r.number, nth |-> nth, uid |-> r.uid, by |-> r.username]

(* A login is answered; what is to be written is not waited for.           *)
AnswerLogin(c, success, statements) ==
  LET r == req[c]
  IN  /\ pending' = pending \cup statements
      /\ logins' = logins \cup
           {[number |-> r.number, success |-> success, entitled |-> c \in entitled,
             found |-> IF r.at = "found" THEN r.uid ELSE None]}
      /\ Becomes(c, Free)
      /\ entitled' = entitled \ {c}
      /\ UNCHANGED <<users, attempts, count, top, reused, lost>>

(* Mutant: the row gets a uid that no account has.                         *)
LoginNoneZero(c) ==
  /\ req[c].kind = "login" /\ req[c].at \in {"none", "failed"}
  /\ AnswerLogin(c, FALSE, {Insertion(req[c], 1, 0, FALSE)})
  /\ UNCHANGED faults

(* Mutant: no return after a failed query, so the row is inserted twice.   *)
LoginNoneGoesOn(c) ==
  /\ req[c].kind = "login" /\ req[c].at \in {"none", "failed"}
  /\ AnswerLogin(c, FALSE, {Insertion(req[c], nth, None, FALSE) :
                              nth \in IF req[c].at = "failed" THEN {1, 2} ELSE {1}})
  /\ UNCHANGED faults

(* No such active account, or the query failed.                            *)
LoginNone(c) ==
  /\ req[c].kind = "login" /\ req[c].at \in {"none", "failed"}
  /\ AnswerLogin(c, FALSE, {Insertion(req[c], 1, None, FALSE)})
  /\ UNCHANGED faults

(* bcrypt.compare ends; an error counts as no match.                       *)
LoginRefused(c) ==
  /\ At(c, {"login"}, "found")
  /\ \/ req[c].hash # req[c].passphrase /\ UNCHANGED faults
     \/ Fault
  /\ AnswerLogin(c, FALSE, {Insertion(req[c], 1, req[c].uid, FALSE)})

LoginAccepted(c) ==
  /\ At(c, {"login"}, "found") /\ req[c].hash = req[c].passphrase
  /\ AnswerLogin(c, TRUE, {Update(req[c], 1), Insertion(req[c], 2, req[c].uid, TRUE)})
  /\ UNCHANGED faults

(* Mutant: no answer when the statement failed.                            *)
AnswerOnSuccess(c) ==
  /\ req[c].at = "done" /\ Becomes(c, Free)
  /\ UNCHANGED <<tables, count, faults, history>>

(* The other requests are answered with what their statement returned.     *)
Answer(c) ==
  /\ \/ req[c].at = "done"
     \/ req[c].at = "failed" /\ req[c].kind # "login"
  /\ Becomes(c, Free)
  /\ UNCHANGED <<tables, count, faults, history>>

(* The process dies and is started again: the tables stay.                 *)
Kill ==
  /\ Fault
  /\ pending' = {} /\ req' = [c \in Client |-> Free]
  /\ lost' = lost \cup {s.number : s \in pending \cap Attempt}
  /\ entitled' = {}
  /\ UNCHANGED <<users, attempts, count, top, reused, logins>>

-----------------------------------------------------------------------------
Handles(c) ==
  \/ Select(c) \/ Hashed(c) \/ Insert(c) \/ InsertRefused(c) \/ DeleteRow(c)
  \/ LoginNone(c) \/ LoginRefused(c) \/ LoginAccepted(c)
  \/ Answer(c)

Next ==
  \/ \E c \in Client :
       \/ \E n \in Username, p \in Passphrase :
            \/ Login(c, n, p)
            \/ \E s \in Status : Register(c, n, p, s)
       \/ \E u \in 1 .. top : Delete(c, u)
       \/ Handles(c) \/ Fails(c)
  \/ \E s \in pending : Execute(s) \/ ExecuteFails(s)
  \/ Kill

Spec == Init /\ [][Next]_vars

(* The thread pool and the event loop go on while there is work.           *)
FairSpec ==
  /\ Spec
  /\ \A c \in Client : WF_vars(Handles(c))
  /\ WF_vars(\E s \in pending : Execute(s))

-----------------------------------------------------------------------------
(* Properties                                                              *)

(* Whatever is deleted and added while a login waits for the table and for *)
(* bcrypt, it succeeds only if at some time since it came there was an     *)
(* active account of that name with that passphrase: a login that comes    *)
(* after the deletion is refused, one of a disabled account always.        *)
LoginJustified == \A l \in logins : l.success => l.entitled

(* Every answered login leaves exactly one row in login_attempts: of the   *)
(* outcome it was answered with, and naming the account that was found for *)
(* it, none if none was.  Only a statement that failed, or a kill before   *)
(* it was executed, loses the row, and nothing else writes one.            *)
AuditExact ==
  LET rows == attempts \cup (pending \cap Attempt)
      Of(l) == {a \in rows : a.number = l.number}
  IN  /\ \A l \in logins :
           /\ Cardinality(Of(l)) = IF l.number \in lost THEN 0 ELSE 1
           /\ \A a \in Of(l) : a.success = l.success /\ a.uid = l.found
      /\ \A a \in rows : \E l \in logins : a.number = l.number

(* The time and device of a login are written to the account that logged   *)
(* in: to another one only when its uid was given again meanwhile.         *)
StampsOwnRow ==
  \A u \in DOMAIN users \ reused :
    users[u].stamp \in Username => users[u].stamp = users[u].username

(* Every request is answered, however its hash and its statements end.     *)
EveryRequestAnswered == \A c \in Client : req[c] # Free ~> req[c] = Free
=============================================================================

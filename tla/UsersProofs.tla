---------------------------- MODULE UsersProofs -----------------------------
(***************************************************************************)
(* Proofs about Users, for any number of clients, any accounts at the      *)
(* start and any number of requests and faults: what a login may succeed   *)
(* for, what it leaves in login_attempts, and which row it stamps.         *)
(***************************************************************************)
EXTENDS Users, FiniteSetTheorems, TLAPS

Req == [kind : {"none", "register", "login", "delete"},
        at : {"idle", "hash", "statement", "none", "found", "failed", "done"},
        number : Nat, username : Username \cup {None},
        passphrase : Passphrase \cup {None}, status : Status \cup {None},
        uid : Nat \cup {None}, hash : Passphrase \cup {None}]

OkReq(r) ==
  /\ r \in Req
  /\ r.kind \in {"register", "login"} =>
       r.username \in Username /\ r.passphrase \in Passphrase
  /\ r.kind = "register" => r.status \in Status
  /\ r.kind = "login" => r.number \in 1 .. count
  /\ r.at = "found" => r.kind = "login" /\ r.uid \in 1 .. top

ReqInv == req \in [Client -> Req] /\ \A c \in Client : OkReq(req[c])

TablesInv ==
  /\ top \in Nat /\ count \in 0 .. MaxRequests
  /\ \A u \in DOMAIN users : u \in 1 .. top /\ users[u] \in Row
  /\ attempts \subseteq Attempt
  /\ \A s \in pending \ Attempt : s \in Stamp /\ s.uid \in 1 .. top

(* A login that an account opens while it waits for the table, or whose    *)
(* hash it was given, is entitled.                                         *)
EntitledInv ==
  /\ \A c \in Client :
       req[c].kind = "login" =>
         /\ req[c].at = "statement" /\ (\E u \in DOMAIN users : Opens(req[c], users[u]))
              => c \in entitled
         /\ req[c].at = "found" /\ req[c].hash = req[c].passphrase => c \in entitled
  /\ LoginJustified

(* A uid that a login or a statement remembers is that of the account it   *)
(* was looked up for, or was given again, or has no row any more.          *)
OwnInv ==
  /\ \A c \in Client :
       req[c].at = "found" /\ req[c].uid \in DOMAIN users \ reused
         => users[req[c].uid].username = req[c].username
  /\ \A s \in pending \ Attempt :
       s.uid \in DOMAIN users \ reused => users[s.uid].username = s.by
  /\ StampsOwnRow

(* The rows of login_attempts, written or about to be                      *)
All == attempts \cup (pending \cap Attempt)

(* A login under way has no row yet and shares its number with nobody; an  *)
(* answered one has its row and only that, or lost it.                     *)
AuditInv ==
  /\ attempts \cap pending = {}
  /\ \A a \in All : \E l \in logins : l.number = a.number
  /\ \A n \in lost : \E l \in logins : l.number = n
  /\ \A l \in logins : l.number \in 1 .. count
  /\ \A c \in Client : req[c].kind = "login" =>
       /\ \A l \in logins : l.number # req[c].number
       /\ \A d \in Client \ {c} : req[d].kind = "login" => req[d].number # req[c].number
  /\ \A l \in logins :
       /\ l.number \notin lost => \E a \in All : a.number = l.number
       /\ l.number \in lost => \A a \in All : a.number # l.number
       /\ \A a, b \in All : a.number = l.number /\ b.number = l.number => a = b
       /\ \A a \in All : a.number = l.number => a.success = l.success /\ a.uid = l.found

IInv == ReqInv /\ TablesInv /\ EntitledInv /\ OwnInv /\ AuditInv

-----------------------------------------------------------------------------
(* Requests                                                                *)

LEMMA FreeOk == OkReq(Free) /\ Free.kind = "none" /\ Free.at = "idle"
BY DEF OkReq, Free, Req

(* One request changes, and numbers and uids only grow.                    *)
LEMMA ReqStep ==
  ASSUME ReqInv, TablesInv, NEW c \in Client, NEW r, Becomes(c, r),
         count' \in Nat, top' \in Nat, count <= count', top <= top',
         r \in Req,
         r.kind \in {"register", "login"} =>
           r.username \in Username /\ r.passphrase \in Passphrase,
         r.kind = "register" => r.status \in Status,
         r.kind = "login" => r.number \in 1 .. count',
         r.at = "found" => r.kind = "login" /\ r.uid \in 1 .. top'
  PROVE  ReqInv'
<1>1. req' = [req EXCEPT ![c] = r] /\ req \in [Client -> Req]
  BY DEF Becomes, ReqInv
<1>2. req' \in [Client -> Req] BY <1>1
<1>3. count \in Nat /\ top \in Nat BY DEF TablesInv
<1>4. ASSUME NEW d \in Client PROVE OkReq(req[d])'
  <2>1. CASE d = c
    <3>1. req'[d] = r BY <1>1, <2>1
    <3> QED BY <3>1 DEF OkReq
  <2>2. CASE d # c
    <3>1. req'[d] = req[d] BY <1>1, <2>2
    <3>2. OkReq(req[d]) BY DEF ReqInv
    <3>3. \A n \in Nat : n \in 1 .. count => n \in 1 .. count' BY <1>3
    <3>4. \A n \in Nat \cup {None} : n \in 1 .. top => n \in 1 .. top' BY <1>3
    <3>5. req[d].number \in Nat /\ req[d].uid \in Nat \cup {None} BY <3>2 DEF OkReq, Req
    <3> QED BY <3>1, <3>2, <3>3, <3>4, <3>5 DEF OkReq
  <2> QED BY <2>1, <2>2
<1> QED BY <1>2, <1>4 DEF ReqInv

(* A request that ends, or goes on to a state in which it remembers        *)
(* nothing of the tables, while nothing else changes.                      *)
LEMMA QuietStep ==
  ASSUME IInv, NEW c \in Client, NEW r, Becomes(c, r), OkReq(r), r.at # "found",
         r.kind = "login" => r.at # "statement" /\ req[c].kind = "login"
                             /\ r.number = req[c].number,
         UNCHANGED <<tables, count, history>>
  PROVE  IInv'
<1> USE DEF tables, history
<1>1. req' = [req EXCEPT ![c] = r] /\ req \in [Client -> Req]
  BY DEF Becomes, IInv, ReqInv
<1>2. req'[c] = r /\ \A d \in Client \ {c} : req'[d] = req[d]
  BY <1>1
<1>3. ReqInv'
  <2>1. count \in Nat /\ top \in Nat BY DEF IInv, TablesInv
  <2> QED BY <2>1, ReqStep DEF OkReq, IInv
<1>4. TablesInv' BY DEF IInv, TablesInv
<1>5. EntitledInv'
  BY <1>2 DEF IInv, EntitledInv, LoginJustified, Opens
<1>6. OwnInv' BY <1>2 DEF IInv, OwnInv, StampsOwnRow
<1>7. All' = All BY DEF All
<1>8. AuditInv' BY <1>2, <1>7 DEF IInv, AuditInv
<1> QED BY <1>3, <1>4, <1>5, <1>6, <1>8 DEF IInv

(* A request arrives: its number is new.                                   *)
LEMMA ArrivesStep ==
  ASSUME IInv, NEW c \in Client, NEW r, Arrives(c, r), r \in Req, r.at # "found",
         r.kind \in {"register", "login"} =>
           r.username \in Username /\ r.passphrase \in Passphrase,
         r.kind = "register" => r.status \in Status,
         entitled \subseteq entitled',
         r.kind = "login" /\ (\E u \in DOMAIN users : Opens(r, users[u]))
           => c \in entitled'
  PROVE  IInv'
<1> DEFINE q == [r EXCEPT !.number = count + 1]
<1> USE DEF tables
<1>1. /\ Becomes(c, q) /\ count' = count + 1 /\ count < MaxRequests
      /\ UNCHANGED <<users, attempts, pending, top, reused, logins, lost>>
  BY DEF Arrives
<1>2. count \in Nat /\ top \in Nat /\ MaxRequests \in Nat
  BY UsersAssumption DEF IInv, TablesInv
<1>3. /\ q \in Req /\ q.at = r.at /\ q.kind = r.kind /\ q.number = count + 1
      /\ q.username = r.username /\ q.passphrase = r.passphrase /\ q.status = r.status
  BY <1>2 DEF Req
<1> HIDE DEF q
<1>4. req' = [req EXCEPT ![c] = q] /\ req \in [Client -> Req]
  BY <1>1 DEF Becomes, IInv, ReqInv
<1>5. req'[c] = q /\ \A d \in Client \ {c} : req'[d] = req[d]
  BY <1>4
<1>6. ReqInv' BY <1>1, <1>2, <1>3, ReqStep DEF IInv
<1>7. TablesInv' BY <1>1, <1>2 DEF IInv, TablesInv
<1>8. EntitledInv'
  <2>1. LoginJustified' BY <1>1 DEF IInv, EntitledInv, LoginJustified
  <2>2. ASSUME NEW d \in Client, req'[d].kind = "login"
        PROVE  /\ req'[d].at = "statement" /\ (\E u \in DOMAIN users' : Opens(req'[d], users'[u]))
                    => d \in entitled'
               /\ req'[d].at = "found" /\ req'[d].hash = req'[d].passphrase => d \in entitled'
    <3>1. CASE d = c
      <4>1. \A row : Opens(q, row) => Opens(r, row) BY <1>3 DEF Opens
      <4> QED BY <1>1, <1>3, <1>5, <2>2, <3>1, <4>1
    <3>2. CASE d # c
      <4>1. req'[d] = req[d] BY <1>5, <3>2
      <4> QED BY <1>1, <2>2, <4>1 DEF IInv, EntitledInv
    <3> QED BY <3>1, <3>2
  <2> QED BY <2>1, <2>2 DEF EntitledInv, Opens
<1>9. OwnInv' BY <1>1, <1>3, <1>5 DEF IInv, OwnInv, StampsOwnRow
<1>10. AuditInv'
  <2>1. All' = All BY <1>1 DEF All
  <2>2. \A n \in 1 .. count : n \in 1 .. count' /\ n # count + 1 BY <1>1, <1>2
  <2>3. \A d \in Client : req[d].kind = "login" => req[d].number \in 1 .. count
    BY DEF IInv, ReqInv, OkReq
  <2> QED BY <1>1, <1>3, <1>5, <2>1, <2>2, <2>3 DEF IInv, AuditInv
<1> QED BY <1>6, <1>7, <1>8, <1>9, <1>10 DEF IInv

-----------------------------------------------------------------------------
(* Arrivals                                                                *)

LEMMA RegisterStep ==
  ASSUME IInv, NEW c \in Client, NEW n \in Username, NEW p \in Passphrase,
         NEW s \in Status, Register(c, n, p, s)
  PROVE  IInv'
<1> DEFINE r == [Free EXCEPT !.kind = "register", !.at = "hash", !.username = n,
                             !.passphrase = p, !.status = s]
<1>1. /\ r \in Req /\ r.kind = "register" /\ r.at = "hash"
      /\ r.username = n /\ r.passphrase = p /\ r.status = s
  BY DEF Free, Req
<1>2. Arrives(c, r) /\ entitled' = entitled BY DEF Register
<1> HIDE DEF r
<1> QED BY <1>1, <1>2, ArrivesStep

LEMMA LoginStep ==
  ASSUME IInv, NEW c \in Client, NEW n \in Username, NEW p \in Passphrase, Login(c, n, p)
  PROVE  IInv'
<1> DEFINE r == [Free EXCEPT !.kind = "login", !.at = "statement",
                             !.username = n, !.passphrase = p]
<1>1. /\ r \in Req /\ r.kind = "login" /\ r.at = "statement"
      /\ r.username = n /\ r.passphrase = p
  BY DEF Free, Req
<1>2. /\ Arrives(c, r)
      /\ entitled' = IF \E u \in DOMAIN users : Opens(r, users[u])
                     THEN entitled \cup {c} ELSE entitled
  BY DEF Login
<1> HIDE DEF r
<1>3. entitled \subseteq entitled' BY <1>2
<1>4. (\E u \in DOMAIN users : Opens(r, users[u])) => c \in entitled' BY <1>2
<1> QED BY <1>1, <1>2, <1>3, <1>4, ArrivesStep

LEMMA DeleteStep ==
  ASSUME IInv, NEW c \in Client, NEW u \in 1 .. top, Delete(c, u)
  PROVE  IInv'
<1> DEFINE r == [Free EXCEPT !.kind = "delete", !.at = "statement", !.uid = u]
<1>1. top \in Nat BY DEF IInv, TablesInv
<1>2. u \in Nat BY <1>1
<1>3. r \in Req /\ r.kind = "delete" /\ r.at = "statement"
  BY <1>2 DEF Free, Req
<1>4. Arrives(c, r) /\ entitled' = entitled BY DEF Delete
<1> HIDE DEF r
<1> QED BY <1>3, <1>4, ArrivesStep

-----------------------------------------------------------------------------
(* Statements                                                              *)

(* A change of at keeps the rest of a request.                             *)
LEMMA MovesOk ==
  ASSUME IInv, NEW c \in Client,
         NEW at \in {"hash", "statement", "none", "failed", "done"},
         NEW r, r = [req[c] EXCEPT !.at = at]
  PROVE  OkReq(r) /\ r.at = at /\ r.kind = req[c].kind /\ r.number = req[c].number
<1>1. OkReq(req[c]) BY DEF IInv, ReqInv
<1>2. req[c] \in Req BY <1>1 DEF OkReq
<1>3. /\ r.kind = req[c].kind /\ r.at = at /\ r.number = req[c].number
      /\ r.username = req[c].username /\ r.passphrase = req[c].passphrase
      /\ r.status = req[c].status /\ r.uid = req[c].uid
  BY <1>2 DEF Req
<1>4. r \in Req BY <1>2 DEF Req
<1>5. OkReq(r) BY <1>1, <1>3, <1>4 DEF OkReq
<1> QED BY <1>3, <1>5

LEMMA MovesStep ==
  ASSUME IInv, NEW c \in Client,
         NEW at \in {"statement", "none", "failed", "done"}, Moves(c, at),
         at = "statement" => req[c].kind # "login",
         UNCHANGED <<tables, count, history>>
  PROVE  IInv'
<1> DEFINE r == [req[c] EXCEPT !.at = at]
<1>1. Becomes(c, r) BY DEF Moves
<1>2. r = [req[c] EXCEPT !.at = at] OBVIOUS
<1> HIDE DEF r
<1>3. OkReq(r) /\ r.at = at /\ r.kind = req[c].kind /\ r.number = req[c].number
  BY <1>2, MovesOk
<1> QED BY <1>1, <1>3, QuietStep

(* The row that is found says whether the login is entitled.               *)
LEMMA SelectStep ==
  ASSUME IInv, NEW c \in Client, Select(c)
  PROVE  IInv'
<1>1. /\ req[c].kind = "login" /\ req[c].at = "statement"
      /\ UNCHANGED <<tables, count, faults, history>>
  BY DEF Select, Looked, At
<1>2. CASE Moves(c, "none") BY <1>1, <1>2, MovesStep
<1>3. ASSUME NEW u \in Rows(req[c].username, {"active"}),
             Becomes(c, [req[c] EXCEPT !.at = "found", !.uid = u,
                                       !.hash = users[u].passphrase])
      PROVE  IInv'
  <2> DEFINE r == [req[c] EXCEPT !.at = "found", !.uid = u, !.hash = users[u].passphrase]
  <2> USE DEF tables, history
  <2>1. /\ u \in DOMAIN users /\ u \in 1 .. top /\ u \in Nat /\ users[u] \in Row
        /\ users[u].username = req[c].username /\ users[u].status = "active"
    BY DEF Rows, IInv, TablesInv
  <2>2. OkReq(req[c]) BY DEF IInv, ReqInv
  <2>3. /\ r \in Req /\ r.at = "found" /\ r.kind = "login" /\ r.number = req[c].number
        /\ r.username = req[c].username /\ r.passphrase = req[c].passphrase
        /\ r.uid = u /\ r.hash = users[u].passphrase
    BY <1>1, <2>1, <2>2 DEF OkReq, Req, Row
  <2>4. req' = [req EXCEPT ![c] = r] /\ req \in [Client -> Req] /\ Becomes(c, r)
    BY <1>3 DEF Becomes, IInv, ReqInv
  <2> HIDE DEF r
  <2>5. req'[c] = r /\ \A d \in Client \ {c} : req'[d] = req[d] BY <2>4
  <2>6. ReqInv'
    <3>1. count' = count /\ top' = top /\ count \in Nat /\ top \in Nat
      BY <1>1 DEF IInv, TablesInv
    <3> QED BY <1>1, <2>1, <2>2, <2>3, <2>4, <3>1, ReqStep DEF OkReq, IInv
  <2>7. TablesInv' BY <1>1 DEF IInv, TablesInv
  <2>8. EntitledInv'
    <3>1. r.hash = r.passphrase => c \in entitled
      BY <1>1, <2>1, <2>3 DEF IInv, EntitledInv, Opens
    <3> QED BY <1>1, <2>3, <2>5, <3>1 DEF IInv, EntitledInv, LoginJustified, Opens
  <2>9. OwnInv' BY <1>1, <2>1, <2>3, <2>5 DEF IInv, OwnInv, StampsOwnRow
  <2>10. All' = All BY <1>1 DEF All
  <2>11. AuditInv' BY <1>1, <2>3, <2>5, <2>10 DEF IInv, AuditInv
  <2> QED BY <2>6, <2>7, <2>8, <2>9, <2>11 DEF IInv
<1> QED BY <1>2, <1>3 DEF Select, Looked

(* A step in which requests and login_attempts stay as they are but for    *)
(* requests that move on to no row of their own.                           *)
LEMMA AuditKept ==
  ASSUME AuditInv, All' = All, UNCHANGED <<attempts, pending, count, logins, lost>>,
         \A c \in Client : req'[c].kind = "login" =>
            req[c].kind = "login" /\ req'[c].number = req[c].number
  PROVE  AuditInv'
BY DEF AuditInv

(* An account is added under a uid nobody remembers, unless it is reused.  *)
LEMMA InsertStep ==
  ASSUME IInv, NEW c \in Client, Insert(c)
  PROVE  IInv'
<1> DEFINE row == [username |-> req[c].username, passphrase |-> req[c].passphrase,
                   status |-> req[c].status, stamp |-> None]
           r == [req[c] EXCEPT !.at = "done"]
<1>1. /\ req[c].kind = "register" /\ Becomes(c, r)
      /\ entitled' = entitled \cup
           {d \in Client : req[d].kind = "login" /\ Opens(req[d], row)}
      /\ UNCHANGED <<attempts, pending, count, faults, logins, lost>>
  BY DEF Insert, At, Moves
<1>2. PICK u \in NewUids :
        /\ users' = [v \in DOMAIN users \cup {u} |-> IF v = u THEN row ELSE users[v]]
        /\ IF u <= top THEN reused' = reused \cup {u} /\ top' = top
                       ELSE reused' = reused /\ top' = u
  BY DEF Insert
<1>3. OkReq(r) /\ r.at = "done" /\ r.kind = "register" BY <1>1, MovesOk
<1>4. row \in Row /\ row.username = req[c].username /\ row.stamp = None
  BY <1>1 DEF IInv, ReqInv, OkReq, Row
<1>5. top \in Nat /\ count \in Nat BY DEF IInv, TablesInv
<1>6. u \in 1 .. top' /\ top' \in Nat /\ top <= top' /\ (u \in 1 .. top => u \in reused')
      /\ reused \subseteq reused'
  BY <1>2, <1>5 DEF NewUids
<1> HIDE DEF r, row
<1>7. req' = [req EXCEPT ![c] = r] /\ req \in [Client -> Req]
  BY <1>1 DEF Becomes, IInv, ReqInv
<1>8. req'[c] = r /\ \A d \in Client \ {c} : req'[d] = req[d] BY <1>7
<1>9. /\ DOMAIN users' = DOMAIN users \cup {u} /\ users'[u] = row
      /\ \A v \in DOMAIN users \ {u} : users'[v] = users[v]
  BY <1>2
<1>10. ReqInv' BY <1>1, <1>3, <1>5, <1>6, ReqStep DEF OkReq, IInv
<1>11. TablesInv'
  <2>1. \A v \in Nat : v \in 1 .. top => v \in 1 .. top' BY <1>5, <1>6
  <2>2. \A v \in DOMAIN users' : v \in 1 .. top' /\ users'[v] \in Row
    BY <1>4, <1>5, <1>6, <1>9, <2>1 DEF IInv, TablesInv
  <2>3. \A s \in pending \ Attempt : s \in Stamp /\ s.uid \in 1 .. top'
    BY <1>5, <2>1 DEF IInv, TablesInv
  <2> QED BY <1>1, <1>6, <2>2, <2>3 DEF IInv, TablesInv
<1>12. EntitledInv'
  <2>1. LoginJustified' BY <1>1 DEF IInv, EntitledInv, LoginJustified
  <2>2. ASSUME NEW d \in Client, req'[d].kind = "login"
        PROVE  /\ d # c /\ req'[d] = req[d] /\ entitled \subseteq entitled'
               /\ Opens(req[d], row) => d \in entitled'
    BY <1>1, <1>3, <1>8, <2>2
  <2>3. ASSUME NEW d \in Client, req'[d].kind = "login", req'[d].at = "statement",
               NEW v \in DOMAIN users', Opens(req'[d], users'[v])
        PROVE  d \in entitled'
    <3>1. CASE v = u BY <1>9, <2>2, <2>3, <3>1
    <3>2. CASE v # u
      <4>1. v \in DOMAIN users /\ users'[v] = users[v] BY <1>9, <3>2
      <4> QED BY <2>2, <2>3, <4>1 DEF IInv, EntitledInv
    <3> QED BY <3>1, <3>2
  <2>4. ASSUME NEW d \in Client, req'[d].kind = "login", req'[d].at = "found",
               req'[d].hash = req'[d].passphrase
        PROVE  d \in entitled'
    BY <2>2, <2>4 DEF IInv, EntitledInv
  <2> QED BY <2>1, <2>3, <2>4 DEF EntitledInv, Opens
<1>13. OwnInv'
  <2>1. \A v \in 1 .. top : v \in DOMAIN users' \ reused' =>
          v \in DOMAIN users \ reused /\ users'[v] = users[v]
    BY <1>6, <1>9
  <2>2. ASSUME NEW d \in Client, req'[d].at = "found",
               req'[d].uid \in DOMAIN users' \ reused'
        PROVE  users'[req'[d].uid].username = req'[d].username
    <3>1. req'[d] = req[d] /\ req[d].uid \in 1 .. top
      BY <1>3, <1>8, <2>2 DEF IInv, ReqInv, OkReq
    <3> QED BY <2>1, <2>2, <3>1 DEF IInv, OwnInv
  <2>3. ASSUME NEW s \in pending \ Attempt, s.uid \in DOMAIN users' \ reused'
        PROVE  users'[s.uid].username = s.by
    <3>1. s.uid \in 1 .. top BY DEF IInv, TablesInv
    <3> QED BY <2>1, <2>3, <3>1 DEF IInv, OwnInv
  <2>4. ASSUME NEW v \in DOMAIN users' \ reused', users'[v].stamp \in Username
        PROVE  users'[v].stamp = users'[v].username
    <3>1. v # u BY <1>4, <1>9, <2>4, UsersAssumption
    <3> QED BY <1>6, <1>9, <2>4, <3>1 DEF IInv, OwnInv, StampsOwnRow
  <2> QED BY <1>1, <2>2, <2>3, <2>4 DEF OwnInv, StampsOwnRow
<1>14. All' = All BY <1>1 DEF All
<1>15. AuditInv' BY <1>1, <1>3, <1>8, <1>14, AuditKept DEF IInv
<1> QED BY <1>10, <1>11, <1>12, <1>13, <1>15 DEF IInv

(* Fewer rows, or rows with other stamps, entitle nobody to more and keep  *)
(* every uid with its name.                                                *)
LEMMA DeleteRowStep ==
  ASSUME IInv, NEW c \in Client, DeleteRow(c)
  PROVE  IInv'
<1> DEFINE r == [req[c] EXCEPT !.at = "done"]
<1>1. /\ req[c].kind = "delete" /\ Becomes(c, r)
      /\ users' = [u \in DOMAIN users \ {req[c].uid} |-> users[u]]
      /\ UNCHANGED <<attempts, pending, count, faults, history>>
  BY DEF DeleteRow, At, Moves
<1> USE DEF history
<1>2. OkReq(r) /\ r.at = "done" /\ r.kind = "delete" BY <1>1, MovesOk
<1> HIDE DEF r
<1>3. req' = [req EXCEPT ![c] = r] /\ req \in [Client -> Req]
  BY <1>1 DEF Becomes, IInv, ReqInv
<1>4. req'[c] = r /\ \A d \in Client \ {c} : req'[d] = req[d] BY <1>3
<1>5. /\ DOMAIN users' \subseteq DOMAIN users
      /\ \A u \in DOMAIN users' : users'[u] = users[u]
  BY <1>1
<1>6. count \in Nat /\ top \in Nat BY DEF IInv, TablesInv
<1>7. ReqInv' BY <1>1, <1>2, <1>6, ReqStep DEF OkReq, IInv
<1>8. TablesInv' BY <1>1, <1>5 DEF IInv, TablesInv
<1>9. EntitledInv'
  <2>1. \A d \in Client : req'[d].kind = "login" => req'[d] = req[d]
    BY <1>2, <1>4
  <2>2. entitled' = entitled /\ LoginJustified'
    BY <1>1 DEF IInv, EntitledInv, LoginJustified
  <2> QED BY <1>5, <2>1, <2>2 DEF IInv, EntitledInv, Opens
<1>10. OwnInv' BY <1>1, <1>2, <1>4, <1>5 DEF IInv, OwnInv, StampsOwnRow
<1>11. All' = All BY <1>1 DEF All
<1>12. AuditInv' BY <1>1, <1>2, <1>4, <1>11, AuditKept DEF IInv
<1> QED BY <1>7, <1>8, <1>9, <1>10, <1>12 DEF IInv

(* A row of login_attempts that is written was among the rows before.      *)
LEMMA ExecuteStep ==
  ASSUME IInv, NEW s \in pending, Execute(s)
  PROVE  IInv'
<1>1. pending' = pending \ {s} /\ UNCHANGED <<req, count, faults, history>>
  BY DEF Execute
<1> USE DEF history
<1>2. ReqInv' BY <1>1 DEF IInv, ReqInv, OkReq
<1>3. All' = All BY <1>1 DEF Execute, All
<1>4. AuditInv'
  <2>1. attempts' \cap pending' = {} BY <1>1 DEF Execute, IInv, AuditInv
  <2> QED BY <1>1, <1>3, <2>1 DEF IInv, AuditInv
<1>5. CASE s \in Attempt
  <2>1. attempts' = attempts \cup {s} /\ users' = users BY <1>5 DEF Execute
  <2>2. pending' \ Attempt = pending \ Attempt BY <1>1, <1>5
  <2>3. TablesInv' BY <1>1, <1>5, <2>1, <2>2 DEF IInv, TablesInv
  <2>4. EntitledInv' BY <1>1, <2>1 DEF IInv, EntitledInv, LoginJustified, Opens
  <2>5. OwnInv' BY <1>1, <2>1, <2>2 DEF IInv, OwnInv, StampsOwnRow
  <2> QED BY <1>2, <1>4, <2>3, <2>4, <2>5 DEF IInv
<1>6. CASE s \notin Attempt
  <2>1. users' = Stamped(s) /\ attempts' = attempts BY <1>6 DEF Execute
  <2>2. s \in Stamp /\ s.uid \in 1 .. top BY <1>6 DEF IInv, TablesInv
  <2>3. DOMAIN users' = DOMAIN users BY <2>1 DEF Stamped
  <2>4. \A u \in DOMAIN users \ {s.uid} : users'[u] = users[u]
    BY <2>1 DEF Stamped
  <2>5. ASSUME NEW u \in DOMAIN users
        PROVE  /\ users'[u] \in Row
               /\ users'[u].username = users[u].username
               /\ users'[u].passphrase = users[u].passphrase
               /\ users'[u].status = users[u].status
               /\ u = s.uid => users'[u].stamp = s.by
    <3>1. users[u] \in Row BY DEF IInv, TablesInv
    <3>2. CASE u = s.uid
      <4>1. users'[u] = [users[u] EXCEPT !.stamp = s.by] BY <2>1, <3>2 DEF Stamped
      <4>2. s.by \in Username BY <2>2 DEF Stamp
      <4> QED BY <3>1, <4>1, <4>2 DEF Row
    <3>3. CASE u # s.uid BY <2>4, <3>1, <3>3
    <3> QED BY <3>2, <3>3
  <2>6. TablesInv' BY <1>1, <2>1, <2>3, <2>5 DEF IInv, TablesInv
  <2>7. EntitledInv'
    BY <1>1, <2>3, <2>5 DEF IInv, EntitledInv, LoginJustified, Opens
  <2>8. OwnInv'
    <3>1. \A u \in DOMAIN users \ reused :
            users'[u].stamp \in Username => users'[u].stamp = users'[u].username
      BY <2>4, <2>5, <1>6 DEF IInv, OwnInv, StampsOwnRow
    <3>2. ASSUME NEW c \in Client, req'[c].at = "found",
                 req'[c].uid \in DOMAIN users' \ reused'
          PROVE  users'[req'[c].uid].username = req'[c].username
      BY <1>1, <2>3, <2>5, <3>2 DEF IInv, OwnInv
    <3>3. ASSUME NEW t \in pending' \ Attempt, t.uid \in DOMAIN users' \ reused'
          PROVE  users'[t.uid].username = t.by
      BY <1>1, <2>3, <2>5, <3>3 DEF IInv, OwnInv
    <3> QED BY <1>1, <2>3, <3>1, <3>2, <3>3 DEF OwnInv, StampsOwnRow
  <2> QED BY <1>2, <1>4, <2>6, <2>7, <2>8 DEF IInv
<1> QED BY <1>5, <1>6

(* Statements are lost: with its only row a login has none.                *)
LEMMA AuditLoses ==
  ASSUME AuditInv, attempts' = attempts, pending' \subseteq pending,
         UNCHANGED <<count, logins>>,
         lost' = lost \cup {a.number : a \in All \ All'},
         \A c \in Client : req'[c].kind = "login" => req'[c] = req[c]
  PROVE  AuditInv'
<1>1. All' \subseteq All /\ attempts' \cap pending' = {} BY DEF All, AuditInv
<1>2. \A n \in lost' \ lost : \E a \in All \ All' : a.number = n OBVIOUS
<1>3. \A n \in lost' : \E l \in logins : l.number = n BY <1>2 DEF AuditInv
<1>4. ASSUME NEW l \in logins, l.number \in lost', NEW a \in All', a.number = l.number
      PROVE  FALSE
  <2>1. a \in All BY <1>1
  <2>2. l.number \notin lost BY <1>4, <2>1 DEF AuditInv
  <2>3. PICK b \in All \ All' : b.number = l.number BY <1>2, <1>4, <2>2
  <2>4. a = b BY <1>4, <2>1, <2>3 DEF AuditInv
  <2> QED BY <1>4, <2>3, <2>4
<1>5. ASSUME NEW l \in logins, l.number \notin lost'
      PROVE  \E a \in All' : a.number = l.number
  <2>1. PICK a \in All : a.number = l.number BY <1>5 DEF AuditInv
  <2>2. a \in All' BY <1>5, <2>1
  <2> QED BY <2>1, <2>2
<1>6. \A l \in logins :
        /\ \A a, b \in All' : a.number = l.number /\ b.number = l.number => a = b
        /\ \A a \in All' : a.number = l.number => a.success = l.success /\ a.uid = l.found
  BY <1>1 DEF AuditInv
<1>7. \A a \in All' : \E l \in logins : l.number = a.number BY <1>1 DEF AuditInv
<1> QED BY <1>1, <1>3, <1>4, <1>5, <1>6, <1>7 DEF AuditInv

LEMMA ExecuteFailsStep ==
  ASSUME IInv, NEW s \in pending, ExecuteFails(s)
  PROVE  IInv'
<1>1. /\ pending' = pending \ {s}
      /\ lost' = IF s \in Attempt THEN lost \cup {s.number} ELSE lost
      /\ UNCHANGED <<users, attempts, req, count, top, reused, entitled, logins>>
  BY DEF ExecuteFails
<1>2. ReqInv' BY <1>1 DEF IInv, ReqInv, OkReq
<1>3. TablesInv' BY <1>1 DEF IInv, TablesInv
<1>4. EntitledInv' BY <1>1 DEF IInv, EntitledInv, LoginJustified, Opens
<1>5. OwnInv' BY <1>1 DEF IInv, OwnInv, StampsOwnRow
<1>6. lost' = lost \cup {a.number : a \in All \ All'}
  <2>1. CASE s \in Attempt
    <3>1. All \ All' = {s} BY <1>1, <2>1 DEF All, IInv, AuditInv
    <3> QED BY <1>1, <2>1, <3>1
  <2>2. CASE s \notin Attempt
    <3>1. All' = All BY <1>1, <2>2 DEF All
    <3> QED BY <1>1, <2>2, <3>1
  <2> QED BY <2>1, <2>2
<1>7. AuditInv' BY <1>1, <1>6, AuditLoses DEF IInv
<1> QED BY <1>2, <1>3, <1>4, <1>5, <1>7 DEF IInv

(* The process dies: no request is left, and nothing waits for execution.  *)
LEMMA KillStep ==
  ASSUME IInv, Kill
  PROVE  IInv'
<1>1. /\ pending' = {} /\ req' = [c \in Client |-> Free]
      /\ lost' = lost \cup {s.number : s \in pending \cap Attempt}
      /\ UNCHANGED <<users, attempts, count, top, reused, logins>>
  BY DEF Kill
<1>2. \A c \in Client : req'[c] = Free BY <1>1
<1>3. Free \in Req /\ Free.kind = "none" /\ Free.at = "idle" BY FreeOk DEF OkReq
<1>4. ReqInv' BY <1>1, <1>2, <1>3 DEF ReqInv, OkReq
<1>5. TablesInv' BY <1>1 DEF IInv, TablesInv
<1>6. EntitledInv' BY <1>1, <1>2, <1>3 DEF IInv, EntitledInv, LoginJustified
<1>7. OwnInv' BY <1>1, <1>2, <1>3 DEF IInv, OwnInv, StampsOwnRow
<1>8. lost' = lost \cup {a.number : a \in All \ All'}
  <2>1. All \ All' = pending \cap Attempt BY <1>1 DEF All, IInv, AuditInv
  <2> QED BY <1>1, <2>1
<1>9. AuditInv' BY <1>1, <1>2, <1>3, <1>8, AuditLoses DEF IInv
<1> QED BY <1>4, <1>5, <1>6, <1>7, <1>9 DEF IInv

-----------------------------------------------------------------------------
(* Answers of logins                                                       *)

(* A login is answered: it gets its row, and a stamp if it succeeded, in   *)
(* which case it is entitled and its uid is that of its name.              *)
LEMMA AnswerLoginStep ==
  ASSUME IInv, NEW c \in Client, req[c].kind = "login",
         NEW success \in BOOLEAN, NEW uid \in Uid \cup {None},
         NEW more, NEW nth \in Nth,
         AnswerLogin(c, success, more \cup {Insertion(req[c], nth, uid, success)}),
         more \subseteq {Update(req[c], 1)},
         success => c \in entitled,
         uid = (IF req[c].at = "found" THEN req[c].uid ELSE None),
         more # {} => req[c].at = "found"
  PROVE  IInv'
<1> DEFINE r == req[c]
           a == Insertion(r, nth, uid, success)
           m == Update(r, 1)
           l == [number |-> r.number, success |-> success, entitled |-> c \in entitled,
                 found |-> IF r.at = "found" THEN r.uid ELSE None]
<1>1. /\ pending' = pending \cup more \cup {a}
      /\ logins' = logins \cup {l}
      /\ Becomes(c, Free)
      /\ entitled' = entitled \ {c}
      /\ UNCHANGED <<users, attempts, count, top, reused, lost>>
  BY DEF AnswerLogin
<1>2. OkReq(r) /\ count \in Nat /\ top \in Nat /\ MaxRequests \in Nat /\ count <= MaxRequests
  BY UsersAssumption DEF IInv, ReqInv, TablesInv
<1>3. r.number \in 1 .. count /\ r.number \in 1 .. MaxRequests /\ r.username \in Username
  BY <1>2 DEF OkReq
<1>4. a \in Attempt /\ a.number = r.number /\ a.success = success /\ a.uid = uid
  BY <1>3 DEF Attempt, Insertion
<1>5. ASSUME more # {}
      PROVE  m \in Stamp /\ m.uid \in 1 .. top /\ m.by = r.username /\ m \notin Attempt
  <2>1. r.uid \in 1 .. top BY <1>2, <1>5 DEF OkReq
  <2>2. m \in Stamp BY <1>2, <1>3, <2>1 DEF Stamp, Uid, Update, Nth
  <2>3. \A x \in Attempt : "success" \in DOMAIN x BY DEF Attempt
  <2>4. m \notin Attempt
    <3>1. "success" \notin DOMAIN m BY DEF Update
    <3> QED BY <2>3, <3>1
  <2> QED BY <2>1, <2>2, <2>4 DEF Update
<1>6. l.number = r.number /\ l.success = success /\ l.entitled = (c \in entitled)
      /\ l.found = uid
  OBVIOUS
<1>7. req' = [req EXCEPT ![c] = Free] /\ req \in [Client -> Req]
  BY <1>1 DEF Becomes, IInv, ReqInv
<1>8. req'[c] = Free /\ \A d \in Client \ {c} : req'[d] = req[d] BY <1>7
<1>9. more \subseteq {m} OBVIOUS
<1> HIDE DEF a, m, l
<1>10. ReqInv'
  <2>1. Free \in Req /\ Free.kind = "none" /\ Free.at = "idle" BY FreeOk DEF OkReq
  <2> QED BY <1>1, <1>2, <2>1, ReqStep DEF IInv
<1>11. pending' \ Attempt = (pending \ Attempt) \cup more
  BY <1>1, <1>4, <1>5, <1>9
<1>12. TablesInv'
  <2>1. \A s \in pending' \ Attempt : s \in Stamp /\ s.uid \in 1 .. top
    BY <1>5, <1>9, <1>11 DEF IInv, TablesInv
  <2> QED BY <1>1, <2>1 DEF IInv, TablesInv
<1>13. EntitledInv'
  <2>1. LoginJustified' BY <1>1, <1>6 DEF IInv, EntitledInv, LoginJustified
  <2>2. \A d \in Client : req'[d].kind = "login" => d # c /\ req'[d] = req[d]
    BY <1>8, FreeOk
  <2> QED BY <1>1, <2>1, <2>2 DEF IInv, EntitledInv, Opens
<1>14. OwnInv'
  <2>1. more # {} /\ m.uid \in DOMAIN users \ reused => users[m.uid].username = m.by
    <3> SUFFICES ASSUME more # {}, m.uid \in DOMAIN users \ reused
                 PROVE  users[m.uid].username = m.by
      OBVIOUS
    <3>1. r.at = "found" /\ m.uid = r.uid /\ m.by = r.username BY DEF m, Update
    <3> QED BY <3>1 DEF IInv, OwnInv
  <2>2. \A s \in pending' \ Attempt :
          s.uid \in DOMAIN users \ reused => users[s.uid].username = s.by
    BY <1>9, <1>11, <2>1 DEF IInv, OwnInv
  <2>3. \A d \in Client : req'[d].at = "found" => req'[d] = req[d]
    BY <1>8, FreeOk
  <2> QED BY <1>1, <2>2, <2>3 DEF IInv, OwnInv, StampsOwnRow
<1>15. AuditInv'
  <2>1. All' = All \cup {a}
    BY <1>1, <1>4, <1>5, <1>9 DEF All
  <2>2. \A d \in Client : req'[d].kind = "login" =>
          d # c /\ req'[d] = req[d] /\ req[d].number # r.number
    BY <1>8, FreeOk DEF IInv, AuditInv
  <2>3. /\ \A k \in logins : k.number # r.number
        /\ \A b \in All : b.number # r.number
        /\ r.number \notin lost
    BY DEF IInv, AuditInv
  <2>4. /\ \A b \in All' : \E k \in logins' : k.number = b.number
        /\ \A n \in lost' : \E k \in logins' : k.number = n
        /\ \A k \in logins' : k.number \in 1 .. count'
    BY <1>1, <1>3, <1>4, <1>6, <2>1 DEF IInv, AuditInv
  <2>5. \A d \in Client : req'[d].kind = "login" =>
          /\ \A k \in logins' : k.number # req'[d].number
          /\ \A e \in Client \ {d} : req'[e].kind = "login" => req'[e].number # req'[d].number
    BY <1>1, <1>6, <2>2 DEF IInv, AuditInv
  <2>6. ASSUME NEW k \in logins'
        PROVE  /\ k.number \notin lost' => \E b \in All' : b.number = k.number
               /\ k.number \in lost' => \A b \in All' : b.number # k.number
               /\ \A b, e \in All' : b.number = k.number /\ e.number = k.number => b = e
               /\ \A b \in All' : b.number = k.number =>
                    b.success = k.success /\ b.uid = k.found
    <3>1. CASE k = l BY <1>1, <1>4, <1>6, <2>1, <2>3, <3>1
    <3>2. CASE k # l
      <4>1. k \in logins /\ k.number # r.number BY <1>1, <2>3, <3>2
      <4> QED BY <1>1, <1>4, <2>1, <4>1 DEF IInv, AuditInv
    <3> QED BY <3>1, <3>2
  <2>7. attempts' \cap pending' = {}
    <3>1. a \notin attempts BY <1>4, <2>3 DEF All
    <3>2. \A x \in more : x \notin attempts BY <1>5, <1>9 DEF IInv, TablesInv
    <3> QED BY <1>1, <3>1, <3>2 DEF IInv, AuditInv
  <2> QED BY <2>4, <2>5, <2>6, <2>7 DEF AuditInv
<1> QED BY <1>10, <1>12, <1>13, <1>14, <1>15 DEF IInv

(* A login that is refused leaves nothing but its row.                     *)
LEMMA OneStatement ==
  ASSUME IInv, NEW c \in Client, req[c].kind = "login",
         NEW uid \in Uid \cup {None},
         AnswerLogin(c, FALSE, {Insertion(req[c], 1, uid, FALSE)}),
         uid = (IF req[c].at = "found" THEN req[c].uid ELSE None)
  PROVE  IInv'
<1> DEFINE more == {x \in {Update(req[c], 1)} : FALSE}
           a == Insertion(req[c], 1, uid, FALSE)
<1>1. more \cup {a} = {a} /\ more = {} /\ more \subseteq {Update(req[c], 1)} OBVIOUS
<1>2. 1 \in Nth BY DEF Nth
<1>3. AnswerLogin(c, FALSE, more \cup {a}) BY <1>1
<1> HIDE DEF more
<1> QED BY <1>1, <1>2, <1>3, AnswerLoginStep

-----------------------------------------------------------------------------
(* The invariant                                                           *)

LEMMA InitInv == Init => IInv
<1> SUFFICES ASSUME Init PROVE IInv OBVIOUS
<1>1. \A c \in Client : req[c] = Free BY DEF Init
<1>2. Free \in Req /\ Free.kind = "none" /\ Free.at = "idle" BY FreeOk DEF OkReq
<1>3. ReqInv BY <1>1, <1>2 DEF Init, ReqInv, OkReq
<1>4. /\ attempts = {} /\ pending = {} /\ count = 0 /\ logins = {} /\ lost = {} /\ reused = {}
      /\ users \in Accounts /\ top = Cardinality(DOMAIN users)
  BY DEF Init
<1>5. /\ top \in Nat /\ DOMAIN users = 1 .. top
      /\ \A u \in DOMAIN users : users[u] \in Row /\ users[u].stamp \in {users[u].username, None}
  BY <1>4, UsersAssumption
<1>6. TablesInv BY <1>4, <1>5, UsersAssumption DEF TablesInv
<1>7. EntitledInv BY <1>1, <1>2, <1>4 DEF EntitledInv, LoginJustified
<1>8. OwnInv BY <1>1, <1>2, <1>4, <1>5, UsersAssumption DEF OwnInv, StampsOwnRow
<1>9. AuditInv BY <1>1, <1>2, <1>4 DEF AuditInv, All
<1> QED BY <1>3, <1>6, <1>7, <1>8, <1>9 DEF IInv

(* What the callbacks of a request do                                      *)
LEMMA HandlesStep ==
  ASSUME IInv, NEW c \in Client, Handles(c)
  PROVE  IInv'
<1>1. CASE Select(c) BY <1>1, SelectStep
<1>2. CASE Hashed(c)
  <2>1. req[c].kind # "login" BY <1>2 DEF Hashed, At
  <2> QED BY <1>2, <2>1, MovesStep DEF Hashed
<1>3. CASE Insert(c) BY <1>3, InsertStep
<1>4. CASE InsertRefused(c) BY <1>4, MovesStep DEF InsertRefused
<1>5. CASE DeleteRow(c) BY <1>5, DeleteRowStep
<1>6. CASE LoginNone(c)
  <2>1. /\ req[c].kind = "login" /\ req[c].at # "found"
        /\ AnswerLogin(c, FALSE, {Insertion(req[c], 1, None, FALSE)})
    BY <1>6 DEF LoginNone
  <2>2. None = IF req[c].at = "found" THEN req[c].uid ELSE None BY <2>1
  <2> QED BY <2>1, <2>2, OneStatement
<1>7. ASSUME req[c].at = "found"
      PROVE  req[c].kind = "login" /\ req[c].uid \in Uid /\ req[c].uid # None
  <2>1. req[c].kind = "login" /\ req[c].uid \in 1 .. top /\ top \in Nat
    BY <1>7 DEF IInv, ReqInv, OkReq, TablesInv
  <2> QED BY <2>1, UsersAssumption DEF Uid
<1>8. CASE LoginRefused(c)
  <2>1. /\ req[c].at = "found"
        /\ AnswerLogin(c, FALSE, {Insertion(req[c], 1, req[c].uid, FALSE)})
    BY <1>8 DEF LoginRefused, At
  <2>2. req[c].uid = IF req[c].at = "found" THEN req[c].uid ELSE None BY <2>1
  <2> QED BY <1>7, <2>1, <2>2, OneStatement
<1>9. CASE LoginAccepted(c)
  <2>1. /\ req[c].at = "found" /\ req[c].hash = req[c].passphrase
        /\ AnswerLogin(c, TRUE, {Update(req[c], 1)}
                                  \cup {Insertion(req[c], 2, req[c].uid, TRUE)})
    <3>1. {Update(req[c], 1), Insertion(req[c], 2, req[c].uid, TRUE)}
            = {Update(req[c], 1)} \cup {Insertion(req[c], 2, req[c].uid, TRUE)}
      OBVIOUS
    <3> QED BY <1>9, <3>1 DEF LoginAccepted, At
  <2>2. c \in entitled BY <1>7, <2>1 DEF IInv, EntitledInv
  <2>3. req[c].uid = IF req[c].at = "found" THEN req[c].uid ELSE None BY <2>1
  <2>4. 2 \in Nth BY DEF Nth
  <2>5. {Update(req[c], 1)} \subseteq {Update(req[c], 1)} OBVIOUS
  <2> QED BY <1>7, <2>1, <2>2, <2>3, <2>4, <2>5, AnswerLoginStep
<1>10. CASE Answer(c)
  <2>1. OkReq(Free) /\ Free.kind = "none" /\ Free.at = "idle" BY FreeOk
  <2> QED BY <1>10, <2>1, QuietStep DEF Answer
<1> QED BY <1>1, <1>2, <1>3, <1>4, <1>5, <1>6, <1>8, <1>9, <1>10 DEF Handles

LEMMA NextInv == IInv /\ [Next]_vars => IInv'
<1> SUFFICES ASSUME IInv, [Next]_vars PROVE IInv' OBVIOUS
<1>1. ASSUME NEW c \in Client, NEW n \in Username, NEW p \in Passphrase,
             \/ Login(c, n, p)
             \/ \E s \in Status : Register(c, n, p, s)
      PROVE  IInv'
  BY <1>1, LoginStep, RegisterStep
<1>2. ASSUME NEW c \in Client, NEW u \in 1 .. top, Delete(c, u) PROVE IInv'
  BY <1>2, DeleteStep
<1>3. ASSUME NEW c \in Client, Handles(c) PROVE IInv'
  BY <1>3, HandlesStep
<1>4. ASSUME NEW c \in Client, Fails(c) PROVE IInv'
  BY <1>4, MovesStep DEF Fails
<1>5. ASSUME NEW s \in pending, Execute(s) \/ ExecuteFails(s) PROVE IInv'
  BY <1>5, ExecuteStep, ExecuteFailsStep
<1>6. CASE Kill BY <1>6, KillStep
<1>7. CASE UNCHANGED vars
  <2>1. UNCHANGED <<users, attempts, pending, req, count, top, reused, entitled, logins, lost>>
    BY <1>7 DEF vars, tables, history
  <2>2. ReqInv' /\ TablesInv' BY <2>1 DEF IInv, ReqInv, TablesInv, OkReq
  <2>3. EntitledInv' BY <2>1 DEF IInv, EntitledInv, LoginJustified, Opens
  <2>4. OwnInv' BY <2>1 DEF IInv, OwnInv, StampsOwnRow
  <2>5. All' = All BY <2>1 DEF All
  <2>6. AuditInv' BY <2>1, <2>5 DEF IInv, AuditInv
  <2> QED BY <2>2, <2>3, <2>4, <2>6 DEF IInv
<1> QED BY <1>1, <1>2, <1>3, <1>4, <1>5, <1>6, <1>7 DEF Next

(* Every state of the user server satisfies the invariant.                 *)
THEOREM Invariant == Spec => []IInv
BY InitInv, NextInv, PTL DEF Spec

(* POST /login succeeds only for what was an active account of that name   *)
(* with that passphrase at some time since the request came, whatever      *)
(* other requests do to the table between its callbacks.                   *)
THEOREM LoginsAreJustified == Spec => []LoginJustified
<1>1. IInv => LoginJustified BY DEF IInv, EntitledInv
<1> QED BY <1>1, Invariant, PTL

(* The UPDATE after a login reaches the row of the account that logged in, *)
(* however late it is executed, unless the uid was given again.            *)
THEOREM StampsAreOwn == Spec => []StampsOwnRow
<1>1. IInv => StampsOwnRow BY DEF IInv, OwnInv
<1> QED BY <1>1, Invariant, PTL

(* Every answered login has exactly one row in login_attempts, written or  *)
(* about to be, of its own outcome and of the account found for it, unless *)
(* the statement failed or was lost by a kill; no other row is there.      *)
THEOREM AuditIsExact == Spec => []AuditExact
<1>1. IInv => AuditExact
  <2> SUFFICES ASSUME IInv PROVE AuditExact OBVIOUS
  <2> DEFINE Of(l) == {a \in All : a.number = l.number}
  <2>1. ASSUME NEW l \in logins
        PROVE  Cardinality(Of(l)) = IF l.number \in lost THEN 0 ELSE 1
    <3>1. CASE l.number \in lost
      <4>1. Of(l) = {} BY <3>1 DEF IInv, AuditInv
      <4> QED BY <3>1, <4>1, FS_EmptySet
    <3>2. CASE l.number \notin lost
      <4>1. PICK a \in All : a.number = l.number BY <3>2 DEF IInv, AuditInv
      <4>2. Of(l) = {a} BY <4>1 DEF IInv, AuditInv
      <4> QED BY <3>2, <4>2, FS_Singleton
    <3> QED BY <3>1, <3>2
  <2>2. ASSUME NEW l \in logins, NEW a \in Of(l)
        PROVE  a.success = l.success /\ a.uid = l.found
    BY DEF IInv, AuditInv
  <2>3. ASSUME NEW a \in All PROVE \E l \in logins : a.number = l.number
    BY DEF IInv, AuditInv
  <2> QED BY <2>1, <2>2, <2>3 DEF AuditExact, All
<1> QED BY <1>1, Invariant, PTL

-----------------------------------------------------------------------------
(* Types and unique names                                                  *)

(* The constraint of the table, which the insertion keeps                  *)
UniqueInv == \A u, v \in DOMAIN users : users[u].username = users[v].username => u = v

(* What a request remembers of the table                                   *)
Recalls(r) ==
  /\ r.number \in 0 .. count
  /\ r.at = "found" => r.hash \in Passphrase

RecallInv == \A c \in Client : Recalls(req[c])

LEMMA RecallsStep ==
  ASSUME IInv, RecallInv, NEW c \in Client, NEW r, Becomes(c, r),
         count' \in Nat, count <= count', r.number \in 0 .. count',
         r.at = "found" => r.hash \in Passphrase
  PROVE  RecallInv'
<1>1. req' = [req EXCEPT ![c] = r] /\ req \in [Client -> Req] /\ count \in Nat
  BY DEF Becomes, IInv, ReqInv, TablesInv
<1> SUFFICES ASSUME NEW d \in Client PROVE Recalls(req[d])' BY DEF RecallInv
<1>2. CASE d = c
  <2>1. req'[d] = r BY <1>1, <1>2
  <2> QED BY <2>1 DEF Recalls
<1>3. CASE d # c
  <2>1. req'[d] = req[d] BY <1>1, <1>3
  <2>2. Recalls(req[d]) BY DEF RecallInv
  <2>3. req[d].number \in 0 .. count' BY <1>1, <2>2 DEF Recalls
  <2> QED BY <2>1, <2>2, <2>3 DEF Recalls
<1> QED BY <1>2, <1>3

LEMMA RecallsMoves ==
  ASSUME IInv, RecallInv, NEW c \in Client,
         NEW at \in {"hash", "statement", "none", "failed", "done"}, Moves(c, at),
         count' = count
  PROVE  RecallInv'
<1> DEFINE r == [req[c] EXCEPT !.at = at]
<1>1. Becomes(c, r) BY DEF Moves
<1>2. r = [req[c] EXCEPT !.at = at] OBVIOUS
<1> HIDE DEF r
<1>3. r.at = at /\ r.number = req[c].number BY <1>2, MovesOk
<1>4. req[c].number \in 0 .. count /\ count \in Nat
  BY DEF RecallInv, Recalls, IInv, TablesInv
<1> QED BY <1>1, <1>3, <1>4, RecallsStep

LEMMA RecallsFree ==
  ASSUME IInv, RecallInv, NEW c \in Client, Becomes(c, Free), count' = count
  PROVE  RecallInv'
<1>1. Free.number = 0 /\ Free.at = "idle" BY DEF Free
<1>2. count \in Nat BY DEF IInv, TablesInv
<1> QED BY <1>1, <1>2, RecallsStep

LEMMA RecallsArrives ==
  ASSUME IInv, RecallInv, NEW c \in Client, NEW r \in Req, r.at # "found", Arrives(c, r)
  PROVE  RecallInv'
<1> DEFINE q == [r EXCEPT !.number = count + 1]
<1>1. Becomes(c, q) /\ count' = count + 1 BY DEF Arrives
<1>2. count \in Nat BY DEF IInv, TablesInv
<1>3. q.at = r.at /\ q.number = count + 1 BY DEF Req
<1> HIDE DEF q
<1> QED BY <1>1, <1>2, <1>3, RecallsStep

LEMMA RecallsSelect ==
  ASSUME IInv, RecallInv, NEW c \in Client, Select(c)
  PROVE  RecallInv'
<1>1. count' = count /\ count \in Nat
  <2>1. count' = count BY DEF Select, Looked
  <2>2. count \in Nat BY DEF IInv, TablesInv
  <2> QED BY <2>1, <2>2
<1>2. CASE Moves(c, "none") BY <1>1, <1>2, RecallsMoves
<1>3. ASSUME NEW u \in Rows(req[c].username, {"active"}),
             Becomes(c, [req[c] EXCEPT !.at = "found", !.uid = u,
                                       !.hash = users[u].passphrase])
      PROVE  RecallInv'
  <2> DEFINE r == [req[c] EXCEPT !.at = "found", !.uid = u, !.hash = users[u].passphrase]
  <2>1. users[u] \in Row BY DEF Rows, IInv, TablesInv
  <2>2. users[u].passphrase \in Passphrase BY <2>1 DEF Row
  <2>3. req[c] \in Req BY DEF IInv, ReqInv
  <2>4. r.number = req[c].number /\ r.hash = users[u].passphrase BY <2>3 DEF Req
  <2>5. Becomes(c, r) BY <1>3
  <2> HIDE DEF r
  <2>6. req[c].number \in 0 .. count BY DEF RecallInv, Recalls
  <2> QED BY <1>1, <2>2, <2>4, <2>5, <2>6, RecallsStep
<1> QED BY <1>2, <1>3 DEF Select, Looked

LEMMA RecallsNext == IInv /\ RecallInv /\ [Next]_vars => RecallInv'
<1> SUFFICES ASSUME IInv, RecallInv, [Next]_vars PROVE RecallInv' OBVIOUS
<1>1. ASSUME NEW c \in Client, NEW n \in Username, NEW p \in Passphrase, Login(c, n, p)
      PROVE  RecallInv'
  <2> DEFINE r == [Free EXCEPT !.kind = "login", !.at = "statement",
                               !.username = n, !.passphrase = p]
  <2>1. r \in Req /\ r.at = "statement" BY DEF Free, Req
  <2>2. Arrives(c, r) BY <1>1 DEF Login
  <2> HIDE DEF r
  <2> QED BY <2>1, <2>2, RecallsArrives
<1>2. ASSUME NEW c \in Client, NEW n \in Username, NEW p \in Passphrase,
             NEW s \in Status, Register(c, n, p, s)
      PROVE  RecallInv'
  <2> DEFINE r == [Free EXCEPT !.kind = "register", !.at = "hash", !.username = n,
                               !.passphrase = p, !.status = s]
  <2>1. r \in Req /\ r.at = "hash" BY DEF Free, Req
  <2>2. Arrives(c, r) BY <1>2 DEF Register
  <2> HIDE DEF r
  <2> QED BY <2>1, <2>2, RecallsArrives
<1>3. ASSUME NEW c \in Client, NEW u \in 1 .. top, Delete(c, u) PROVE RecallInv'
  <2> DEFINE r == [Free EXCEPT !.kind = "delete", !.at = "statement", !.uid = u]
  <2>1. u \in Nat BY DEF IInv, TablesInv
  <2>2. r \in Req /\ r.at = "statement" BY <2>1 DEF Free, Req
  <2>3. Arrives(c, r) BY <1>3 DEF Delete
  <2> HIDE DEF r
  <2> QED BY <2>2, <2>3, RecallsArrives
<1>4. ASSUME NEW c \in Client, Handles(c) PROVE RecallInv'
  <2>1. CASE Select(c) BY <2>1, RecallsSelect
  <2>2. CASE Hashed(c) BY <2>2, RecallsMoves DEF Hashed
  <2>3. CASE Insert(c) BY <2>3, RecallsMoves DEF Insert
  <2>4. CASE InsertRefused(c) BY <2>4, RecallsMoves DEF InsertRefused
  <2>5. CASE DeleteRow(c) BY <2>5, RecallsMoves DEF DeleteRow
  <2>6. CASE LoginNone(c) \/ LoginRefused(c) \/ LoginAccepted(c)
    <3>1. Becomes(c, Free) /\ count' = count
      BY <2>6 DEF LoginNone, LoginRefused, LoginAccepted, AnswerLogin
    <3> QED BY <3>1, RecallsFree
  <2>7. CASE Answer(c) BY <2>7, RecallsFree DEF Answer
  <2> QED BY <1>4, <2>1, <2>2, <2>3, <2>4, <2>5, <2>6, <2>7 DEF Handles
<1>5. ASSUME NEW c \in Client, Fails(c) PROVE RecallInv'
  BY <1>5, RecallsMoves DEF Fails
<1>6. ASSUME NEW s \in pending, Execute(s) \/ ExecuteFails(s) PROVE RecallInv'
  BY <1>6 DEF Execute, ExecuteFails, RecallInv, Recalls
<1>7. CASE Kill
  <2>1. Free.number = 0 /\ Free.at = "idle" BY DEF Free
  <2>2. count' = count /\ count \in Nat /\ \A c \in Client : req'[c] = Free
    BY <1>7 DEF Kill, IInv, TablesInv
  <2> QED BY <2>1, <2>2 DEF RecallInv, Recalls
<1>8. CASE UNCHANGED vars BY <1>8 DEF vars, RecallInv, Recalls
<1> QED BY <1>1, <1>2, <1>3, <1>4, <1>5, <1>6, <1>7, <1>8 DEF Next

(* Rows keep their names, and only the insertion adds one.                 *)
LEMMA UniqueKept ==
  ASSUME UniqueInv, DOMAIN users' \subseteq DOMAIN users,
         \A u \in DOMAIN users' : users'[u].username = users[u].username
  PROVE  UniqueInv'
BY DEF UniqueInv

LEMMA UniqueNext == IInv /\ UniqueInv /\ [Next]_vars => UniqueInv'
<1> SUFFICES ASSUME IInv, UniqueInv, [Next]_vars PROVE UniqueInv' OBVIOUS
<1>1. ASSUME users' = users PROVE UniqueInv' BY <1>1 DEF UniqueInv
<1>2. ASSUME NEW c \in Client, Insert(c) PROVE UniqueInv'
  <2> DEFINE row == [username |-> req[c].username, passphrase |-> req[c].passphrase,
                     status |-> req[c].status, stamp |-> None]
  <2>1. PICK u \in NewUids :
          users' = [v \in DOMAIN users \cup {u} |-> IF v = u THEN row ELSE users[v]]
    BY <1>2 DEF Insert
  <2>2. \A v \in DOMAIN users : users[v].username # row.username
    BY <1>2 DEF Insert, Taken
  <2> HIDE DEF row
  <2>3. /\ DOMAIN users' = DOMAIN users \cup {u}
        /\ \A v \in DOMAIN users' :
             users'[v].username = IF v = u THEN row.username ELSE users[v].username
    BY <2>1
  <2> QED BY <2>2, <2>3 DEF UniqueInv
<1>3. ASSUME NEW c \in Client, DeleteRow(c) PROVE UniqueInv'
  <2>1. users' = [u \in DOMAIN users \ {req[c].uid} |-> users[u]] BY <1>3 DEF DeleteRow
  <2> QED BY <2>1, UniqueKept
<1>4. ASSUME NEW s \in pending, Execute(s) PROVE UniqueInv'
  <2>1. CASE users' = Stamped(s)
    <3>1. DOMAIN users' = DOMAIN users BY <2>1 DEF Stamped
    <3>2. ASSUME NEW u \in DOMAIN users PROVE users'[u].username = users[u].username
      <4>1. users[u] \in Row BY DEF IInv, TablesInv
      <4>2. users'[u] \in {users[u], [users[u] EXCEPT !.stamp = s.by]}
        BY <2>1 DEF Stamped
      <4> QED BY <4>1, <4>2 DEF Row
    <3> QED BY <3>1, <3>2, UniqueKept
  <2> QED BY <1>1, <1>4, <2>1 DEF Execute
<1>5. ASSUME NEW c \in Client, Handles(c) PROVE UniqueInv'
  <2>1. \/ users' = users \/ Insert(c) \/ DeleteRow(c)
    BY <1>5 DEF Handles, Select, Looked, Hashed, InsertRefused, LoginNone, LoginRefused,
                LoginAccepted, AnswerLogin, Answer, tables
  <2> QED BY <1>1, <1>2, <1>3, <2>1
<1>6. \/ users' = users
      \/ \E c \in Client : Handles(c)
      \/ \E s \in pending : Execute(s)
  BY DEF Next, Login, Register, Delete, Arrives, Fails, ExecuteFails, Kill, vars, tables
<1> QED BY <1>1, <1>4, <1>5, <1>6

(* Type correctness of the user server, and the constraint of its table:   *)
(* whatever is registered and deleted at the same time, no two accounts    *)
(* have one username, no uid is beyond the largest given, and a login that *)
(* found a row remembers a uid and a hash of the table.                    *)
THEOREM UsersTypeCorrect == Spec => []TypeOK
<1>1. Init => RecallInv /\ UniqueInv
  <2> SUFFICES ASSUME Init PROVE RecallInv /\ UniqueInv OBVIOUS
  <2>1. Free.number = 0 /\ Free.at = "idle" BY DEF Free
  <2>2. count = 0 /\ \A c \in Client : req[c] = Free BY DEF Init
  <2>3. UniqueInv BY UsersAssumption DEF Init, UniqueInv
  <2> QED BY <2>1, <2>2, <2>3 DEF RecallInv, Recalls
<1>2. IInv /\ RecallInv /\ UniqueInv => TypeOK
  <2> SUFFICES ASSUME IInv, RecallInv, UniqueInv PROVE TypeOK OBVIOUS
  <2>1. \A u \in DOMAIN users :
          /\ u \in 1 .. top /\ users[u] \in Row
          /\ \A v \in DOMAIN users \ {u} : users[u].username # users[v].username
    BY DEF IInv, TablesInv, UniqueInv
  <2>2. attempts \subseteq Attempt /\ pending \subseteq Attempt \cup Stamp
    BY DEF IInv, TablesInv
  <2>3. ASSUME NEW c \in Client
        PROVE  /\ req[c].at \in {"idle", "hash", "statement", "none", "found", "failed", "done"}
               /\ req[c].number \in 0 .. count
               /\ req[c].at = "found" => req[c].hash \in Passphrase /\ req[c].uid \in 1 .. top
    <3>1. OkReq(req[c]) /\ Recalls(req[c]) BY DEF IInv, ReqInv, RecallInv
    <3> QED BY <3>1 DEF OkReq, Recalls, Req
  <2> QED BY <2>1, <2>2, <2>3 DEF TypeOK
<1> QED BY <1>1, <1>2, RecallsNext, UniqueNext, Invariant, PTL DEF Spec
=============================================================================

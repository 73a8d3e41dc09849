------------------------------ MODULE Notifications ------------------------------
(***************************************************************************)
(* What an account is told of: pkg/handlers/notification.go over the        *)
(* statements of pkg/repository/notification_repository.go.  Reading a page *)
(* starts a goroutine that marks as read, with one UPDATE, every row of the *)
(* account; nothing is said of which rows the page had.                     *)
(*                                                                         *)
(* Who causes a notification, and that nobody causes one to themselves, is  *)
(* in Posts; here they come.  created_at is the order of the ids.           *)
(***************************************************************************)
EXTENDS Naturals, FiniteSets

CONSTANTS Users, Procs, None,
          MaxRows,    \* bound on the notifications ever created
          Limits      \* what limit a page may have; 1 .. 50 in the code

VARIABLES rows,    \* table notifications
          serial,  \* of its ids
          req,     \* goroutines that have a page behind them
          shown,   \* history: ids that were on a page
          missed   \* history: accounts whose marking failed or was lost

vars == <<rows, serial, req, shown, missed>>

Row == [id : 1 .. MaxRows, user : Users, read : BOOLEAN]

\* The page, the newest id that there was, and whether the page left out older or
\* newer rows.
Request == [user : Users \cup {None}, page : SUBSET (1 .. MaxRows), newest : 0 .. MaxRows,
            cut : BOOLEAN]

Marking(u, page, newest, cut) == [user |-> u, page |-> page, newest |-> newest, cut |-> cut]

Idle == Marking(None, {}, 0, FALSE)

Mine(u) == {r \in rows : r.user = u}

Init == rows = {} /\ serial = 0 /\ req = [p \in Procs |-> Idle] /\ shown = {} /\ missed = {}

-----------------------------------------------------------------------------
CreateNotification(u) ==
    /\ serial < MaxRows /\ serial' = serial + 1
    /\ rows' = rows \cup {[id |-> serial', user |-> u, read |-> FALSE]}
    /\ UNCHANGED <<req, shown, missed>>

\* ORDER BY created_at DESC LIMIT and OFFSET.
Page(u, limit, offset) ==
    {r.id : r \in {q \in Mine(u) :
        Cardinality({n \in Mine(u) : n.id > q.id}) \in offset .. (offset + limit - 1)}}

\* Mutated form: the goroutine is not started.
GetNotificationsOnly(p, u, limit, offset) ==
    /\ req[p] = Idle
    /\ shown' = shown \cup Page(u, limit, offset)
    /\ UNCHANGED <<rows, serial, req, missed>>

\* The page is answered, and the goroutine starts.
GetNotifications(p, u, limit, offset) ==
    /\ req[p] = Idle
    /\ LET page == Page(u, limit, offset)
       IN /\ req' = [req EXCEPT ![p] = Marking(u, page, serial, page # {r.id : r \in Mine(u)})]
          /\ shown' = shown \cup page
    /\ UNCHANGED <<rows, serial, missed>>

\* Mutated form: WHERE user_id is missing.
MarkAll(u) == rows' = {[r EXCEPT !.read = TRUE] : r \in rows}

MarkAsRead(u) == rows' = {IF r.user = u THEN [r EXCEPT !.read = TRUE] ELSE r : r \in rows}

\* The goroutine: nobody looks at its error.
Mark(p) ==
    /\ req[p] # Idle
    /\ \/ MarkAsRead(req[p].user) /\ UNCHANGED missed
       \/ missed' = missed \cup {req[p].user} /\ UNCHANGED rows
    /\ req' = [req EXCEPT ![p] = Idle]
    /\ UNCHANGED <<serial, shown>>

\* PUT /notifications/read.
PutRead(u) ==
    /\ MarkAsRead(u) /\ rows' # rows
    /\ UNCHANGED <<serial, req, shown, missed>>

\* The server stops.
Restart ==
    /\ req' = [p \in Procs |-> Idle]
    /\ missed' = missed \cup ({req[p].user : p \in Procs} \ {None})
    /\ UNCHANGED <<rows, serial, shown>>

Next ==
    \/ \E u \in Users : \/ CreateNotification(u) \/ PutRead(u)
                        \/ \E p \in Procs, limit \in Limits, offset \in 0 .. MaxRows :
                              GetNotifications(p, u, limit, offset)
    \/ \E p \in Procs : Mark(p)
    \/ Restart

Spec == Init /\ [][Next]_vars

-----------------------------------------------------------------------------
(* Properties *)

\* The table holds rows that were created, and each goroutine its locals.
TypeOK ==
    /\ serial \in 0 .. MaxRows
    /\ rows \subseteq Row /\ \A r \in rows : r.id <= serial
    /\ req \in [Procs -> Request]
    /\ shown \subseteq 1 .. serial
    /\ missed \subseteq Users

TurnedRead(r) == ~ r.read /\ [r EXCEPT !.read = TRUE] \in rows'

\* A goroutine marks rows of its own account only: those of the page, and those that
\* came after it, and, when the page was not all, those that it left out
\* (notification.go, line 41).  Only a request to mark may turn others.
MarksOwn ==
    \A r \in rows, p \in Procs : TurnedRead(r) /\ req[p] # Idle /\ req'[p] = Idle =>
        /\ r.user = req[p].user
        /\ r.id \in req[p].page \/ r.id > req[p].newest \/ req[p].cut

\* A notification that was shown is read, or is about to be marked, unless the marking
\* failed or was lost with the server (nobody looks at the error of the goroutine).
ShownIsRead ==
    \A r \in rows : r.id \in shown /\ ~ r.read =>
        \/ \E p \in Procs : req[p].user = r.user
        \/ r.user \in missed
=============================================================================

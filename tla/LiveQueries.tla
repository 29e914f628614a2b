----------------------------- MODULE LiveQueries -----------------------------
(***************************************************************************)
(* The live GraphQL queries of YekongaCloudFunction (static/sdk/          *)
(* yekonga.js): a table of listeners by name, each with a query, a model  *)
(* filter and a 'loading' flag; requests sent on the main YekongaSocket   *)
(* as 'graphql-request' emits without an ack, answered by                 *)
(* 'graphql-response' events; and the 'connect' and 'database' handlers   *)
(* that re-run the queries.                                               *)
(*                                                                         *)
(* A query is a number: every live()/liveUpdate() call makes a new one,   *)
(* so that a result can be traced to the query it answers.  The socket    *)
(* is seen through what YekongaSocket does with an emit without an ack:  *)
(* it is written to the connection when open and dropped otherwise; the   *)
(* socket does not exist until _initSocket's interval finds               *)
(* window.YekongaSocket.  The server answers the requests of a            *)
(* connection in order; a connection that drops loses what it carried.   *)
(***************************************************************************)
EXTENDS Naturals, Sequences, SequencesExt, FiniteSets

CONSTANTS
    Names,    \* listener names
    Models,   \* model names of database events
    Ids,      \* record ids of database events and listeners
    NULL,     \* null / undefined
    MaxQuery, \* bound on the queries created by live() and liveUpdate()
    Drops     \* whether the connection may drop

ASSUME NULL \notin Ids /\ MaxQuery \in Nat /\ Drops \in BOOLEAN

VARIABLES
    sock,     \* "none" before _setSocketListeners, then "down" or "open"
    lst,      \* this._listeners: name -> listener record or NULL
    lastQ,    \* the newest query number created
    reqs,     \* graphql-requests <<name, query>> the server has not read
    resps,    \* graphql-responses <<name, query>> not yet handled
    got       \* name -> query whose result the callback got last (0: none)

vars == << sock, lst, lastQ, reqs, resps, got >>

Queries == 1..MaxQuery

Listener == [model: Models, id: Ids \cup {NULL}, query: Queries,
             loading: BOOLEAN]

TypeOK ==
    /\ sock \in {"none", "down", "open"}
    /\ lst \in [Names -> Listener \cup {NULL}]
    /\ lastQ \in 0..MaxQuery
    /\ reqs \in Seq(Names \X Queries) /\ resps \in Seq(Names \X Queries)
    /\ got \in [Names -> 0..MaxQuery]

-----------------------------------------------------------------------------
(* Helpers of the code                                                     *)

Exists(n) == lst[n] # NULL

\* _graphqlSocket + YekongaSocket.emit without an ack: the requests reach
\* the connection only when the socket exists and is open.
SendAll(rs, up) == reqs' = IF up THEN reqs \o rs ELSE reqs

\* graphql(query, cb, name, true) for every listener in S (all idle): set
\* loading, then send one request per listener with its current query on
\* a socket that is open (up) or not.
Refresh(S, up) ==
    /\ lst' = [n \in Names |-> IF n \in S THEN [lst[n] EXCEPT !.loading = TRUE]
                                           ELSE lst[n]]
    /\ SendAll(SetToSeq({ <<n, lst[n].query>> : n \in S }), up)

\* The filter of _refreshListeners for a 'database' event: a listener with
\* an id matches an event with an id by id; otherwise by model.
Matches(l, md, id) ==
    IF l.id # NULL /\ id # NULL THEN l.id = id ELSE l.model = md

\* The idle listeners a refresh re-runs.
Idle == { n \in Names : Exists(n) /\ ~lst[n].loading }

-----------------------------------------------------------------------------
(* Application calls                                                       *)

\* Mutant of Live: the listener record is stored without its loading field.
LiveNoLoading(n, md, id) ==
    /\ lastQ < MaxQuery
    /\ lastQ' = lastQ + 1
    /\ IF n \in Idle \/ ~Exists(n) THEN SendAll(<< <<n, lastQ + 1>> >>, sock = "open")
                                   ELSE UNCHANGED reqs
    /\ lst' = [lst EXCEPT ![n] = [model |-> md, id |-> id,
                                  query |-> lastQ + 1]]
    /\ got' = [got EXCEPT ![n] = 0]
    /\ UNCHANGED << sock, resps >>

\* live(model, query, callback, name, id): graphql() runs first, against
\* the listener already stored under name (a loading one sends nothing);
\* then a new listener, not loading, replaces it.
Live(n, md, id) ==
    /\ lastQ < MaxQuery
    /\ lastQ' = lastQ + 1
    /\ IF n \in Idle \/ ~Exists(n) THEN SendAll(<< <<n, lastQ + 1>> >>, sock = "open")
                                   ELSE UNCHANGED reqs
    /\ lst' = [lst EXCEPT ![n] = [model |-> md, id |-> id,
                                  query |-> lastQ + 1, loading |-> FALSE]]
    /\ got' = [got EXCEPT ![n] = 0]
    /\ UNCHANGED << sock, resps >>

\* liveUpdate(query, name): the query is replaced, then graphql() runs
\* unless the listener is loading.
LiveUpdate(n) ==
    /\ Exists(n) /\ lastQ < MaxQuery
    /\ lastQ' = lastQ + 1
    /\ IF lst[n].loading
       THEN /\ lst' = [lst EXCEPT ![n].query = lastQ + 1]
            /\ UNCHANGED reqs
       ELSE /\ lst' = [lst EXCEPT ![n].query = lastQ + 1, ![n].loading = TRUE]
            /\ SendAll(<< <<n, lastQ + 1>> >>, sock = "open")
    /\ UNCHANGED << sock, resps, got >>

\* liveRemove(id): the entry is set to undefined.
LiveRemove(n) ==
    /\ Exists(n)
    /\ lst' = [lst EXCEPT ![n] = NULL]
    /\ UNCHANGED << sock, lastQ, reqs, resps, got >>

-----------------------------------------------------------------------------
(* Socket events                                                           *)

\* _initSocket's interval finds window.YekongaSocket: the sockets are
\* created (connecting) and the handlers registered.
SocketInit ==
    /\ sock = "none"
    /\ sock' = "down"
    /\ UNCHANGED << lst, lastQ, reqs, resps, got >>

\* The socket opens and its 'connect' handler re-runs every listener.
OnConnect ==
    /\ sock = "down"
    /\ sock' = "open"
    /\ Refresh(Idle, TRUE)
    /\ UNCHANGED << lastQ, resps, got >>

\* The connection drops; what it carried is lost.
SockDrop ==
    /\ Drops /\ sock = "open"
    /\ sock' = "down"
    /\ reqs' = << >> /\ resps' = << >>
    /\ UNCHANGED << lst, lastQ, got >>

\* The server reads the oldest request and answers it (environment).
ServerAnswer ==
    /\ sock = "open" /\ reqs # << >>
    /\ reqs' = Tail(reqs)
    /\ resps' = Append(resps, Head(reqs))
    /\ UNCHANGED << sock, lst, lastQ, got >>

\* 'graphql-response' {listener, body}: the listener stored under that
\* name now gets the body and stops loading.
OnResponse ==
    /\ sock = "open" /\ resps # << >>
    /\ resps' = Tail(resps)
    /\ LET n == Head(resps)[1]
           q == Head(resps)[2] IN
       IF Exists(n)
       THEN /\ got' = [got EXCEPT ![n] = q]
            /\ lst' = [lst EXCEPT ![n].loading = FALSE]
       ELSE UNCHANGED << got, lst >>
    /\ UNCHANGED << sock, lastQ, reqs >>

\* 'database' {action, model, id}: every idle listener the change matches
\* is re-run.
OnDatabase(md, id) ==
    /\ sock = "open"
    /\ Refresh({ n \in Idle : Matches(lst[n], md, id) }, TRUE)
    /\ UNCHANGED << sock, lastQ, resps, got >>

-----------------------------------------------------------------------------

Init ==
    /\ sock = "none"
    /\ lst = [n \in Names |-> NULL]
    /\ lastQ = 0
    /\ reqs = << >> /\ resps = << >>
    /\ got = [n \in Names |-> 0]

Next ==
    \/ \E n \in Names, md \in Models, id \in Ids \cup {NULL} : Live(n, md, id)
    \/ \E n \in Names : LiveUpdate(n) \/ LiveRemove(n)
    \/ SocketInit \/ OnConnect \/ SockDrop \/ ServerAnswer \/ OnResponse
    \/ \E md \in Models, id \in Ids \cup {NULL} : OnDatabase(md, id)

\* The interval finds the socket library, the socket reconnects, and the
\* server answers and its answers are handled.  The application, the
\* database and the network failures are not fair.
Fairness ==
    /\ WF_vars(SocketInit) /\ WF_vars(OnConnect)
    /\ WF_vars(ServerAnswer) /\ WF_vars(OnResponse)

Spec == Init /\ [][Next]_vars /\ Fairness

-----------------------------------------------------------------------------
(* Properties                                                              *)

\* A listener that is loading eventually stops loading (or is removed):
\* 'loading' suppresses every refresh of it, and only a 'graphql-response'
\* clears it.
NoListenerStuckLoading ==
    \A n \in Names :
        (Exists(n) /\ lst[n].loading) ~> (~Exists(n) \/ ~lst[n].loading)

\* Every listener eventually receives the result of its current query,
\* also when liveUpdate() changed the query while an older one was in
\* flight.
CurrentQueryServed ==
    \A n \in Names :
        Exists(n) ~> (~Exists(n) \/ got[n] = lst[n].query)

=============================================================================

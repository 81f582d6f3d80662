-------------------------------- MODULE Egress --------------------------------
(***************************************************************************)
(* The two ways out of the investigator's network (deploy/sidecars/).      *)
(*                                                                         *)
(* The tool gate forwards the MCP calls a client's list permits and keeps  *)
(* a ledger of what reached the server (gate.py, common.py).  Its requests *)
(* are served by threads that share nothing but the ledger, so one of them *)
(* is enough; a row is written if it can be.                               *)
(*                                                                         *)
(* The proxy resolves a listed name once, vets every address that gives    *)
(* and dials one of those (proxy.py, common.py).  One connection; a host   *)
(* and an address stand for their class, and what the host resolves to may *)
(* change at any moment.                                                   *)
(***************************************************************************)
EXTENDS Integers, Sequences, FiniteSets

CONSTANTS
    \* the gate
    Ids,        \* request ids of one batch
    MaxBatch,   \* bound: messages in a batch
    \* the proxy
    Hosts,      \* names asked for
    ListedHosts,\* EGRESS_ALLOW
    Peers,      \* EGRESS_INTERNAL
    Public, Compose, Elsewhere, \* addresses: on the internet, of a bridge network, neither
    MaxAddrs    \* bound: addresses of a name

EgressAssumption ==
    /\ ListedHosts \cup Peers \subseteq Hosts /\ MaxAddrs \in Nat
    /\ Public \cap Compose = {} /\ (Public \cup Compose) \cap Elsewhere = {}

VARIABLES
    message,    \* the request: where it is and the batch it carries
    ledger,     \* rows it left, by message
    unlogged,   \* history: messages of which a row was lost
    reached,    \* history: what the MCP server got
    answers     \* what each message was answered
VARIABLES
    resolver,   \* what the host resolves to now
    conn,       \* the connection: where it is, its host, addresses still to try
    dialled     \* history: host and address of every socket opened

gateVars   == <<message, ledger, unlogged, reached, answers>>
egressVars == <<resolver, conn, dialled>>

-----------------------------------------------------------------------------
\* The tool gate.

\* A tool call that the client's list permits or not, a method passed as it is,
\* a method nobody listed, and what carries no request: notifications, replies.
Asks  == {"permitted", "barred", "passed", "unheard", "silent"}
Items == [id : Ids, ask : Asks]
Calls(B)   == {i \in B : i.ask = "permitted"}
Refused(B) == {i \in B : i.ask \in {"barred", "unheard"}}
Asking(B)  == {i \in B : i.ask # "silent"}
Rows(S, event) == {[item |-> i, event |-> event] : i \in S}

GateInit ==
    /\ message = [pc |-> "new", batch |-> {}]
    /\ ledger = {} /\ unlogged = {} /\ reached = {} /\ answers = {}

\* Ledger.write, row by row: best effort, for lack of a path or of disk, and the
\* call goes on.
Write(rows) ==
    \E lost \in SUBSET rows :
        /\ ledger' = ledger \cup (rows \ lost)
        /\ unlogged' = unlogged \cup {row.item : row \in lost}

\* A token the gate does not know, or one with no tools on this route; a body
\* that is too long or not JSON: answered, and nothing more is read.
Unauthorized ==
    /\ message.pc = "new"
    /\ message' = [message EXCEPT !.pc = "over"]
    /\ UNCHANGED <<ledger, unlogged, reached, answers>>

\* do_POST: one refused message withholds the whole batch.  An answer is looked
\* up by id, so a message that shares a refused one's id is told the same.
Judge(B) ==
    /\ message.pc = "new" /\ B # {}
    /\ IF Refused(B) # {}
       THEN /\ Write(Rows({i \in B : i.ask = "barred"}, "refused") \cup Rows(Calls(B), "withheld"))
            /\ answers' = {[item |-> i, said |-> IF \E j \in Refused(B) : j.id = i.id
                                                 THEN "refused" ELSE "withheld"] : i \in Asking(B)}
            /\ message' = [pc |-> "over", batch |-> B]
       ELSE /\ message' = [pc |-> "relay", batch |-> B]
            /\ UNCHANGED <<ledger, unlogged, answers>>
    /\ UNCHANGED reached

\* _relay: one POST to the one configured address, no redirect followed.
Relay(arrives) ==
    /\ message.pc = "relay"
    /\ reached' = IF arrives THEN message.batch ELSE {}
    /\ message' = [message EXCEPT !.pc = IF arrives THEN "waiting" ELSE "lost"]
    /\ UNCHANGED <<ledger, unlogged, answers>>

\* Seeded fault: the row is written for what the gate meant to send.
RelayedEarly(how) ==
    /\ message.pc = "relay" /\ how = "answered"
    /\ Write(Rows(Calls(message.batch), "forwarded"))
    /\ message' = [message EXCEPT !.pc = "over"]
    /\ answers' = {} /\ UNCHANGED reached

\* What came back: an answer, an error of the server's, or none that is whole:
\* silence, a cut, too many bytes, a body the filter cannot read.  (A failure's one
\* row names every call of the batch; here it is a row of each.)
Relayed(how) ==
    /\ \/ how = "failed" /\ message.pc \in {"waiting", "lost"}
       \/ how = "answered" /\ message.pc = "waiting"
    /\ Write(Rows(Calls(message.batch), IF how = "answered" THEN "forwarded" ELSE "failed"))
    /\ answers' = {[item |-> i, said |-> how] : i \in Asking(message.batch)}
    /\ message' = [message EXCEPT !.pc = "over"]
    /\ UNCHANGED reached

GateDies ==
    /\ message.pc \notin {"new", "over"}
    /\ message' = [message EXCEPT !.pc = "died"]
    /\ UNCHANGED <<ledger, unlogged, reached, answers>>

GateNext ==
    \/ Unauthorized \/ GateDies
    \/ \E B \in SUBSET Items : Cardinality(B) <= MaxBatch /\ Judge(B)
    \/ \E yes \in BOOLEAN : Relay(yes)
    \/ \E how \in {"answered", "failed"} : Relayed(how)

GateSpec == GateInit /\ [][GateNext]_gateVars

-----------------------------------------------------------------------------
\* The ledger says what reached the server, not what the gate meant to send: a
\* forwarded row is of a call that got there, a refused or withheld one of a call
\* that did not.  A call that got there and left no row that says so is one whose
\* row could not be written, or the gate died: the ledger is best effort.
RowsTellWhatReached ==
    /\ \A row \in ledger :
         /\ row.event = "forwarded" => row.item \in reached
         /\ row.event \in {"refused", "withheld"} => row.item \notin reached
    /\ message.pc = "over" =>
         \A i \in Calls(reached) \ unlogged :
             \E row \in ledger : row.item = i /\ row.event \in {"forwarded", "failed"}

-----------------------------------------------------------------------------
\* The proxy.

Addrs   == Public \cup Compose \cup Elsewhere
Answers == UNION {[1..n -> Addrs] : n \in 0..MaxAddrs}
NoConn  == [pc |-> "new", host |-> "none", todo |-> <<>>]

EgressInit == resolver = <<>> /\ conn = NoConn /\ dialled = {}

-----------------------------------------------------------------------------
\* Whoever answers for the name changes what it points to.
Rebind(s) ==
    /\ conn.pc \notin {"new", "refused", "closed"}
    /\ resolver' = s
    /\ UNCHANGED <<conn, dialled>>

\* permitted and internal: the lists are consulted before any lookup, a peer
\* first.  `strange` is a port nobody opens, or a request line that is not one.
Decide(h, strange) ==
    /\ conn.pc = "new"
    /\ conn' = [NoConn EXCEPT !.host = h,
                  !.pc = IF strange \/ h \notin Peers \cup ListedHosts THEN "refused" ELSE "listed"]
    /\ UNCHANGED <<resolver, dialled>>

\* Where a name of its kind may point.
MayPoint(h) == IF h \in Peers THEN Compose ELSE Public

\* resolve: every address is vetted, and one that is out of place refuses all.
Resolve ==
    /\ conn.pc = "listed"
    /\ conn' = IF resolver # <<>> /\ \A k \in DOMAIN resolver : resolver[k] \in MayPoint(conn.host)
               THEN [conn EXCEPT !.pc = "vetted", !.todo = resolver]
               ELSE [conn EXCEPT !.pc = "refused"]
    /\ UNCHANGED <<resolver, dialled>>

\* Seeded fault: the vetted name is dialled, and so looked up once more.
ConnectByName(answered) ==
    /\ conn.pc = "vetted" /\ resolver # <<>>
    /\ dialled' = dialled \cup {[host |-> conn.host, addr |-> Head(resolver)]}
    /\ conn' = [conn EXCEPT !.pc = "spliced", !.todo = <<>>]
    /\ UNCHANGED resolver

\* connect: the vetted addresses in turn, until one answers.
Connect(answered) ==
    /\ conn.pc = "vetted" /\ conn.todo # <<>>
    /\ dialled' = dialled \cup {[host |-> conn.host, addr |-> Head(conn.todo)]}
    /\ conn' = [conn EXCEPT !.pc = IF answered THEN "spliced"
                                   ELSE IF Len(conn.todo) = 1 THEN "refused" ELSE "vetted",
                            !.todo = IF answered THEN <<>> ELSE Tail(@)]
    /\ UNCHANGED resolver

\* pump: either end stops, or nothing moves for long enough.
Splice ==
    /\ conn.pc = "spliced" /\ conn' = [conn EXCEPT !.pc = "closed"]
    /\ UNCHANGED <<resolver, dialled>>

EgressNext ==
    \/ Resolve \/ Splice \/ \E yes \in BOOLEAN : Connect(yes)
    \/ \E s \in Answers : Rebind(s)
    \/ \E h \in Hosts, strange \in BOOLEAN : Decide(h, strange)

EgressSpec == EgressInit /\ [][EgressNext]_egressVars

-----------------------------------------------------------------------------
\* A socket is opened only to an address where a name of that kind may point,
\* though the name may point elsewhere by the time it is dialled.
DialledWasVetted ==
    \A d \in dialled : d.host \in Peers \cup ListedHosts /\ d.addr \in MayPoint(d.host)
=============================================================================

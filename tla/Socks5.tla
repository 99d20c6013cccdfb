-------------------------------- MODULE Socks5 --------------------------------
(***************************************************************************)
(* SOCKS5Dialer of internal/node/node.go: a connection to the proxy, the   *)
(* choice of a method, the request, and a reply whose length depends on    *)
(* the type of the address in it, before the target's own bytes follow on  *)
(* the same connection.                                                    *)
(*                                                                         *)
(* The proxy and the connection are external: every call may fail, the     *)
(* deadline of the context included.                                       *)
(*                                                                         *)
(* An operator named after another with a suffix (SkippedIPv4) is a slip   *)
(* the code could have had, kept to show that a property notices.          *)
(***************************************************************************)
EXTENDS Naturals

CONSTANT NameLengths   \* lengths of a name that a reply may hold

ASSUME Socks5Assumption == NameLengths \subseteq 0 .. 255

VARIABLES
    at,        \* where the dialer is
    conn,      \* the connection: "none", "open" or "closed"
    deadline,  \* whether it has one
    reply,     \* the reply on its way: code, type of the address, length of a name
    taken,     \* bytes of the reply that were read
    dialed     \* what the dialer returns: "conn" or "error"

socksVars == <<at, conn, deadline, reply, taken, dialed>>

\* 1, 3 and 4 are the types of RFC 1928.
Replies == [code : {0, 1}, type : {1, 4}, name : {0}] \cup [code : {0, 1}, type : {3}, name : NameLengths]
NoReply == [code |-> 0, type |-> 0, name |-> 0]

SocksInit ==
    /\ at = "dial" /\ conn = "none" /\ deadline = FALSE
    /\ reply = NoReply /\ taken = 0 /\ dialed = "nothing"

\* A context without a deadline leaves the connection without one.
Dial ==
    /\ at = "dial"
    /\ at' = "method" /\ conn' = "open"
    /\ deadline' \in BOOLEAN
    /\ UNCHANGED <<reply, taken, dialed>>

Closed == IF conn = "open" THEN "closed" ELSE conn

\* The proxy cannot be reached, refuses the method or the request, or a call fails.
SocksFail ==
    /\ at \in {"dial", "method", "request", "head", "length", "rest"}
    /\ at' = "end" /\ dialed' = "error" /\ conn' = Closed
    /\ UNCHANGED <<deadline, reply, taken>>

Method ==
    /\ at = "method"
    /\ at' = "request"
    /\ UNCHANGED <<conn, deadline, reply, taken, dialed>>

Request ==
    /\ at = "request"
    /\ reply' \in Replies
    /\ at' = "head"
    /\ UNCHANGED <<conn, deadline, taken, dialed>>

ReadReplyHead ==
    /\ at = "head" /\ reply.code = 0
    /\ taken' = 4
    /\ at' = IF reply.type = 3 THEN "length" ELSE "rest"
    /\ UNCHANGED <<conn, deadline, reply, dialed>>

ReadLength ==
    /\ at = "length"
    /\ taken' = taken + 1
    /\ at' = "rest"
    /\ UNCHANGED <<conn, deadline, reply, dialed>>

\* The address and, in any case, the port.
SkippedIPv4 == 4
Skipped == CASE reply.type = 1 -> 4
             [] reply.type = 4 -> 16
             [] OTHER -> reply.name

ReadRest ==
    /\ at = "rest"
    /\ taken' = taken + Skipped + 2
    /\ at' = "end" /\ dialed' = "conn" /\ deadline' = FALSE
    /\ UNCHANGED <<conn, reply>>

SocksNext == \/ Dial \/ SocksFail \/ Method \/ Request
             \/ ReadReplyHead \/ ReadLength \/ ReadRest

SocksSpec == SocksInit /\ [][SocksNext]_socksVars

-----------------------------------------------------------------------------
(* Properties. *)

\* A connection that is handed over stands exactly where the target's bytes begin: the
\* next reader, the HTTP client or the ZMTP check, sees nothing of the reply and misses
\* nothing of the target, and no deadline of the dialling ends it later.  A dial that
\* fails, at whichever step, leaves no connection behind.
HandedOverClean ==
    /\ dialed = "conn" =>
          /\ conn = "open" /\ ~deadline
          /\ reply.code = 0
          /\ taken = 6 + (CASE reply.type = 1 -> 4 [] reply.type = 4 -> 16 [] reply.type = 3 -> 1 + reply.name)
    /\ dialed = "error" => conn # "open"
=============================================================================

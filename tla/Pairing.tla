------------------------------ MODULE Pairing ------------------------------
(***************************************************************************)
(* Enrolment of Linux clients with the bridge (bridge/src/pairing.rs,      *)
(* tls.rs, commands.rs, config.rs; setup/src/enroll.rs).                   *)
(*                                                                         *)
(* On the Mac, `init` and `pair --rotate` write the ticket (a code and     *)
(* when it expires) into config.toml; `init` then makes the CA, its key,   *)
(* the server's certificate and key, one file after the other, unless      *)
(* there is a ca.pem.  Each file is truncated before it is written.        *)
(* `serve` loads them and a copy of the ticket.  A request to enrol passes *)
(* the rate limit, reads the ticket that is on disk, compares its code     *)
(* with what it read and is signed, or is counted as a wrong attempt under *)
(* a lock taken again; a command may write between any two of these steps. *)
(* The client writes the CA, its certificate, its key and its config.toml. *)
(*                                                                         *)
(* Any process may end between two of its steps.  The requests modelled    *)
(* come from one address, which is what the limit counts by, and one       *)
(* command runs on the Mac at a time.                                      *)
(***************************************************************************)
EXTENDS Naturals, FiniteSets

CONSTANTS
    Clients,        \* Linux machines that enrol
    MaxAttempts,    \* MAX_ATTEMPTS_PER_IP (5 in the code)
    Window,         \* ATTEMPT_WINDOW, in ticks (300 s)
    Ttl,            \* CODE_TTL, in ticks (900 s)
    MaxTime,        \* bound: ticks
    MaxCodes,       \* bound: codes made
    MaxKeys         \* bound: key pairs made by the clients

ASSUME PairingAssumption ==
    /\ IsFiniteSet(Clients)
    /\ MaxAttempts \in Nat \ {0} /\ Window \in Nat \ {0} /\ Ttl \in Nat \ {0}
    /\ MaxTime \in Nat /\ MaxCodes \in Nat /\ MaxKeys \in Nat

VARIABLES
    now,
    codes, keys,        \* codes and client keys made so far
    conf,               \* the Mac's config.toml: the ticket in it
    cmd,                \* the command that runs on the Mac
    files,              \* PEM file of the Mac -> the CA it belongs to (0: no file)
    torn,               \* the PEM files that were truncated and not written since
    server,             \* the serving process: its copy of the ticket, its CA
    attempts,           \* the wrong attempts it remembers: when, and with which key
    pc, key,            \* client -> what `setup pair` does, its key
    asked,              \* client -> its request: the code typed, the ticket read for it
                        \* and (history) the code on disk since it was sent
    answer,             \* client -> the CA it was answered with
    machine,            \* client -> its files
    partial             \* client -> a pairing has begun to write them, not finished

mac == <<conf, cmd, files, torn>>
request == <<key, asked>>
disk == <<machine, partial>>
vars == <<now, codes, keys, conf, cmd, files, torn, server, attempts, pc, key, asked,
          answer, machine, partial>>

\* code 0: none; expires 0: never, a ticket of a build that had no expiry
Ticket == [code : 0..MaxCodes, expires : 0..(MaxTime + Ttl)]
NoTicket == [code |-> 0, expires |-> 0]
Pems == {"ca", "ca_key", "cert", "cert_key"}
Cas == 0..1
Requests == {"sent", "checked", "read", "matched", "wrong"}    \* what the bridge is at
Writing == {"ca", "cert", "key"}                               \* what the client is at
NoCert == [key |-> 0, ca |-> 0]
Nothing == [code |-> 0, since |-> 0, ticket |-> NoTicket]
NoCommand == [op |-> "init", ticket |-> NoTicket, pc |-> "idle"]
NoFiles == [ca |-> 0, cert |-> NoCert, key |-> 0, config |-> FALSE]

TypeOK ==
    /\ now \in 0..MaxTime /\ codes \in 0..MaxCodes /\ keys \in 0..MaxKeys
    /\ conf \in [state : {"absent", "torn", "whole"}, ticket : Ticket]
    /\ cmd \in [op : {"init", "rotate"}, ticket : Ticket,
                pc : {"idle", "loaded", "truncated", "saved"} \cup Pems]
    /\ files \in [Pems -> Cas] /\ torn \subseteq Pems
    /\ server \in [up : BOOLEAN, ticket : Ticket, ca : Cas]
    /\ attempts \subseteq [at : 0..MaxTime, key : 0..MaxKeys]
    /\ pc \in [Clients -> {"idle", "accepted"} \cup Requests \cup Writing]
    /\ key \in [Clients -> 0..MaxKeys]
    /\ asked \in [Clients -> [code : 0..MaxCodes, since : 0..MaxCodes, ticket : Ticket]]
    /\ answer \in [Clients -> Cas]
    /\ machine \in [Clients -> [ca : Cas, cert : [key : 0..MaxKeys, ca : Cas],
                                key : 0..MaxKeys, config : BOOLEAN]]
    /\ partial \in [Clients -> BOOLEAN]

\* A Mac that is new, or one that an earlier build set up.
Init ==
    /\ now = 0 /\ keys = 0
    /\ \/ /\ codes = 0 /\ conf = [state |-> "absent", ticket |-> NoTicket]
          /\ files = [p \in Pems |-> 0]
       \/ /\ MaxCodes > 0 /\ codes = 1
          /\ conf = [state |-> "whole", ticket |-> [code |-> 1, expires |-> 0]]
          /\ files = [p \in Pems |-> 1]
    /\ cmd = NoCommand /\ torn = {}
    /\ server = [up |-> FALSE, ticket |-> NoTicket, ca |-> 0]
    /\ attempts = {}
    /\ pc = [c \in Clients |-> "idle"]
    /\ key = [c \in Clients |-> 0] /\ asked = [c \in Clients |-> Nothing]
    /\ answer = [c \in Clients |-> 0]
    /\ machine = [c \in Clients |-> NoFiles]
    /\ partial = [c \in Clients |-> FALSE]

\* Config::load finds a file that parses, or none.
Loadable == conf.state # "torn"

\* pairing_code_valid
Valid(ticket) == ticket.code # 0 /\ (ticket.expires # 0 => now < ticket.expires)

-----------------------------------------------------------------------------
(* Commands on the Mac                                                      *)

Begin(op, ticket) == cmd' = [op |-> op, ticket |-> ticket, pc |-> "loaded"]

\* rotate_pairing_code, on the configuration that was loaded.
Rotated(op) ==
    /\ codes < MaxCodes
    /\ codes' = codes + 1
    /\ Begin(op, [code |-> codes', expires |-> now + Ttl])

\* init loads what it can, and keeps a ticket that is good.
StartInit ==
    /\ cmd.pc = "idle"
    /\ IF conf.state = "whole" /\ Valid(conf.ticket)
       THEN Begin("init", conf.ticket) /\ UNCHANGED codes
       ELSE Rotated("init")
    /\ UNCHANGED <<now, keys, conf, files, torn, server, attempts, pc, request, answer, disk>>

\* pair --rotate needs a file that parses, or none.
StartRotate ==
    /\ cmd.pc = "idle" /\ Loadable
    /\ Rotated("rotate")
    /\ UNCHANGED <<now, keys, conf, files, torn, server, attempts, pc, request, answer, disk>>

\* Config::save: fs::write truncates ...
Truncate ==
    /\ cmd.pc = "loaded"
    /\ conf' = [state |-> "torn", ticket |-> NoTicket]
    /\ cmd' = [cmd EXCEPT !.pc = "truncated"]
    /\ UNCHANGED <<now, codes, keys, files, torn, server, attempts, pc, request, answer, disk>>

\* ... and writes.
Save ==
    /\ cmd.pc = "truncated"
    /\ conf' = [state |-> "whole", ticket |-> cmd.ticket]
    /\ cmd' = IF cmd.op = "init" THEN [cmd EXCEPT !.pc = "saved", !.ticket = NoTicket]
              ELSE NoCommand
    /\ UNCHANGED <<now, codes, keys, files, torn, server, attempts, pc, request, answer, disk>>

\* Mutant: init makes a CA whether there is one or not.
MakeCaAnew ==
    /\ cmd.pc = "saved"
    /\ files' = [files EXCEPT !["ca"] = @ + 1]
    /\ torn' = torn \cup {"ca"}
    /\ cmd' = [cmd EXCEPT !.pc = "ca"]
    /\ UNCHANGED <<now, codes, keys, conf, server, attempts, pc, request, answer, disk>>

\* init_certs: a new CA, unless there is a ca.pem, be it empty.  A command at a PEM
\* file has truncated it.
MakeCa ==
    /\ cmd.pc = "saved"
    /\ IF files["ca"] = 0
       THEN /\ files' = [files EXCEPT !["ca"] = @ + 1]
            /\ torn' = torn \cup {"ca"}
            /\ cmd' = [cmd EXCEPT !.pc = "ca"]
       ELSE /\ cmd' = [cmd EXCEPT !.pc = "idle"]
            /\ UNCHANGED <<files, torn>>
    /\ UNCHANGED <<now, codes, keys, conf, server, attempts, pc, request, answer, disk>>

\* It writes the file ...
WritePem ==
    /\ cmd.pc \in torn
    /\ torn' = torn \ {cmd.pc}
    /\ cmd' = IF cmd.pc = "cert_key" THEN NoCommand ELSE cmd
    /\ UNCHANGED <<now, codes, keys, conf, files, server, attempts, pc, request, answer, disk>>

\* ... and truncates the next, all of the CA it has made.
TruncatePem ==
    /\ \E next \in {<<"ca", "ca_key">>, <<"ca_key", "cert">>, <<"cert", "cert_key">>} :
          /\ cmd.pc = next[1] /\ next[1] \notin torn
          /\ files' = [files EXCEPT ![next[2]] = files["ca"]]
          /\ torn' = torn \cup {next[2]}
          /\ cmd' = [cmd EXCEPT !.pc = next[2]]
    /\ UNCHANGED <<now, codes, keys, conf, server, attempts, pc, request, answer, disk>>

CommandDies ==
    /\ cmd.pc # "idle"
    /\ cmd' = NoCommand
    /\ UNCHANGED <<now, codes, keys, conf, files, torn, server, attempts, pc, request, answer, disk>>

-----------------------------------------------------------------------------
(* The serving process                                                      *)

\* The bridge reads a PEM file: it is there and whole.
Readable(p) == files[p] # 0 /\ p \notin torn

\* serve, load_server_config: refuses without a parsable file or a PEM it needs.
Serve ==
    /\ ~server.up /\ Loadable
    /\ \A p \in {"ca", "cert", "cert_key"} : Readable(p)
    /\ server' = [up |-> TRUE, ticket |-> conf.ticket, ca |-> files["ca"]]
    /\ attempts' = {}
    /\ UNCHANGED <<now, codes, keys, mac, pc, request, answer, disk>>

\* A request that is judged, or ends before, is forgotten.
Forget(C) == asked' = [c \in Clients |-> IF c \in C THEN Nothing ELSE asked[c]]

\* Requests under way end with it.
ServerDies ==
    /\ server.up
    /\ server' = [server EXCEPT !.up = FALSE]
    /\ pc' = [c \in Clients |-> IF pc[c] \in Requests THEN "idle" ELSE pc[c]]
    /\ Forget(Clients)
    /\ UNCHANGED <<now, codes, keys, mac, attempts, key, answer, disk>>

\* retain: the Vec of times of one address, as a set.  Each request has a key of its
\* own and is counted once, so there are as many members as times.
Retained == {attempt \in attempts : now - attempt.at < Window}

\* Mutant: one attempt too many.
RateLimitOffByOne(c) ==
    /\ pc[c] = "sent"
    /\ attempts' = Retained
    /\ pc' = [pc EXCEPT ![c] = IF Cardinality(attempts') <= MaxAttempts THEN "checked" ELSE "idle"]
    /\ UNCHANGED <<now, codes, keys, mac, server, request, answer, disk>>

\* rate_limit_ok
RateLimit(c) ==
    /\ pc[c] = "sent"
    /\ attempts' = Retained
    /\ pc' = [pc EXCEPT ![c] = IF Cardinality(attempts') < MaxAttempts THEN "checked" ELSE "idle"]
    /\ UNCHANGED <<now, codes, keys, mac, server, request, answer, disk>>

\* Mutant: the ticket is the one serve started with.
StaleTicket == server.ticket

\* live_pairing_config: the ticket on disk, or the copy when the file does not parse.
LiveTicket == IF Loadable THEN conf.ticket ELSE server.ticket

\* A request that passed the limit reads it.
ReadTicket(c) ==
    /\ pc[c] = "checked"
    /\ asked' = [asked EXCEPT ![c].ticket = LiveTicket, ![c].since = IF Loadable THEN @ ELSE 0]
    /\ pc' = [pc EXCEPT ![c] = "read"]
    /\ UNCHANGED <<now, codes, keys, mac, server, attempts, key, answer, disk>>

\* enroll_handler: a ticket that is good, and constant_time_eq, on what was read.
Verify(c) ==
    /\ pc[c] = "read"
    /\ pc' = [pc EXCEPT ![c] = IF ~Valid(asked[c].ticket) THEN "idle"
                               ELSE IF asked[c].code = asked[c].ticket.code THEN "matched"
                               ELSE "wrong"]
    /\ Forget({c})
    /\ UNCHANGED <<now, codes, keys, mac, server, attempts, key, answer, disk>>

\* sign_client_csr needs the CA and its key; the answer carries the ca.pem it signed
\* under.
Sign(c) ==
    /\ pc[c] = "matched"
    /\ IF Readable("ca") /\ Readable("ca_key")
       THEN /\ pc' = [pc EXCEPT ![c] = "accepted"]
            /\ answer' = [answer EXCEPT ![c] = files["ca"]]
       ELSE pc' = [pc EXCEPT ![c] = "idle"] /\ UNCHANGED answer
    /\ UNCHANGED <<now, codes, keys, mac, server, attempts, request, disk>>

\* record_attempt, and the answer 401.
RecordAttempt(c) ==
    /\ pc[c] = "wrong"
    /\ attempts' = Retained \cup {[at |-> now, key |-> key[c]]}
    /\ pc' = [pc EXCEPT ![c] = "idle"]
    /\ UNCHANGED <<now, codes, keys, mac, server, request, answer, disk>>

-----------------------------------------------------------------------------
(* setup pair, on a client                                                  *)

\* A new key and a request with a code the user was shown once, or mistyped.
Pair(c) ==
    /\ pc[c] = "idle" /\ server.up /\ keys < MaxKeys
    /\ keys' = keys + 1
    /\ key' = [key EXCEPT ![c] = keys']
    /\ \E code \in 0..codes :
          asked' = [asked EXCEPT ![c] = [code |-> code, since |-> conf.ticket.code,
                                         ticket |-> NoTicket]]
    /\ pc' = [pc EXCEPT ![c] = "sent"]
    /\ UNCHANGED <<now, codes, mac, server, attempts, answer, disk>>

\* The command or its connection ends.  An attempt not yet recorded is not.
GiveUp(c) ==
    /\ pc[c] # "idle"
    /\ pc' = [pc EXCEPT ![c] = "idle"]
    /\ Forget({c})
    /\ UNCHANGED <<now, codes, keys, mac, server, attempts, key, answer, disk>>

WriteClientCa(c) ==
    /\ pc[c] = "accepted"
    /\ machine' = [machine EXCEPT ![c].ca = answer[c]]
    /\ partial' = [partial EXCEPT ![c] = TRUE]
    /\ pc' = [pc EXCEPT ![c] = "ca"]
    /\ UNCHANGED <<now, codes, keys, mac, server, attempts, request, answer>>

WriteClientCert(c) ==
    /\ pc[c] = "ca"
    /\ machine' = [machine EXCEPT ![c].cert = [key |-> key[c], ca |-> answer[c]]]
    /\ pc' = [pc EXCEPT ![c] = "cert"]
    /\ UNCHANGED <<now, codes, keys, mac, server, attempts, request, answer, partial>>

WriteClientKey(c) ==
    /\ pc[c] = "cert"
    /\ machine' = [machine EXCEPT ![c].key = key[c]]
    /\ pc' = [pc EXCEPT ![c] = "key"]
    /\ UNCHANGED <<now, codes, keys, mac, server, attempts, request, answer, partial>>

WriteClientConfig(c) ==
    /\ pc[c] = "key"
    /\ machine' = [machine EXCEPT ![c].config = TRUE]
    /\ partial' = [partial EXCEPT ![c] = FALSE]
    /\ pc' = [pc EXCEPT ![c] = "idle"]
    /\ UNCHANGED <<now, codes, keys, mac, server, attempts, request, answer>>

-----------------------------------------------------------------------------

Tick ==
    /\ now < MaxTime
    /\ now' = now + 1
    /\ UNCHANGED <<codes, keys, mac, server, attempts, pc, request, answer, disk>>

Command == StartInit \/ StartRotate \/ Truncate \/ Save \/ MakeCa \/ WritePem \/ TruncatePem
           \/ CommandDies

Next ==
    \/ Tick \/ Command \/ Serve \/ ServerDies
    \/ \E c \in Clients :
          \/ Pair(c) \/ RateLimit(c) \/ ReadTicket(c) \/ Verify(c) \/ Sign(c)
          \/ RecordAttempt(c) \/ GiveUp(c)
          \/ WriteClientCa(c) \/ WriteClientCert(c) \/ WriteClientKey(c) \/ WriteClientConfig(c)

Spec == Init /\ [][Next]_vars

-----------------------------------------------------------------------------
(* Properties                                                               *)

\* The limit is checked under one lock and counted under a later one, so requests
\* that are checked together exceed it, but by no more than there are of them.
AttemptsBounded == Cardinality(Retained) < MaxAttempts + Cardinality(Clients)

\* "Enroll must read the ticket from disk", though a command may replace it between
\* the read, the comparison and the signature: a code that was replaced before the
\* request was sent is not taken for the right one, and the code that was on disk then
\* is taken for a wrong one only if a command has replaced it since.  A request that
\* met a file a command had not written to its end is judged by the copy of serve and
\* left out (its since is 0).
ReplacedCodeIsDead ==
    [][\A c \in Clients : pc[c] = "read" =>
          /\ pc'[c] = "matched" => asked[c].code >= asked[c].since
          /\ pc'[c] = "wrong" /\ asked[c].code = asked[c].since /\ conf.state = "whole" =>
                conf.ticket.code > asked[c].since]_vars

\* A client whose last pairing ran to its end holds a certificate for its key, made
\* by the CA it trusts, and the bridge serves with that CA, however often the Mac
\* was set up again and wherever a command ended before.
PairedIsTrusted ==
    \A c \in Clients : machine[c].config /\ ~partial[c] =>
        /\ machine[c].cert = [key |-> machine[c].key, ca |-> machine[c].ca]
        /\ machine[c].ca = files["ca"]
        /\ server.up => server.ca = machine[c].ca
=============================================================================

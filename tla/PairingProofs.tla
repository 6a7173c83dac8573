---------------------------- MODULE PairingProofs ----------------------------
(***************************************************************************)
(* For any number of clients, codes and keys and any length of the window: *)
(* a client that finished its last pairing trusts the CA the bridge serves *)
(* with and holds a certificate of it, and a code that was replaced before *)
(* a request was sent is never the one it is compared with.                *)
(*                                                                         *)
(* The argument: once there is a ca.pem it never changes, so every CA a    *)
(* process, an answer or a client remembers is that one; and what a client *)
(* has written so far belongs to the one request it is at.                 *)
(***************************************************************************)
EXTENDS Pairing, FiniteSetTheorems, TLAPS

\* TypeOK without the wrong attempts, and with numbers as large as they like.
Typed ==
    /\ keys \in 0..MaxKeys /\ codes \in Nat
    /\ cmd \in [op : {"init", "rotate"}, ticket : [code : Nat, expires : Nat],
                pc : {"idle", "loaded", "truncated", "saved"} \cup Pems]
    /\ conf.ticket \in [code : Nat, expires : Nat]
    /\ now \in Nat
    /\ files \in [Pems -> Cas] /\ torn \subseteq Pems
    /\ server.up \in BOOLEAN /\ server.ca \in Cas
    /\ server = [up |-> server.up, ticket |-> server.ticket, ca |-> server.ca]
    /\ pc \in [Clients -> {"idle", "accepted"} \cup Requests \cup Writing]
    /\ key \in [Clients -> 0..MaxKeys]
    /\ answer \in [Clients -> Cas]
    /\ machine \in [Clients -> [ca : Cas, cert : [key : 0..MaxKeys, ca : Cas],
                                key : 0..MaxKeys, config : BOOLEAN]]
    /\ partial \in [Clients -> BOOLEAN]

\* A CA that anybody knows of is the one on the Mac's disk.
OneCa ==
    /\ (\E p \in Pems : files[p] # 0) => files["ca"] = 1
    /\ cmd.pc \in Pems => files["ca"] = 1
    /\ server.up => files["ca"] = 1 /\ server.ca = 1
    /\ \A c \in Clients :
          /\ pc[c] \in {"accepted", "ca", "cert", "key"} => files["ca"] = 1 /\ answer[c] = 1
          /\ machine[c].config /\ ~partial[c] => files["ca"] = 1 /\ machine[c].ca = 1

\* What a client has written of the pairing it is at.
WrittenSoFar ==
    \A c \in Clients :
        /\ pc[c] \in {"ca", "cert", "key"} => partial[c] /\ machine[c].ca = answer[c]
        /\ pc[c] \in {"cert", "key"} => machine[c].cert = [key |-> key[c], ca |-> answer[c]]
        /\ pc[c] = "key" => machine[c].key = key[c]
        /\ machine[c].config /\ ~partial[c] =>
              machine[c].cert = [key |-> machine[c].key, ca |-> machine[c].ca]

-----------------------------------------------------------------------------

\* What the steps on the Mac have in common.
MacStep ==
    /\ UNCHANGED <<keys, pc, request, answer, disk>>
    /\ files["ca"] = 1 => files'["ca"] = 1

LEMMA CommandsKeepTheCa ==
    ASSUME Typed, OneCa, Tick \/ Command
    PROVE  MacStep /\ UNCHANGED server
<1> USE DEF Typed, OneCa, MacStep, Pems, Cas, mac
<1>1. CASE Tick \/ StartInit \/ StartRotate \/ Truncate \/ Save \/ CommandDies
  BY <1>1 DEF Tick, StartInit, StartRotate, Truncate, Save, CommandDies
<1>2. CASE MakeCa
  BY <1>2 DEF MakeCa
<1>3. CASE WritePem \/ TruncatePem
  BY <1>3 DEF WritePem, TruncatePem
<1>4. QED
  BY <1>1, <1>2, <1>3 DEF Command

LEMMA MacTypes ==
    ASSUME Typed, OneCa, Tick \/ Command
    PROVE  /\ cmd' \in [op : {"init", "rotate"}, ticket : [code : Nat, expires : Nat],
                pc : {"idle", "loaded", "truncated", "saved"} \cup Pems]
           /\ conf'.ticket \in [code : Nat, expires : Nat]
           /\ files' \in [Pems -> Cas] /\ torn' \subseteq Pems
           /\ now' \in Nat /\ codes' \in Nat
           /\ (\E p \in Pems : files'[p] # 0) => files'["ca"] = 1
           /\ cmd'.pc \in Pems => files'["ca"] = 1
<1> USE PairingAssumption DEF Typed, OneCa, mac, NoTicket, NoCommand
<1>1. CASE Tick \/ CommandDies
  BY <1>1 DEF Tick, CommandDies, Pems
<1>2. CASE StartInit \/ StartRotate
  <2>1. ASSUME NEW op \in {"init", "rotate"}, Rotated(op)
        PROVE  /\ cmd' \in [op : {"init", "rotate"}, ticket : [code : Nat, expires : Nat],
                            pc : {"loaded"}]
               /\ codes' \in Nat
    <3>1. codes' \in Nat /\ now + Ttl \in Nat
      BY <2>1 DEF Rotated
    <3>2. cmd' = [op |-> op, ticket |-> [code |-> codes', expires |-> now + Ttl], pc |-> "loaded"]
      BY <2>1 DEF Rotated, Begin
    <3>3. QED
      BY <3>1, <3>2
  <2>2. UNCHANGED <<now, conf, files, torn>>
    BY <1>2 DEF StartInit, StartRotate
  <2>3. CASE Rotated("init") \/ Rotated("rotate")
    BY <2>1, <2>2, <2>3 DEF Pems
  <2>4. CASE Begin("init", conf.ticket) /\ UNCHANGED codes
    BY <2>2, <2>4 DEF Begin, Pems
  <2>5. QED
    BY <1>2, <2>3, <2>4 DEF StartInit, StartRotate
<1>3. CASE Truncate \/ Save
  <2>0. UNCHANGED <<now, codes, files, torn>>
    BY <1>3 DEF Truncate, Save
  <2>1. CASE Truncate
    <3>1. conf'.ticket = [code |-> 0, expires |-> 0] /\ cmd' = [cmd EXCEPT !.pc = "truncated"]
      BY <2>1 DEF Truncate
    <3>2. QED
      BY <2>0, <3>1 DEF Pems
  <2>2. CASE Save
    <3>1. conf'.ticket = cmd.ticket
      BY <2>2 DEF Save
    <3>2. NoTicket \in [code : Nat, expires : Nat] /\ cmd.ticket \in [code : Nat, expires : Nat]
      OBVIOUS
    <3>3. \/ cmd' = [op |-> cmd.op, ticket |-> NoTicket, pc |-> "saved"]
          \/ cmd' = [op |-> "init", ticket |-> NoTicket, pc |-> "idle"]
      BY <2>2 DEF Save
    <3> HIDE DEF NoTicket
    <3>4. QED
      BY <2>0, <3>1, <3>2, <3>3 DEF Pems
  <2>3. QED
    BY <1>3, <2>1, <2>2
<1>4. CASE MakeCa
  <2>1. CASE files["ca"] = 0
    <3>1. /\ files' = [files EXCEPT !["ca"] = 1] /\ cmd' = [cmd EXCEPT !.pc = "ca"]
          /\ torn' = torn \cup {"ca"}
      BY <1>4, <2>1 DEF MakeCa, Pems
    <3>2. files' \in [Pems -> Cas] /\ files'["ca"] = 1 /\ torn' \subseteq Pems
      BY <3>1 DEF Pems, Cas
    <3>3. QED
      BY <1>4, <3>1, <3>2 DEF MakeCa
  <2>2. CASE files["ca"] # 0
    BY <1>4, <2>2 DEF MakeCa, Pems, Cas
  <2>3. QED
    BY <2>1, <2>2
<1>5. CASE WritePem
  <2>1. /\ UNCHANGED <<now, codes, conf, files>> /\ torn' \subseteq torn
        /\ cmd' = [op |-> "init", ticket |-> NoTicket, pc |-> "idle"] \/ cmd' = cmd
    BY <1>5 DEF WritePem
  <2>2. QED
    BY <2>1 DEF Pems
<1>6. CASE TruncatePem
  <2>1. PICK next \in {<<"ca", "ca_key">>, <<"ca_key", "cert">>, <<"cert", "cert_key">>} :
           /\ cmd.pc = next[1]
           /\ files' = [files EXCEPT ![next[2]] = files["ca"]]
           /\ torn' = torn \cup {next[2]}
           /\ cmd' = [cmd EXCEPT !.pc = next[2]]
    BY <1>6 DEF TruncatePem
  <2>2. next[1] \in Pems /\ next[2] \in {"ca_key", "cert", "cert_key"}
    BY <2>1 DEF Pems
  <2>3. files["ca"] = 1
    BY <2>1, <2>2
  <2>4. files' \in [Pems -> Cas] /\ files'["ca"] = 1 /\ torn' \subseteq Pems
    BY <2>1, <2>2, <2>3 DEF Pems, Cas
  <2>5. cmd' \in [op : {"init", "rotate"}, ticket : [code : Nat, expires : Nat],
                 pc : {"ca_key", "cert", "cert_key"}]
    BY <2>1, <2>2
  <2>6. QED
    BY <1>6, <2>4, <2>5 DEF TruncatePem, Pems
<1>7. QED
  BY <1>1, <1>2, <1>3, <1>4, <1>5, <1>6 DEF Command

\* The steps of a request leave the Mac alone, but for the wrong attempts.
RequestStep(c) ==
    \/ Pair(c) \/ RateLimit(c) \/ ReadTicket(c) \/ Verify(c) \/ Sign(c)
    \/ RecordAttempt(c) \/ GiveUp(c)

LEMMA RequestSteps ==
    ASSUME Typed, OneCa, NEW c \in Clients, RequestStep(c)
    PROVE  /\ UNCHANGED <<now, codes, mac, server, disk>>
           /\ pc' \in [Clients -> {"idle", "accepted"} \cup Requests \cup Writing]
           /\ pc'[c] \notin Writing
           /\ \A d \in Clients : d # c => pc'[d] = pc[d] /\ answer'[d] = answer[d] /\ key'[d] = key[d]
           /\ keys' \in 0..MaxKeys /\ key' \in [Clients -> 0..MaxKeys]
           /\ answer' \in [Clients -> Cas]
           /\ pc'[c] = "accepted" => files["ca"] = 1 /\ answer'[c] = 1
<1> USE PairingAssumption DEF Typed, request
<1>1. CASE Pair(c)
  <2>1. keys' \in 0..MaxKeys
    BY <1>1 DEF Pair
  <2>2. QED
    BY <1>1, <2>1 DEF Pair, Requests, Writing
<1>2. CASE RateLimit(c) \/ ReadTicket(c) \/ Verify(c) \/ RecordAttempt(c) \/ GiveUp(c)
  <2>1. /\ \E next \in {"idle", "checked", "read", "matched", "wrong"} : pc' = [pc EXCEPT ![c] = next]
        /\ UNCHANGED <<now, codes, keys, key, mac, server, answer, disk>>
    BY <1>2 DEF RateLimit, ReadTicket, Verify, RecordAttempt, GiveUp
  <2>2. QED
    BY <2>1 DEF Requests, Writing
<1>3. CASE Sign(c)
  <2>0. UNCHANGED <<now, codes, keys, key, mac, server, disk>>
    BY <1>3 DEF Sign
  <2>1. CASE pc' = [pc EXCEPT ![c] = "accepted"] /\ answer' = [answer EXCEPT ![c] = files["ca"]]
             /\ Readable("ca")
    <3>1. files["ca"] = 1
      BY <2>1 DEF OneCa, Readable, Pems
    <3>2. QED
      BY <2>0, <2>1, <3>1 DEF Cas, Writing
  <2>2. CASE pc' = [pc EXCEPT ![c] = "idle"] /\ UNCHANGED answer
    BY <2>0, <2>2 DEF Writing
  <2>3. QED
    BY <1>3, <2>1, <2>2 DEF Sign
<1>4. QED
  BY <1>1, <1>2, <1>3 DEF RequestStep

LEMMA PairingInvariant == Spec => [](Typed /\ OneCa /\ WrittenSoFar)
<1> DEFINE IInv == Typed /\ OneCa /\ WrittenSoFar
<1>1. Init => IInv
  BY PairingAssumption DEF Init, Typed, OneCa, WrittenSoFar, NoCommand, NoTicket, NoFiles, NoCert,
     Pems, Cas, Requests, Writing
<1>2. IInv /\ [Next]_vars => IInv'
  <2> SUFFICES ASSUME Typed, OneCa, WrittenSoFar, [Next]_vars
               PROVE  Typed' /\ OneCa' /\ WrittenSoFar'
    OBVIOUS
  <2> USE DEF request, disk
  <2>1. CASE Tick \/ Command
    <3>1. MacStep /\ UNCHANGED server
      BY <2>1, CommandsKeepTheCa
    <3>2. Typed'
      BY <2>1, <3>1, MacTypes DEF MacStep, Typed
    <3>3. OneCa'
      BY <2>1, <3>1, MacTypes DEF MacStep, OneCa
    <3>4. WrittenSoFar'
      BY <3>1 DEF MacStep, WrittenSoFar
    <3>5. QED
      BY <3>2, <3>3, <3>4
  <2>2. CASE Serve
    <3>1. files["ca"] = 1
      BY <2>2 DEF Serve, OneCa, Pems, Readable
    <3>2. QED
      <4>1. server' = [up |-> TRUE, ticket |-> conf.ticket, ca |-> files["ca"]]
            /\ UNCHANGED <<now, codes, keys, mac, pc, request, answer, disk>>
        BY <2>2 DEF Serve
      <4>2. server'.up = TRUE /\ server'.ca = 1
            /\ server' = [up |-> server'.up, ticket |-> server'.ticket, ca |-> server'.ca]
        BY <3>1, <4>1
      <4>3. Typed'
        BY <4>1, <4>2 DEF mac, Typed, Cas
      <4>4. OneCa' /\ WrittenSoFar'
        BY <3>1, <4>1, <4>2 DEF mac, OneCa, WrittenSoFar
      <4>5. QED
        BY <4>3, <4>4
  <2>3. CASE ServerDies
    <3>1. \A c \in Clients : pc'[c] = pc[c] \/ pc'[c] = "idle"
      BY <2>3 DEF ServerDies
    <3>2. /\ server' = [server EXCEPT !.up = FALSE]
          /\ pc' \in [Clients -> {"idle", "accepted"} \cup Requests \cup Writing]
      BY <2>3 DEF ServerDies, Typed
    <3>3. server'.up = FALSE /\ server'.ca = server.ca
          /\ server' = [up |-> FALSE, ticket |-> server.ticket, ca |-> server.ca]
      BY <3>2 DEF Typed
    <3>4. QED
      BY <2>3, <3>1, <3>2, <3>3 DEF ServerDies, mac, Typed, OneCa, WrittenSoFar
  <2>4. ASSUME NEW c \in Clients, RequestStep(c)
        PROVE  Typed' /\ OneCa' /\ WrittenSoFar'
    <3>1. Typed'
      BY <2>4, RequestSteps DEF mac, Typed
    <3>2. OneCa'
      BY <2>4, RequestSteps DEF mac, OneCa, Writing
    <3>3. WrittenSoFar'
      BY <2>4, RequestSteps DEF WrittenSoFar, Writing
    <3>4. QED
      BY <3>1, <3>2, <3>3
  <2>5. ASSUME NEW c \in Clients,
               WriteClientCa(c) \/ WriteClientCert(c) \/ WriteClientKey(c) \/ WriteClientConfig(c)
        PROVE  Typed' /\ OneCa' /\ WrittenSoFar'
    <3>0. /\ answer[c] \in Cas /\ key[c] \in 0..MaxKeys
          /\ files["ca"] = 1 /\ answer[c] = 1
      BY <2>5 DEF Typed, OneCa, WriteClientCa, WriteClientCert, WriteClientKey, WriteClientConfig
    <3>a. /\ UNCHANGED <<now, codes, keys, mac, server, key, answer>>
          /\ \A d \in Clients : d # c =>
                machine'[d] = machine[d] /\ partial'[d] = partial[d] /\ pc'[d] = pc[d]
      BY <2>5 DEF Typed, WriteClientCa, WriteClientCert, WriteClientKey, WriteClientConfig
    <3> DEFINE Machine == [ca : Cas, cert : [key : 0..MaxKeys, ca : Cas], key : 0..MaxKeys,
                           config : BOOLEAN]
               PC == {"idle", "accepted"} \cup Requests \cup Writing
    <3>p. pc' \in [Clients -> PC]
      BY <2>5 DEF Typed, WriteClientCa, WriteClientCert, WriteClientKey, WriteClientConfig, Writing
    <3>q. partial' \in [Clients -> BOOLEAN]
      BY <2>5 DEF Typed, WriteClientCa, WriteClientCert, WriteClientKey, WriteClientConfig
    <3>m. machine' \in [Clients -> Machine]
      <4>0. machine \in [Clients -> Machine] /\ machine[c] \in Machine
        BY DEF Typed
      <4>a. ASSUME NEW new \in Machine, machine' = [machine EXCEPT ![c] = new]
            PROVE  machine' \in [Clients -> Machine]
        <5> HIDE DEF Machine
        <5>1. QED
          BY <4>0, <4>a
      <4>1. CASE WriteClientCa(c)
        <5>1. [machine[c] EXCEPT !.ca = answer[c]] \in Machine
          BY <3>0, <4>0
        <5>2. machine' = [machine EXCEPT ![c] = [machine[c] EXCEPT !.ca = answer[c]]]
          BY <4>0, <4>1 DEF WriteClientCa
        <5>3. QED
          BY <4>a, <5>1, <5>2
      <4>2. CASE WriteClientCert(c)
        <5> DEFINE n == [key |-> key[c], ca |-> answer[c]]
        <5>1. n \in [key : 0..MaxKeys, ca : Cas] /\ machine' = [machine EXCEPT ![c].cert = n]
          BY <3>0, <4>2 DEF WriteClientCert
        <5> HIDE DEF n
        <5>2. [machine[c] EXCEPT !.cert = n] \in Machine
          BY <4>0, <5>1
        <5>3. machine' = [machine EXCEPT ![c] = [machine[c] EXCEPT !.cert = n]]
          BY <4>0, <5>1
        <5>4. QED
          BY <4>a, <5>2, <5>3
      <4>3. CASE WriteClientKey(c)
        <5> DEFINE n == key[c]
        <5>1. n \in 0..MaxKeys /\ machine' = [machine EXCEPT ![c].key = n]
          BY <3>0, <4>3 DEF WriteClientKey
        <5> HIDE DEF n
        <5>2. [machine[c] EXCEPT !.key = n] \in Machine
          BY <4>0, <5>1
        <5>3. machine' = [machine EXCEPT ![c] = [machine[c] EXCEPT !.key = n]]
          BY <4>0, <5>1
        <5>4. QED
          BY <4>a, <5>2, <5>3
      <4>4. CASE WriteClientConfig(c)
        <5>1. [machine[c] EXCEPT !.config = TRUE] \in Machine
          BY <4>0
        <5>2. machine' = [machine EXCEPT ![c] = [machine[c] EXCEPT !.config = TRUE]]
          BY <4>0, <4>4 DEF WriteClientConfig
        <5>3. QED
          BY <4>a, <5>1, <5>2
      <4>5. QED
        BY <2>5, <4>1, <4>2, <4>3, <4>4
    <3>1. Typed'
      BY <3>a, <3>p, <3>q, <3>m DEF mac, Typed
    <3>c. machine[c] \in [ca : Cas, cert : [key : 0..MaxKeys, ca : Cas], key : 0..MaxKeys,
                          config : BOOLEAN]
      BY DEF Typed
    <3>d. ASSUME \/ partial'[c] = TRUE
                 \/ machine'[c].cert = [key |-> machine'[c].key, ca |-> 1] /\ machine'[c].ca = 1,
                 pc'[c] \in {"ca", "cert", "key"} => machine'[c].ca = 1 /\ partial'[c] = TRUE,
                 pc'[c] \in {"cert", "key"} => machine'[c].cert = [key |-> key[c], ca |-> 1],
                 pc'[c] = "key" => machine'[c].key = key[c]
          PROVE  OneCa' /\ WrittenSoFar'
      <4>1. OneCa'
        BY <3>0, <3>a, <3>d DEF mac, OneCa
      <4>2. WrittenSoFar'
        <5> SUFFICES ASSUME NEW d \in Clients PROVE WrittenSoFar!(d)'
          BY DEF WrittenSoFar
        <5>1. CASE d = c
          BY <3>0, <3>a, <3>d, <5>1
        <5>2. CASE d # c
          BY <3>a, <5>2 DEF WrittenSoFar
        <5>3. QED
          BY <5>1, <5>2
      <4>3. QED
        BY <4>1, <4>2
    <3>2. CASE WriteClientCa(c)
      <4>1. pc'[c] = "ca" /\ partial'[c] = TRUE /\ machine'[c] = [machine[c] EXCEPT !.ca = answer[c]]
        BY <3>2 DEF WriteClientCa, Typed
      <4>2. machine'[c].ca = answer[c]
        BY <3>c, <4>1
      <4>3. QED
        BY <3>0, <3>1, <3>d, <4>1, <4>2 DEF WrittenSoFar
    <3>3. CASE WriteClientCert(c)
      <4>1. /\ pc[c] = "ca" /\ pc'[c] = "cert" /\ partial' = partial /\ partial[c] = TRUE
            /\ machine'[c] = [machine[c] EXCEPT !.cert = [key |-> key[c], ca |-> answer[c]]]
        BY <3>3 DEF WriteClientCert, Typed, WrittenSoFar
      <4>2. machine'[c].ca = machine[c].ca /\ machine'[c].cert = [key |-> key[c], ca |-> answer[c]]
        BY <3>c, <4>1
      <4>3. QED
        BY <3>0, <3>1, <3>d, <4>1, <4>2 DEF WrittenSoFar
    <3>4. CASE WriteClientKey(c)
      <4>1. /\ pc[c] = "cert" /\ pc'[c] = "key" /\ partial' = partial /\ partial[c] = TRUE
            /\ machine'[c] = [machine[c] EXCEPT !.key = key[c]]
        BY <3>4 DEF WriteClientKey, Typed, WrittenSoFar
      <4>2. /\ machine'[c].ca = machine[c].ca /\ machine'[c].cert = machine[c].cert
            /\ machine'[c].key = key[c]
        BY <3>c, <4>1
      <4>3. QED
        BY <3>0, <3>1, <3>d, <4>1, <4>2 DEF WrittenSoFar
    <3>5. CASE WriteClientConfig(c)
      <4>1. /\ pc[c] = "key" /\ pc'[c] = "idle"
            /\ machine'[c] = [machine[c] EXCEPT !.config = TRUE]
        BY <3>5 DEF WriteClientConfig, Typed
      <4>2. /\ machine'[c].ca = machine[c].ca /\ machine'[c].cert = machine[c].cert
            /\ machine'[c].key = machine[c].key
        BY <3>c, <4>1
      <4>3. /\ machine[c].cert = [key |-> key[c], ca |-> 1] /\ machine[c].key = key[c]
            /\ machine[c].ca = 1
        BY <3>0, <4>1 DEF WrittenSoFar
      <4>4. QED
        BY <3>1, <3>d, <4>1, <4>2, <4>3
    <3>6. QED
      BY <2>5, <3>2, <3>3, <3>4, <3>5
  <2>6. CASE UNCHANGED vars
    BY <2>6 DEF vars, mac, Typed, OneCa, WrittenSoFar
  <2>7. QED
    BY <2>1, <2>2, <2>3, <2>4, <2>5, <2>6 DEF Next, RequestStep
<1>3. QED
  BY <1>1, <1>2, PTL DEF Spec

\* However often the Mac is set up again and wherever a command or a pairing ended
\* before, a client whose last pairing finished is trusted and trusts the bridge.
THEOREM PairedClientIsTrusted == Spec => []PairedIsTrusted
<1>1. OneCa /\ WrittenSoFar => PairedIsTrusted
  BY DEF OneCa, WrittenSoFar, PairedIsTrusted
<1>2. QED
  BY <1>1, PairingInvariant, PTL

-----------------------------------------------------------------------------
(* Types, with their bounds.                                                *)

\* What TypeOK says beyond Typed.
Bounded ==
    /\ now \in 0..MaxTime /\ codes \in 0..MaxCodes
    /\ conf \in [state : {"absent", "torn", "whole"}, ticket : Ticket]
    /\ cmd.ticket \in Ticket /\ server.ticket \in Ticket
    /\ attempts \subseteq [at : 0..MaxTime, key : 0..MaxKeys]
    /\ asked \in [Clients -> [code : 0..MaxCodes, since : 0..MaxCodes, ticket : Ticket]]

LEMMA CommandsBounded ==
    ASSUME Typed, Bounded, Tick \/ Command
    PROVE  Bounded'
<1> USE PairingAssumption DEF Bounded, mac, request
<1>0. NoTicket \in Ticket
  BY DEF NoTicket, Ticket
<1>1. CASE Tick
  BY <1>1 DEF Tick
<1>2. ASSUME NEW op, Rotated(op) PROVE codes' \in 0..MaxCodes /\ cmd'.ticket \in Ticket
  <2>1. codes' \in 0..MaxCodes /\ now + Ttl \in 0..(MaxTime + Ttl)
    BY <1>2 DEF Rotated
  <2>2. cmd' = [op |-> op, ticket |-> [code |-> codes', expires |-> now + Ttl], pc |-> "loaded"]
    BY <1>2 DEF Rotated, Begin
  <2>3. QED
    BY <2>1, <2>2 DEF Ticket
<1>3. CASE StartInit
  <2>1. codes' \in 0..MaxCodes /\ cmd'.ticket \in Ticket
    <3>1. CASE Rotated("init")
      BY <1>2, <3>1
    <3>2. CASE Begin("init", conf.ticket) /\ UNCHANGED codes
      BY <3>2 DEF Begin
    <3>3. QED
      BY <1>3, <3>1, <3>2 DEF StartInit
  <2>2. QED
    BY <1>3, <2>1 DEF StartInit
<1>4. CASE StartRotate
  BY <1>2, <1>4 DEF StartRotate
<1>5. CASE Truncate
  <2>1. conf' = [state |-> "torn", ticket |-> NoTicket] /\ cmd'.ticket = cmd.ticket
    BY <1>5 DEF Truncate, Typed
  <2>2. QED
    BY <1>0, <1>5, <2>1 DEF Truncate
<1>6. CASE Save
  <2>1. conf' = [state |-> "whole", ticket |-> cmd.ticket] /\ cmd'.ticket = NoTicket
    BY <1>6 DEF Save, Typed, NoCommand
  <2>2. QED
    BY <1>0, <1>6, <2>1 DEF Save
<1>7. CASE MakeCa \/ WritePem \/ TruncatePem
  <2>1. cmd'.ticket \in {cmd.ticket, NoTicket}
    BY <1>7 DEF MakeCa, WritePem, TruncatePem, Typed, NoCommand
  <2>2. QED
    BY <1>0, <1>7, <2>1 DEF MakeCa, WritePem, TruncatePem
<1>8. CASE CommandDies
  <2>1. cmd'.ticket = NoTicket
    BY <1>8 DEF CommandDies, NoCommand
  <2>2. QED
    BY <1>0, <1>8, <2>1 DEF CommandDies
<1>9. QED
  BY <1>1, <1>3, <1>4, <1>5, <1>6, <1>7, <1>8 DEF Command

LEMMA BoundsKept ==
    ASSUME Typed, Bounded, [Next]_vars
    PROVE  Bounded'
<1> USE DEF Bounded, mac, request
<1>1. CASE Serve
  <2>1. server'.ticket = conf.ticket
    BY <1>1 DEF Serve
  <2>2. QED
    BY <1>1, <2>1 DEF Serve
<1>0. NoTicket \in Ticket /\ Nothing \in [code : 0..MaxCodes, since : 0..MaxCodes, ticket : Ticket]
  BY PairingAssumption DEF NoTicket, Ticket, Nothing
<1>f. ASSUME NEW C, Forget(C)
      PROVE  asked' \in [Clients -> [code : 0..MaxCodes, since : 0..MaxCodes, ticket : Ticket]]
  BY <1>0, <1>f DEF Forget
<1>2. CASE ServerDies
  <2>1. server' = [server EXCEPT !.up = FALSE]
        /\ server = [up |-> server.up, ticket |-> server.ticket, ca |-> server.ca]
    BY <1>2 DEF ServerDies, Typed
  <2>2. server'.ticket = server.ticket
    BY <2>1
  <2>3. QED
    BY <1>2, <1>f, <2>2 DEF ServerDies
<1>3. ASSUME NEW c \in Clients, Pair(c) PROVE Bounded'
  <2>1. PICK code \in 0..codes :
           asked' = [asked EXCEPT ![c] = [code |-> code, since |-> conf.ticket.code,
                                          ticket |-> NoTicket]]
    BY <1>3 DEF Pair
  <2>2. code \in 0..MaxCodes /\ conf.ticket.code \in 0..MaxCodes
    BY <2>1, PairingAssumption DEF Ticket
  <2>3. [code |-> code, since |-> conf.ticket.code, ticket |-> NoTicket]
           \in [code : 0..MaxCodes, since : 0..MaxCodes, ticket : Ticket]
    BY <1>0, <2>2
  <2>4. QED
    BY <1>3, <2>1, <2>3 DEF Pair
<1>4. ASSUME NEW c \in Clients, RateLimit(c) PROVE Bounded'
  BY <1>4 DEF RateLimit, Retained
<1>5. ASSUME NEW c \in Clients, RecordAttempt(c) PROVE Bounded'
  <2>1. [at |-> now, key |-> key[c]] \in [at : 0..MaxTime, key : 0..MaxKeys]
    BY DEF Typed
  <2>2. QED
    BY <1>5, <2>1 DEF RecordAttempt, Retained
<1>6. ASSUME NEW c \in Clients, ReadTicket(c) PROVE Bounded'
  <2>1. asked'[c] = [code |-> asked[c].code, since |-> asked'[c].since, ticket |-> LiveTicket]
        /\ asked'[c].since \in {asked[c].since, 0}
        /\ asked' = [asked EXCEPT ![c] = asked'[c]]
    BY <1>6 DEF ReadTicket
  <2>2. LiveTicket \in Ticket
    BY DEF LiveTicket
  <2>3. asked'[c].since \in 0..MaxCodes
    BY <2>1, PairingAssumption
  <2>4. asked'[c] \in [code : 0..MaxCodes, since : 0..MaxCodes, ticket : Ticket]
    BY <2>1, <2>2, <2>3
  <2>5. QED
    BY <1>6, <2>1, <2>4 DEF ReadTicket
<1>7. ASSUME NEW c \in Clients,
             Sign(c) \/ WriteClientCa(c) \/ WriteClientCert(c)
                \/ WriteClientKey(c) \/ WriteClientConfig(c)
      PROVE  Bounded'
  BY <1>7 DEF Sign, WriteClientCa, WriteClientCert, WriteClientKey, WriteClientConfig
<1>8. ASSUME NEW c \in Clients, Verify(c) \/ GiveUp(c) PROVE Bounded'
  BY <1>8, <1>f DEF Verify, GiveUp
<1>9. CASE UNCHANGED vars
  BY <1>9 DEF vars
<1>10. QED
  BY CommandsBounded, <1>1, <1>2, <1>3, <1>4, <1>5, <1>6, <1>7, <1>8, <1>9 DEF Next

LEMMA BoundedInvariant == Spec => [](Typed /\ Bounded)
<1>1. Init => Bounded
  <2> SUFFICES ASSUME Init PROVE Bounded
    OBVIOUS
  <2>1. /\ NoTicket \in Ticket
        /\ Nothing \in [code : 0..MaxCodes, since : 0..MaxCodes, ticket : Ticket]
    BY PairingAssumption DEF NoTicket, Ticket, Nothing
  <2>2. conf \in [state : {"absent", "torn", "whole"}, ticket : Ticket] /\ codes \in 0..MaxCodes
    BY <2>1, PairingAssumption DEF Init, Ticket
  <2>3. cmd.ticket = NoTicket /\ server.ticket = NoTicket
    BY DEF Init, NoCommand
  <2>4. QED
    BY <2>1, <2>2, <2>3, PairingAssumption DEF Init, Bounded
<1>2. Typed /\ Bounded /\ [Next]_vars => Bounded'
  BY BoundsKept
<1>3. QED
  BY <1>1, <1>2, PairingInvariant, PTL DEF Spec

\* No CA is ever made over another, no ticket names a code nobody made, and none
\* outlives its time to live.
THEOREM PairingTypes == Spec => []TypeOK
<1>1. Typed /\ Bounded => TypeOK
  <2> SUFFICES ASSUME Typed, Bounded PROVE TypeOK
    OBVIOUS
  <2>1. server \in [up : BOOLEAN, ticket : Ticket, ca : Cas]
    BY DEF Typed, Bounded
  <2>2. cmd \in [op : {"init", "rotate"}, ticket : Ticket,
                 pc : {"idle", "loaded", "truncated", "saved"} \cup Pems]
    BY DEF Typed, Bounded
  <2>3. QED
    BY <2>1, <2>2 DEF Typed, Bounded, TypeOK
<1>2. QED
  BY <1>1, BoundedInvariant, PTL

-----------------------------------------------------------------------------
(* Codes only grow.  What was on disk when a request was sent, and what    *)
(* the bridge read for it, is at most what is on disk or in the hands of   *)
(* the command that has truncated the file.                                *)

OnDiskAtLeast(x) ==
    /\ x <= codes
    /\ conf.state = "absent" => x = 0
    /\ conf.state = "whole" => x <= conf.ticket.code
    /\ cmd.pc \in {"loaded", "truncated"} => x <= cmd.ticket.code

CodesGrow ==
    /\ OnDiskAtLeast(conf.ticket.code)
    /\ cmd.ticket.code <= codes
    /\ conf.state = "torn" => conf.ticket.code = 0
    /\ conf.state = "whole" => conf.ticket.code > 0
    /\ cmd.pc \in {"loaded", "truncated"} => cmd.ticket.code > 0
    /\ \A c \in Clients :
          /\ OnDiskAtLeast(asked[c].since)
          /\ pc[c] = "read" /\ asked[c].since # 0 =>
                asked[c].since <= asked[c].ticket.code /\ OnDiskAtLeast(asked[c].ticket.code)

LEMMA CommandsWriteNewer ==
    ASSUME Typed, CodesGrow, Tick \/ Command
    PROVE  /\ OnDiskAtLeast(conf.ticket.code)' /\ cmd'.ticket.code <= codes'
           /\ conf'.state = "torn" => conf'.ticket.code = 0
           /\ conf'.state = "whole" => conf'.ticket.code > 0
           /\ cmd'.pc \in {"loaded", "truncated"} => cmd'.ticket.code > 0
           /\ \A x \in Nat : OnDiskAtLeast(x) => OnDiskAtLeast(x)'
<1> DEFINE Newer ==
              /\ OnDiskAtLeast(conf.ticket.code)' /\ cmd'.ticket.code <= codes'
              /\ conf'.state = "torn" => conf'.ticket.code = 0
              /\ conf'.state = "whole" => conf'.ticket.code > 0
              /\ cmd'.pc \in {"loaded", "truncated"} => cmd'.ticket.code > 0
              /\ \A x \in Nat : OnDiskAtLeast(x) => OnDiskAtLeast(x)'
<1> USE DEF CodesGrow, OnDiskAtLeast
<1>0. /\ codes \in Nat /\ conf.ticket.code \in Nat /\ cmd.ticket.code \in Nat
      /\ NoTicket.code = 0 /\ NoCommand.ticket.code = 0 /\ NoCommand.pc = "idle"
  BY DEF Typed, NoTicket, NoCommand
<1>1. CASE Tick
  BY <1>0, <1>1 DEF Tick, mac
<1>2. ASSUME NEW op, Rotated(op), UNCHANGED conf
      PROVE  Newer
  <2>1. codes' = codes + 1 /\ cmd'.ticket.code = codes'
    BY <1>2 DEF Rotated, Begin
  <2>2. QED
    BY <1>0, <1>2, <2>1
<1>3. CASE StartInit \/ StartRotate
  <2>1. CASE conf.state = "whole" /\ Valid(conf.ticket) /\ Begin("init", conf.ticket) /\ UNCHANGED codes
    <3>1. cmd'.ticket = conf.ticket
      BY <2>1 DEF Begin
    <3>2. QED
      BY <1>0, <1>3, <2>1, <3>1 DEF StartInit, StartRotate
  <2>2. CASE Rotated("init") \/ Rotated("rotate")
    <3>1. UNCHANGED conf
      BY <1>3 DEF StartInit, StartRotate
    <3> HIDE DEF Newer
    <3>2. Newer
      BY <1>2, <2>2, <3>1
    <3>3. QED
      BY <3>2 DEF Newer
  <2>3. QED
    BY <1>3, <2>1, <2>2 DEF StartInit, StartRotate
<1>4. CASE Truncate
  <2>1. /\ cmd.pc = "loaded" /\ cmd'.ticket = cmd.ticket
        /\ cmd'.pc = "truncated" /\ conf' = [state |-> "torn", ticket |-> NoTicket] /\ UNCHANGED codes
    BY <1>4 DEF Truncate, Typed
  <2>2. QED
    BY <1>0, <2>1
<1>5. CASE Save
  <2>1. /\ cmd.pc = "truncated" /\ cmd'.ticket = NoTicket /\ cmd'.pc \in {"saved", "idle"}
        /\ conf' = [state |-> "whole", ticket |-> cmd.ticket] /\ UNCHANGED codes
    BY <1>5 DEF Save, Typed, NoCommand
  <2>2. QED
    BY <1>0, <2>1
<1>6. CASE MakeCa \/ WritePem \/ TruncatePem \/ CommandDies
  <2>1. /\ UNCHANGED <<codes, conf>>
        /\ cmd'.ticket.code \in {cmd.ticket.code, 0}
        /\ cmd'.pc \notin {"loaded", "truncated"}
    <3>1. CASE MakeCa
      BY <1>0, <3>1 DEF MakeCa, Typed
    <3>2. CASE WritePem
      BY <1>0, <3>2 DEF WritePem, Typed, Pems
    <3>3. CASE TruncatePem
      BY <1>0, <3>3 DEF TruncatePem, Typed
    <3>4. CASE CommandDies
      BY <1>0, <3>4 DEF CommandDies
    <3>5. QED
      BY <1>6, <3>1, <3>2, <3>3, <3>4
  <2>2. QED
    BY <1>0, <2>1
<1>7. QED
  BY <1>1, <1>3, <1>4, <1>5, <1>6 DEF Command

LEMMA CodesStayGrown ==
    ASSUME Typed, Bounded, CodesGrow, [Next]_vars
    PROVE  CodesGrow'
<1>0. /\ codes \in Nat /\ conf.ticket.code \in Nat /\ cmd.ticket.code \in Nat
      /\ conf.state \in {"absent", "torn", "whole"}
      /\ DOMAIN pc = Clients /\ DOMAIN asked = Clients
      /\ \A c \in Clients : asked[c].since \in Nat /\ asked[c].ticket.code \in Nat
  BY PairingAssumption DEF Typed, Bounded, Ticket
<1>1. CASE Tick \/ Command
  <2>1. UNCHANGED <<pc, asked>>
    BY <1>1 DEF Tick, Command, StartInit, StartRotate, Truncate, Save, MakeCa, WritePem,
       TruncatePem, CommandDies, request
  <2> DEFINE AtLeast(x) == OnDiskAtLeast(x)
  <2>2. \A x \in Nat : AtLeast(x) => AtLeast(x)'
    BY <1>1, CommandsWriteNewer
  <2>3. \A c \in Clients :
          /\ AtLeast(asked[c].since)'
          /\ pc'[c] = "read" /\ asked'[c].since # 0 =>
                asked'[c].since <= asked'[c].ticket.code /\ AtLeast(asked[c].ticket.code)'
    BY <1>0, <2>1, <2>2 DEF CodesGrow, OnDiskAtLeast
  <2>4. QED
    BY <1>1, <2>3, CommandsWriteNewer DEF CodesGrow
\* A step that leaves the Mac alone and only forgets requests.
<1>2. ASSUME UNCHANGED <<codes, mac>>,
             \A c \in Clients : \/ asked'[c] = Nothing
                                \/ asked'[c] = asked[c] /\ (pc'[c] = "read" => pc[c] = "read")
      PROVE  CodesGrow'
  <2>1. Nothing.since = 0
    BY DEF Nothing
  <2>2. \A c \in Clients :
          /\ OnDiskAtLeast(asked[c].since)'
          /\ pc'[c] = "read" /\ asked'[c].since # 0 =>
                asked'[c].since <= asked'[c].ticket.code /\ OnDiskAtLeast(asked[c].ticket.code)'
    <3> SUFFICES ASSUME NEW c \in Clients PROVE <2>2!(c)
      OBVIOUS
    <3>1. CASE asked'[c] = Nothing
      BY <1>0, <1>2, <2>1, <3>1 DEF OnDiskAtLeast, mac
    <3>2. CASE asked'[c] = asked[c] /\ (pc'[c] = "read" => pc[c] = "read")
      BY <1>2, <3>2 DEF CodesGrow, OnDiskAtLeast, mac
    <3>3. QED
      BY <1>2, <3>1, <3>2
  <2>3. QED
    BY <1>2, <2>2 DEF CodesGrow, OnDiskAtLeast, mac
<1>3. CASE Serve \/ UNCHANGED vars
  BY <1>2, <1>3 DEF Serve, vars, mac, request
<1>4. CASE ServerDies
  BY <1>2, <1>4 DEF ServerDies, Forget
<1>5. ASSUME NEW c \in Clients,
             \/ RateLimit(c) \/ Verify(c) \/ Sign(c) \/ RecordAttempt(c) \/ GiveUp(c)
             \/ WriteClientCa(c) \/ WriteClientCert(c) \/ WriteClientKey(c) \/ WriteClientConfig(c)
      PROVE  CodesGrow'
  <2>1. /\ UNCHANGED <<codes, mac>> /\ (asked' = asked \/ Forget({c}))
        /\ \E next \in ({"idle", "accepted"} \cup Requests \cup Writing) \ {"read"} :
              pc' = [pc EXCEPT ![c] = next]
    BY <1>5 DEF RateLimit, Verify, Sign, RecordAttempt, GiveUp, WriteClientCa, WriteClientCert,
       WriteClientKey, WriteClientConfig, request, Requests, Writing
  <2>2. \A d \in Clients : asked'[d] = asked[d] \/ asked'[d] = Nothing
    BY <1>0, <2>1 DEF Forget
  <2>3. \A d \in Clients : pc'[d] = "read" => pc[d] = "read"
    BY <1>0, <2>1
  <2>4. \A d \in Clients : \/ asked'[d] = Nothing
                           \/ asked'[d] = asked[d] /\ (pc'[d] = "read" => pc[d] = "read")
    BY <2>2, <2>3
  <2>5. QED
    BY <1>2, <2>1, <2>4
<1>6. ASSUME NEW c \in Clients, Pair(c) PROVE CodesGrow'
  <2>1. /\ UNCHANGED <<codes, mac>> /\ pc'[c] = "sent"
        /\ asked'[c].since = conf.ticket.code
        /\ \A d \in Clients : d # c => asked'[d] = asked[d] /\ pc'[d] = pc[d]
    BY <1>0, <1>6 DEF Pair
  <2>2. QED
    BY <1>0, <2>1 DEF CodesGrow, OnDiskAtLeast, mac
<1>7. ASSUME NEW c \in Clients, ReadTicket(c) PROVE CodesGrow'
  <2>1. /\ UNCHANGED <<codes, mac>>
        /\ asked'[c].ticket = LiveTicket
        /\ asked'[c].since = IF Loadable THEN asked[c].since ELSE 0
        /\ \A d \in Clients : d # c => asked'[d] = asked[d] /\ pc'[d] = pc[d]
    BY <1>0, <1>7 DEF ReadTicket
  <2>2. CASE Loadable
    <3>1. asked'[c].ticket = conf.ticket /\ asked'[c].since = asked[c].since
      BY <2>1, <2>2 DEF LiveTicket
    <3>2. asked[c].since <= conf.ticket.code
      BY <1>0, <2>2 DEF CodesGrow, OnDiskAtLeast, Loadable
    <3>3. OnDiskAtLeast(conf.ticket.code) /\ OnDiskAtLeast(asked[c].since)
      BY DEF CodesGrow
    <3>4. /\ OnDiskAtLeast(asked[c].since)' /\ OnDiskAtLeast(asked[c].ticket.code)'
          /\ asked'[c].since <= asked'[c].ticket.code
      BY <2>1, <3>1, <3>2, <3>3 DEF OnDiskAtLeast, mac
    <3>5. QED
      BY <2>1, <3>4 DEF CodesGrow, OnDiskAtLeast, mac
  <2>3. CASE ~Loadable
    BY <1>0, <2>1, <2>3 DEF CodesGrow, OnDiskAtLeast, mac
  <2>4. QED
    BY <2>2, <2>3
<1>8. QED
  BY <1>1, <1>3, <1>4, <1>5, <1>6, <1>7 DEF Next

\* Whatever a command writes between the steps of a request, a code replaced before
\* the request was sent is not taken for the right one, and the code on disk then is
\* not taken for a wrong one unless it was replaced since.
THEOREM ReplacedCodeNeverMatches == Spec => ReplacedCodeIsDead
<1> DEFINE Judged == \A c \in Clients : pc[c] = "read" =>
              /\ pc'[c] = "matched" => asked[c].code >= asked[c].since
              /\ pc'[c] = "wrong" /\ asked[c].code = asked[c].since /\ conf.state = "whole" =>
                    conf.ticket.code > asked[c].since
<1>1. Init => CodesGrow
  BY PairingAssumption DEF Init, CodesGrow, OnDiskAtLeast, NoCommand, NoTicket, Nothing
<1>2. Typed /\ Bounded /\ CodesGrow /\ [Next]_vars => CodesGrow'
  BY CodesStayGrown
<1>3. Typed /\ Bounded /\ CodesGrow /\ [Next]_vars => [Judged]_vars
  <2> SUFFICES ASSUME Typed, Bounded, CodesGrow, Next, NEW c \in Clients, pc[c] = "read"
               PROVE  /\ pc'[c] = "matched" => asked[c].code >= asked[c].since
                      /\ pc'[c] = "wrong" /\ asked[c].code = asked[c].since /\ conf.state = "whole" =>
                            conf.ticket.code > asked[c].since
    OBVIOUS
  <2>0. /\ conf.ticket.code \in Nat /\ asked[c].since \in Nat /\ asked[c].ticket.code \in Nat
        /\ asked[c].code \in Nat /\ DOMAIN pc = Clients
    BY PairingAssumption DEF Typed, Bounded, Ticket
  <2>1. CASE Verify(c)
    <3>1. /\ pc'[c] = "matched" => asked[c].code = asked[c].ticket.code
          /\ pc'[c] = "wrong" => asked[c].code # asked[c].ticket.code
      BY <2>0, <2>1 DEF Verify
    <3>2. QED
      BY <2>0, <3>1 DEF CodesGrow, OnDiskAtLeast
  <2>2. CASE ~Verify(c)
    <3>1. CASE Tick \/ Command \/ Serve
      <4>1. pc' = pc
        BY <3>1 DEF Tick, Command, StartInit, StartRotate, Truncate, Save, MakeCa, WritePem,
           TruncatePem, CommandDies, Serve
      <4>2. QED
        BY <4>1
    <3>2. CASE ServerDies
      BY <3>2 DEF ServerDies, Requests
    <3>3. ASSUME NEW d \in Clients,
                 \/ Pair(d) \/ RateLimit(d) \/ ReadTicket(d) \/ Sign(d) \/ RecordAttempt(d)
                 \/ GiveUp(d) \/ WriteClientCa(d) \/ WriteClientCert(d) \/ WriteClientKey(d)
                 \/ WriteClientConfig(d)
          PROVE  pc'[c] \notin {"matched", "wrong"}
      <4>1. \E next \in {"sent", "checked", "read", "idle", "accepted", "ca", "cert", "key"} :
               pc' = [pc EXCEPT ![d] = next]
        BY <3>3 DEF Pair, RateLimit, ReadTicket, Sign, RecordAttempt, GiveUp, WriteClientCa,
           WriteClientCert, WriteClientKey, WriteClientConfig
      <4>2. QED
        BY <2>0, <4>1
    <3>4. ASSUME NEW d \in Clients, Verify(d) PROVE pc'[c] \notin {"matched", "wrong"}
      BY <2>0, <2>2, <3>4 DEF Verify
    <3>5. QED
      BY <3>1, <3>2, <3>3, <3>4 DEF Next
  <2>3. QED
    BY <2>1, <2>2
<1>4. QED
  BY <1>1, <1>2, <1>3, BoundedInvariant, PTL DEF Spec, ReplacedCodeIsDead

-----------------------------------------------------------------------------
(* The limit of wrong attempts.  Each request that has passed the limit    *)
(* and may still be counted takes a place: counted attempts and places     *)
(* together never exceed the limit by more than the clients there are.     *)

Places == {c \in Clients : pc[c] \in {"checked", "read", "wrong"}}

WithinLimit ==
    /\ IsFiniteSet(attempts)
    /\ Cardinality(Retained) + Cardinality(Places) < MaxAttempts + Cardinality(Clients)

LEMMA Sizes ==
    ASSUME IsFiniteSet(attempts)
    PROVE  /\ IsFiniteSet(Retained) /\ Cardinality(Retained) \in Nat
           /\ IsFiniteSet(Places) /\ Cardinality(Places) \in Nat
           /\ Cardinality(Clients) \in Nat /\ Cardinality(Places) <= Cardinality(Clients)
<1>1. Retained \subseteq attempts /\ Places \subseteq Clients
  BY DEF Retained, Places
<1>2. QED
  BY <1>1, PairingAssumption, FS_Subset, FS_CardinalityType

\* A step that adds neither an attempt nor a place keeps within the limit.
LEMMA FewerStay ==
    ASSUME WithinLimit, IsFiniteSet(attempts'), Retained' \subseteq Retained, Places' \subseteq Places
    PROVE  WithinLimit'
<1> DEFINE K == Retained'
           P == Places'
<1>1. IsFiniteSet(Retained) /\ IsFiniteSet(Places)
  BY Sizes DEF WithinLimit
<1> HIDE DEF K, P
<1>2. /\ K \subseteq Retained /\ P \subseteq Places
  BY DEF K, P
<1>3. /\ Cardinality(K) <= Cardinality(Retained) /\ Cardinality(P) <= Cardinality(Places)
      /\ Cardinality(K) \in Nat /\ Cardinality(P) \in Nat
  BY <1>1, <1>2, FS_Subset, FS_CardinalityType
<1>4. Cardinality(K) + Cardinality(P) < MaxAttempts + Cardinality(Clients)
  BY <1>3, Sizes, PairingAssumption DEF WithinLimit
<1>5. QED
  BY <1>4 DEF WithinLimit, K, P

LEMMA LimitKept ==
    ASSUME Typed, Bounded, WithinLimit, [Next]_vars
    PROVE  WithinLimit'
<1> DEFINE PC == {"idle", "accepted"} \cup Requests \cup Writing
<1>0. /\ pc \in [Clients -> PC] /\ now \in Nat /\ \A a \in attempts : a.at \in Nat
      /\ Cardinality(Clients) \in Nat /\ MaxAttempts \in Nat \ {0} /\ Window \in Nat
      /\ IsFiniteSet(attempts)
  BY PairingAssumption, Sizes DEF Typed, Bounded, WithinLimit
<1>1. CASE Tick
  <2>1. UNCHANGED <<attempts, pc>> /\ now' = now + 1
    BY <1>1 DEF Tick
  <2>2. Retained' \subseteq Retained /\ Places' \subseteq Places
    BY <1>0, <2>1 DEF Retained, Places
  <2>3. QED
    BY <1>0, <2>1, <2>2, FewerStay
<1>2. CASE Command \/ UNCHANGED vars
  <2>1. UNCHANGED <<now, attempts, pc>>
    BY <1>2 DEF Command, StartInit, StartRotate, Truncate, Save, MakeCa, WritePem, TruncatePem,
       CommandDies, vars
  <2>2. QED
    BY <2>1 DEF WithinLimit, Retained, Places
<1>3. CASE Serve
  <2>1. Retained' = {} /\ Places' = Places /\ IsFiniteSet(attempts')
    BY <1>3, FS_EmptySet DEF Serve, Retained, Places
  <2>2. QED
    BY <2>1, FewerStay
<1>4. CASE ServerDies
  <2>1. Retained' = Retained /\ Places' \subseteq Places /\ IsFiniteSet(attempts')
    BY <1>0, <1>4 DEF ServerDies, Retained, Places
  <2>2. QED
    BY <2>1, FewerStay
<1>5. ASSUME NEW c \in Clients,
             \/ Pair(c) \/ ReadTicket(c) \/ Verify(c) \/ Sign(c) \/ GiveUp(c)
             \/ WriteClientCa(c) \/ WriteClientCert(c) \/ WriteClientKey(c) \/ WriteClientConfig(c)
      PROVE  WithinLimit'
  <2>1. UNCHANGED <<now, attempts>>
    BY <1>5 DEF Pair, ReadTicket, Verify, Sign, GiveUp, WriteClientCa, WriteClientCert, WriteClientKey, WriteClientConfig
  <2>2. /\ \A d \in Clients : d # c => pc'[d] = pc[d]
        /\ pc'[c] \in {"checked", "read", "wrong"} => pc[c] \in {"checked", "read"}
    BY <1>0, <1>5 DEF Pair, ReadTicket, Verify, Sign, GiveUp, WriteClientCa, WriteClientCert,
       WriteClientKey, WriteClientConfig
  <2>3. Retained' = Retained /\ Places' \subseteq Places /\ IsFiniteSet(attempts')
    BY <1>0, <2>1, <2>2 DEF Retained, Places
  <2>4. QED
    BY <2>3, FewerStay
<1>6. ASSUME NEW c \in Clients, RateLimit(c) PROVE WithinLimit'
  <2>1. /\ UNCHANGED now /\ attempts' = Retained /\ Retained' = Retained /\ IsFiniteSet(attempts')
        /\ pc' = [pc EXCEPT ![c] = IF Cardinality(attempts') < MaxAttempts THEN "checked" ELSE "idle"]
    BY <1>0, <1>6, Sizes DEF RateLimit, Retained
  <2>2. CASE Cardinality(Retained) < MaxAttempts
    <3>1. Cardinality(Retained') = Cardinality(Retained) /\ Cardinality(Retained) \in Nat
      BY <1>0, <2>1, Sizes
    <3>2. Cardinality(Places') \in Nat /\ Cardinality(Places') <= Cardinality(Clients)
      <4> DEFINE P == Places'
      <4>1. P \subseteq Clients
        BY DEF Places
      <4> HIDE DEF P
      <4>2. Cardinality(P) \in Nat /\ Cardinality(P) <= Cardinality(Clients)
        BY <4>1, PairingAssumption, FS_Subset, FS_CardinalityType
      <4>3. QED
        BY <4>2 DEF P
    <3>3. QED
      BY <1>0, <2>1, <2>2, <3>1, <3>2 DEF WithinLimit
  <2>3. CASE ~(Cardinality(Retained) < MaxAttempts)
    <3>1. Places' \subseteq Places
      BY <1>0, <2>1, <2>3 DEF Places
    <3>2. QED
      BY <2>1, <3>1, FewerStay
  <2>4. QED
    BY <2>2, <2>3
<1>7. ASSUME NEW c \in Clients, RecordAttempt(c) PROVE WithinLimit'
  <2> DEFINE x == [at |-> now, key |-> key[c]]
             K == Retained \cup {x}
             Q == Places \ {c}
  <2>1. /\ attempts' = K /\ UNCHANGED now
        /\ pc[c] = "wrong" /\ pc' = [pc EXCEPT ![c] = "idle"]
    BY <1>7 DEF RecordAttempt
  <2>2. Retained' = K
    <3>1. x.at = now /\ now - now < Window
      BY <1>0, PairingAssumption
    <3> HIDE DEF x
    <3>2. QED
      BY <2>1, <3>1 DEF Retained
  <2>3. Places' = Q /\ c \in Places
    BY <1>0, <2>1 DEF Places
  <2>4. /\ IsFiniteSet(Retained) /\ IsFiniteSet(Places)
        /\ Cardinality(Retained) \in Nat /\ Cardinality(Places) \in Nat
    BY Sizes, <1>0
  <2> HIDE DEF x
  <2>5. /\ IsFiniteSet(K) /\ Cardinality(K) \in Nat /\ Cardinality(K) <= Cardinality(Retained) + 1
        /\ Cardinality(Q) \in Nat /\ Cardinality(Q) = Cardinality(Places) - 1
    <3>1. /\ IsFiniteSet(K)
          /\ Cardinality(K) = IF x \in Retained THEN Cardinality(Retained) ELSE Cardinality(Retained) + 1
      BY <2>4, FS_AddElement
    <3>2. IsFiniteSet(Q) /\ Cardinality(Q) = Cardinality(Places) - 1
      BY <2>3, <2>4, FS_RemoveElement
    <3>3. Cardinality(K) \in Nat /\ Cardinality(Q) \in Nat
      BY <3>1, <3>2, FS_CardinalityType
    <3>4. QED
      BY <2>4, <3>1, <3>2, <3>3
  <2> HIDE DEF K, Q
  <2>6. Cardinality(K) + Cardinality(Q) < MaxAttempts + Cardinality(Clients)
    BY <1>0, <2>4, <2>5 DEF WithinLimit
  <2>7. QED
    BY <2>1, <2>2, <2>3, <2>5, <2>6 DEF WithinLimit
<1>8. QED
  BY <1>1, <1>2, <1>3, <1>4, <1>5, <1>6, <1>7 DEF Next

LEMMA LimitInvariant == Spec => [](Typed /\ Bounded /\ WithinLimit)
<1>1. Init => WithinLimit
  <2> SUFFICES ASSUME Init PROVE WithinLimit
    OBVIOUS
  <2>1. Retained = {} /\ Places = {} /\ IsFiniteSet(attempts)
    BY FS_EmptySet DEF Init, Retained, Places
  <2>2. QED
    BY <2>1, Sizes, FS_EmptySet, PairingAssumption DEF WithinLimit
<1>2. Typed /\ Bounded /\ WithinLimit /\ [Next]_vars => WithinLimit'
  BY LimitKept
<1>3. QED
  BY <1>1, <1>2, BoundedInvariant, PTL DEF Spec

\* However many requests pass the limit before one of them is counted, what is
\* counted exceeds the limit by less than the requests there can be at once.
THEOREM AttemptsWithinLimit == Spec => []AttemptsBounded
<1>1. WithinLimit => AttemptsBounded
  BY Sizes, PairingAssumption DEF WithinLimit, AttemptsBounded
<1>2. QED
  BY <1>1, LimitInvariant, PTL

-----------------------------------------------------------------------------
(* Each wrong attempt counts: no two requests share a key.                  *)

OwnKeys ==
    /\ \A a \in attempts : a.key <= keys
    /\ \A c \in Clients :
          /\ key[c] <= keys
          /\ pc[c] \in Requests =>
                key[c] # 0 /\ \A a \in attempts : a.key # key[c]
          /\ \A d \in Clients : c # d /\ key[c] = key[d] => key[c] = 0

LEMMA KeysStayOwn ==
    ASSUME Typed, Bounded, OwnKeys, [Next]_vars
    PROVE  OwnKeys'
<1> DEFINE Busy == Requests
<1>0. /\ key \in [Clients -> Nat] /\ keys \in Nat /\ \A a \in attempts : a.key \in Nat
      /\ DOMAIN pc = Clients
  BY PairingAssumption DEF Typed, Bounded
<1>1. ASSUME UNCHANGED <<keys, key>>, attempts' \subseteq attempts,
             \A c \in Clients : pc'[c] \in Busy => pc[c] \in Busy
      PROVE  OwnKeys'
  BY <1>1 DEF OwnKeys
<1>2. CASE Tick \/ Command \/ UNCHANGED vars
  BY <1>1, <1>2 DEF Tick, Command, StartInit, StartRotate, Truncate, Save, MakeCa, WritePem,
     TruncatePem, CommandDies, vars, request
<1>3. CASE Serve \/ ServerDies
  BY <1>1, <1>3 DEF Serve, ServerDies, request
<1>4. ASSUME NEW c \in Clients,
             \/ ReadTicket(c) \/ Verify(c) \/ Sign(c) \/ GiveUp(c)
             \/ WriteClientCa(c) \/ WriteClientCert(c) \/ WriteClientKey(c) \/ WriteClientConfig(c)
      PROVE  OwnKeys'
  <2>1. UNCHANGED <<keys, key, attempts>>
    BY <1>4 DEF ReadTicket, Verify, Sign, GiveUp, WriteClientCa, WriteClientCert, WriteClientKey,
       WriteClientConfig, request
  <2>2. \A d \in Clients : pc'[d] \in Busy => pc[d] \in Busy
    BY <1>0, <1>4 DEF ReadTicket, Verify, Sign, GiveUp, WriteClientCa, WriteClientCert,
       WriteClientKey, WriteClientConfig, Requests, Writing
  <2>3. QED
    BY <1>1, <2>1, <2>2
<1>5. ASSUME NEW c \in Clients, RateLimit(c) PROVE OwnKeys'
  <2>1. UNCHANGED <<keys, key>> /\ attempts' \subseteq attempts
    BY <1>5 DEF RateLimit, Retained, request
  <2>2. \A d \in Clients : pc'[d] \in Busy => pc[d] \in Busy
    BY <1>0, <1>5 DEF RateLimit, Requests
  <2>3. QED
    BY <1>1, <2>1, <2>2
<1>6. ASSUME NEW c \in Clients, Pair(c) PROVE OwnKeys'
  <2>1. /\ keys' = keys + 1 /\ key' = [key EXCEPT ![c] = keys + 1] /\ UNCHANGED attempts
        /\ pc' = [pc EXCEPT ![c] = "sent"]
    BY <1>6 DEF Pair
  <2>2. QED
    BY <1>0, <2>1 DEF OwnKeys, Requests
<1>7. ASSUME NEW c \in Clients, RecordAttempt(c) PROVE OwnKeys'
  <2>1. /\ UNCHANGED <<keys, key>> /\ pc[c] = "wrong" /\ pc' = [pc EXCEPT ![c] = "idle"]
        /\ \A a \in attempts' : a \in attempts \/ a.key = key[c]
    BY <1>7 DEF RecordAttempt, Retained, request
  <2>2. QED
    BY <1>0, <2>1 DEF OwnKeys, Requests
<1>8. QED
  BY <1>2, <1>3, <1>4, <1>5, <1>6, <1>7 DEF Next

\* A wrong attempt is added to those that are kept, whatever other requests were
\* counted in the same tick: the set stands for the list of times in the code.
THEOREM EachAttemptCounts ==
    Spec => [][\A c \in Clients : RecordAttempt(c) =>
                 Cardinality(attempts') = Cardinality(Retained) + 1]_vars
<1> DEFINE Counts == \A c \in Clients : RecordAttempt(c) =>
                        Cardinality(attempts') = Cardinality(Retained) + 1
<1>1. Init => OwnKeys
  BY DEF Init, OwnKeys, Requests
<1>2. Typed /\ Bounded /\ OwnKeys /\ [Next]_vars => OwnKeys'
  BY KeysStayOwn
<1>3. WithinLimit /\ OwnKeys => Counts
  <2> SUFFICES ASSUME WithinLimit, OwnKeys, NEW c \in Clients, RecordAttempt(c)
               PROVE  Cardinality(attempts') = Cardinality(Retained) + 1
    OBVIOUS
  <2> DEFINE x == [at |-> now, key |-> key[c]]
  <2>1. attempts' = Retained \cup {x} /\ x.key = key[c] /\ pc[c] = "wrong"
    BY DEF RecordAttempt
  <2>2. x \notin Retained /\ IsFiniteSet(Retained)
    BY <2>1, Sizes DEF OwnKeys, WithinLimit, Retained, Requests
  <2> HIDE DEF x
  <2>3. QED
    BY <2>1, <2>2, FS_AddElement
<1>4. QED
  BY <1>1, <1>2, <1>3, LimitInvariant, PTL DEF Spec
=============================================================================

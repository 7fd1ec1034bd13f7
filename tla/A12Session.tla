----------------------------- MODULE A12Session ------------------------------
(***************************************************************************)
(* Two a12 endpoints: the key exchange (HELLO), the switch of cipher and   *)
(* MAC keys it ends in, the ping-pong rekeying that follows, and the       *)
(* packets sent under those keys, over an ordered carrier that may fail    *)
(* once.                                                                   *)
(*                                                                         *)
(* Cryptography is symbolic.  A private key is a number, its public key is *)
(* named by the same number, x25519 of two keys is the set of both.  A key *)
(* of a direction is a secret with a nonce: it stands for the cipher and   *)
(* for the MAC, which the code always replaces together.  The MAC runs     *)
(* over everything sent so far: a packet is authentic when the receiver is *)
(* at the same key and at the same position.                               *)
(***************************************************************************)
EXTENDS Integers, Sequences

CONSTANTS MaxMsgs,    \* bound: events a side sends
          Configs     \* configurations of the two endpoints

Side == {"cl", "srv"}
Peer(p) == IF p = "cl" THEN "srv" ELSE "cl"
Roles == {"SOURCE", "SINK", "PROBE", "DIR"}

ASSUME ConfigAssumption ==
  MaxMsgs \in Nat /\ \A c \in Configs :
    /\ c.ephemeral \in BOOLEAN            \* ~opt->disable_ephemeral_k
    /\ c.role \in [Side -> Roles]         \* opt->local_role
    /\ c.known \in [Side -> BOOLEAN]      \* pk_lookup accepts the peer
    /\ c.samesecret \in BOOLEAN           \* opt->secret is the same
    /\ c.rekey_bytes \in Nat              \* opt->rekey_bytes of the server
    /\ c.flush \in BOOLEAN                \* a12_unpack(S, NULL, 0) after auth
    /\ c.msgs \in [Side -> 0 .. MaxMsgs]  \* bound: events sent
    /\ c.size \in Nat                     \* of an event, in units
    /\ c.faults \in Nat                   \* bound: carrier failures

VARIABLES
  cf,         \* the configuration, never changed
  S,          \* [Side -> a12_state]
  net,        \* [Side -> packets written for that side, not yet processed]
  take,       \* [Side -> how many of them the running a12_unpack was given]
  held,       \* [Side -> how many of them wait in prepend_unpack]
  phase,      \* [Side -> "auth" in anet_authenticate, "serve" after it]
  sent, got,  \* [Side -> events sent], [Side -> events given to on_event]
  faults      \* carrier failures so far

vars == <<cf, S, net, take, held, phase, sent, got, faults>>

-----------------------------------------------------------------------------
(* keys and packets *)

NoKey == 0                  \* a zeroed key, a nonce not set
x25519(priv, pub) == {priv, pub}
Key(sec, nonce) == [sec |-> sec, nonce |-> nonce]

\* opt->secret: what the client has, and what the server has.
Psk(p) == IF p = "cl" \/ cf.samesecret THEN {} ELSE {NoKey}

\* The bytes that count towards rekey_bytes, in units.
Size(t) == IF t = "event" THEN cf.size ELSE 2

Hello(p, mode, pk, nonce) ==
  [t |-> "hello", mode |-> mode, role |-> cf.role[p], pk |-> pk, nonce |-> nonce, val |-> 0]
Rekey(pk, nonce) ==
  [t |-> "rekey", mode |-> "none", role |-> "PROBE", pk |-> pk, nonce |-> nonce, val |-> 0]
Event(n) ==
  [t |-> "event", mode |-> "none", role |-> "PROBE", pk |-> NoKey, nonce |-> NoKey, val |-> n]

\* A packet on the carrier: the message, and what it is encrypted under.
Sealed(s, msg) == [msg |-> msg, key |-> s.enc, seq |-> s.current_seqnr]

\* A call at work on an endpoint: its state, and the packets queued so far.
Call(s) == [s |-> s, out |-> <<>>]
fail_state(r) == [r EXCEPT !.s.state = "BROKEN"]

base(p) == IF p = "srv" THEN cf.rekey_bytes ELSE 0

\* arcan_random and x25519_private_key: numbers nobody has used before.
Fresh(r) == r.s.fresh
Fresh2(r) == r.s.fresh + 2
Used(r, n) == [r EXCEPT !.s.fresh = @ + 2 * n]

Put(r, msg) == [s   |-> [r.s EXCEPT !.current_seqnr = @ + 1],
                out |-> Append(r.out, Sealed(r.s, msg))]

\* mutant: the new key is used for the packet that announces it
issue_rekey_Early(p, r) ==
  LET k == Fresh(r)  n == Fresh2(r)
      own == [Used(r, 2) EXCEPT !.s.own_rekey = FALSE, !.s.real_priv = k,
                                !.s.enc = Key(x25519(k, r.s.remote_pub), n)]
  IN Put(own, Rekey(k, n))

issue_rekey(p, r) ==
  LET k == Fresh(r)  n == Fresh2(r)
      own == [Used(r, 2) EXCEPT !.s.own_rekey = FALSE, !.s.real_priv = k]
      put == Put(own, Rekey(k, n))
  IN IF ~r.s.own_rekey THEN fail_state(r)
     ELSE [put EXCEPT !.s.enc = Key(x25519(k, r.s.remote_pub), n)]

append_out(p, r, msg) ==
  LET put == Put(r, msg)
      drives == put.s.own_rekey /\ (p = "cl" \/ base(p) # 0)
  IN CASE r.s.state = "BROKEN" -> r
       [] r.s.state # "BROKEN" /\ ~drives -> put
       [] r.s.state # "BROKEN" /\ drives /\ base(p) # 0 /\ put.s.rekey_count > Size(msg.t) ->
            [put EXCEPT !.s.rekey_count = @ - Size(msg.t)]
       [] OTHER -> issue_rekey(p, [put EXCEPT !.s.rekey_count = base(p)])

\* Both directions: out_mac, in_mac, enc_state and dec_state.
update_keymaterial(r, sec, nonce) ==
  [r EXCEPT !.s.enc = Key(sec, nonce), !.s.dec = Key(sec, nonce)]

-----------------------------------------------------------------------------
(* handlers *)

\* The roles process_hello_auth lets through, and those it refuses.
RoleMatch(local, remote) ==
  CASE local = "SOURCE" /\ remote = "SINK" -> TRUE
    [] local = "SINK" /\ remote = "SOURCE" -> TRUE
    [] local = "SINK" /\ remote = "SINK" -> FALSE
    [] local = "PROBE" -> TRUE
    [] local # "PROBE" /\ remote = "PROBE" -> TRUE
    [] local # "PROBE" /\ remote = "DIR" -> local \in {"SINK", "SOURCE"}
    [] local = "DIR" /\ remote \in {"SOURCE", "SINK"} -> TRUE
    [] OTHER -> FALSE

hello_auth_server_hello(r, m) ==
  LET k == Fresh(r)  n == Fresh2(r)
      eph == append_out("srv", Used(r, 2), Hello("srv", "EPHEMPK", k, n))
      real == append_out("srv", Used(r, 1), Hello("srv", "REALPK", r.s.key_session, k))
  IN CASE m.mode = "EPHEMPK" ->
            [update_keymaterial(eph, x25519(k, m.pk), n) EXCEPT !.s.authentic = "EPHEMERAL_PK"]
       [] m.mode # "EPHEMPK" /\ ~cf.known["srv"] -> fail_state(r)
       [] OTHER -> [update_keymaterial(real, x25519(r.s.key_session, m.pk), k)
                      EXCEPT !.s.remote_pub = m.pk, !.s.authentic = "FULL_PK",
                             !.s.auth_latched = TRUE]

hello_auth_client_hello(r, m) ==
  IF ~cf.known["cl"] THEN fail_state(r)
  ELSE [update_keymaterial(r, x25519(r.s.real_priv, m.pk), m.nonce)
          EXCEPT !.s.authentic = "FULL_PK", !.s.auth_latched = TRUE, !.s.remote_pub = m.pk]

\* The client has the ephemeral key of the server: it may show its own.
polite_reply(r, m) ==
  LET eph == update_keymaterial(r, x25519(r.s.ephem_priv, m.pk), m.nonce)
  IN append_out("cl", [Used(eph, 1) EXCEPT !.s.authentic = "REAL_HELLO_SENT"],
                Hello("cl", "REALPK", r.s.real_priv, Fresh(r)))

process_hello_auth(p, r, m) ==
  CASE ~RoleMatch(cf.role[p], m.role) -> fail_state(r)
    [] RoleMatch(cf.role[p], m.role) /\ r.s.authentic \in {"SERVER_HBLOCK", "EPHEMERAL_PK"} ->
         hello_auth_server_hello(r, m)
    [] RoleMatch(cf.role[p], m.role) /\ r.s.authentic = "POLITE_HELLO_SENT" -> polite_reply(r, m)
    [] RoleMatch(cf.role[p], m.role) /\ r.s.authentic = "REAL_HELLO_SENT" ->
         hello_auth_client_hello(r, m)
    [] OTHER -> fail_state(r)

\* mutant: the new secret is applied in both directions
command_rekey_Both(r, m) ==
  LET k == Key(x25519(r.s.real_priv, m.pk), m.nonce)
  IN IF r.s.own_rekey THEN fail_state(r)
     ELSE [r EXCEPT !.s.remote_pub = m.pk, !.s.dec = k, !.s.enc = k, !.s.own_rekey = TRUE]

command_rekey(r, m) ==
  IF r.s.own_rekey THEN fail_state(r)
  ELSE [r EXCEPT !.s.remote_pub = m.pk, !.s.own_rekey = TRUE,
                 !.s.dec = Key(x25519(r.s.real_priv, m.pk), m.nonce)]

process_control(p, r, m) ==
  CASE m.t = "hello" -> process_hello_auth(p, r, m)
    [] m.t = "rekey" /\ r.s.authentic = "FULL_PK" -> command_rekey(r, m)
    [] OTHER -> fail_state(r)

-----------------------------------------------------------------------------
(* endpoints *)

a12_setup(p) ==
  [state |-> IF p = "srv" THEN "1STSRV" ELSE "NOPACKET", authentic |-> "UNAUTHENTICATED",
   auth_latched |-> FALSE,
   enc |-> Key(Psk(p), NoKey), dec |-> Key(Psk(p), NoKey), current_seqnr |-> 0, in_seqnr |-> 0,
   real_priv |-> NoKey, ephem_priv |-> NoKey, key_session |-> NoKey, remote_pub |-> NoKey,
   own_rekey |-> p = "srv", rekey_count |-> base(p), fresh |-> IF p = "srv" THEN 1 ELSE 2]

\* The key the keystore has for the server is drawn before the session.
a12_server == [a12_setup("srv") EXCEPT !.key_session = 1, !.fresh = 3]

\* The nonce of the first packet is drawn by append_out (cl_firstout).
a12_client ==
  LET r == Call([a12_setup("cl") EXCEPT !.real_priv = 2, !.fresh = 6,
                   !.enc = Key({}, 4), !.dec = Key({}, 4)])
      k == Fresh(r)
  IN IF cf.ephemeral
     THEN append_out("cl", [Used(r, 2) EXCEPT !.s.ephem_priv = k, !.s.authentic = "POLITE_HELLO_SENT"],
                     Hello("cl", "EPHEMPK", k, k + 2))
     ELSE append_out("cl", [Used(r, 1) EXCEPT !.s.authentic = "REAL_HELLO_SENT"],
                     Hello("cl", "REALPK", 2, k))

Init ==
  /\ cf \in Configs
  /\ S = [p \in Side |-> IF p = "srv" THEN a12_server ELSE a12_client.s]
  /\ net = [p \in Side |-> IF p = "srv" THEN a12_client.out ELSE <<>>]
  /\ take = [p \in Side |-> 0] /\ held = [p \in Side |-> 0]
  /\ phase = [p \in Side |-> "auth"]
  /\ sent = [p \in Side |-> 0] /\ got = [p \in Side |-> <<>>]
  /\ faults = 0

Idle(p) == take[p] = 0
Broken(p) == S[p].state = "BROKEN"

\* mutant: what was held back is looked at only when more has arrived
Unpack_Begin_Wait(p) ==
  /\ Idle(p) /\ ~Broken(p)
  /\ phase[p] = "auth" => S[p].authentic # "FULL_PK"
  /\ \E n \in 1 .. Len(net[p]) - held[p] : take' = [take EXCEPT ![p] = held[p] + n]
  /\ held' = [held EXCEPT ![p] = 0]
  /\ UNCHANGED <<cf, S, net, phase, sent, got, faults>>

\* a12_unpack is called with what could be read: n packets.
Unpack_Begin(p) ==
  /\ Idle(p) /\ ~Broken(p)
  /\ phase[p] = "auth" => S[p].authentic # "FULL_PK"
  /\ \E n \in 0 .. Len(net[p]) - held[p] :
       /\ n > 0 \/ (cf.flush /\ phase[p] = "serve" /\ held[p] > 0)
       /\ take' = [take EXCEPT ![p] = held[p] + n]
  /\ held' = [held EXCEPT ![p] = 0]
  /\ UNCHANGED <<cf, S, net, phase, sent, got, faults>>

\* process_srvfirst reads the nonce in the clear from the first packet.
srvfirst(s, m) ==
  IF s.state = "1STSRV"
  THEN [s EXCEPT !.state = "NOPACKET", !.authentic = "SERVER_HBLOCK",
                 !.enc.nonce = m.key.nonce, !.dec.nonce = m.key.nonce]
  ELSE s

\* mutant: a MAC that covers the packet alone
authdec_buffer_Unchained(s, m) == m.key = s.dec

authdec_buffer(s, m) == m.key = s.dec /\ m.seq = s.in_seqnr

\* What a call leaves behind: its packets on the carrier, the rest of the
\* buffer in prepend_unpack if authentication has just completed.
Finish(p, r) ==
  LET latch == r.s.auth_latched /\ take[p] > 1
  IN /\ S' = [S EXCEPT ![p] = [r.s EXCEPT !.auth_latched = FALSE]]
     /\ net' = [net EXCEPT ![p] = Tail(@), ![Peer(p)] = @ \o r.out]
     /\ take' = [take EXCEPT ![p] = IF latch \/ r.s.state = "BROKEN" THEN 0 ELSE @ - 1]
     /\ held' = [held EXCEPT ![p] = IF latch THEN take[p] - 1 ELSE @]

Unpack_Step(p) ==
  /\ ~Idle(p) /\ ~Broken(p) /\ S[p].state # "DESYNC"
  /\ LET m == Head(net[p])
         s == srvfirst(S[p], m)
         r == Call([s EXCEPT !.in_seqnr = @ + 1])
     IN /\ authdec_buffer(s, m)
        /\ IF m.msg.t = "event" THEN Finish(p, r) ELSE Finish(p, process_control(p, r, m.msg))
        /\ got' = [got EXCEPT ![p] = IF m.msg.t = "event" THEN Append(@, m.msg.val) ELSE @]
  /\ UNCHANGED <<cf, phase, sent, faults>>

\* A packet that does not decrypt: its type and length are noise, the MAC is
\* looked at when that many bytes have come, and differs.
Unpack_Mismatch(p) ==
  /\ ~Idle(p) /\ ~Broken(p)
  /\ LET m == Head(net[p])
         s == srvfirst(S[p], m)
     IN /\ S[p].state = "DESYNC" \/ ~authdec_buffer(s, m)
        /\ \E st \in {"BROKEN", "DESYNC"} : Finish(p, Call([s EXCEPT !.state = st]))
  /\ UNCHANGED <<cf, phase, sent, got, faults>>

\* anet_authenticate returns.
Authenticated(p) ==
  /\ phase[p] = "auth" /\ Idle(p) /\ ~Broken(p) /\ S[p].authentic = "FULL_PK"
  /\ phase' = [phase EXCEPT ![p] = "serve"]
  /\ UNCHANGED <<cf, S, net, take, held, sent, got, faults>>

\* a12_channel_enqueue, flushed to the carrier.
Channel_Enqueue(p) ==
  /\ phase[p] = "serve" /\ Idle(p) /\ ~Broken(p) /\ sent[p] < cf.msgs[p]
  /\ LET r == append_out(p, Call(S[p]), Event(sent[p] + 1))
     IN /\ S' = [S EXCEPT ![p] = r.s]
        /\ net' = [net EXCEPT ![Peer(p)] = @ \o r.out]
  /\ sent' = [sent EXCEPT ![p] = @ + 1]
  /\ UNCHANGED <<cf, take, held, phase, got, faults>>

\* The carrier: a packet not yet read is lost, doubled or swapped.
Pending(p) == held[p] + take[p] + 1 .. Len(net[p])
Carry(p, s) ==
  /\ faults < cf.faults /\ faults' = faults + 1
  /\ net' = [net EXCEPT ![p] = s]
  /\ UNCHANGED <<cf, S, take, held, phase, sent, got>>

Lose(p) == \E i \in Pending(p) :
  Carry(p, SubSeq(net[p], 1, i - 1) \o SubSeq(net[p], i + 1, Len(net[p])))
Double(p) == \E i \in Pending(p) :
  Carry(p, SubSeq(net[p], 1, i) \o SubSeq(net[p], i, Len(net[p])))
Swap(p) == \E i \in Pending(p) :
  i + 1 \in Pending(p) /\ Carry(p, [net[p] EXCEPT ![i] = net[p][i + 1], ![i + 1] = net[p][i]])

Local(p) == Unpack_Begin(p) \/ Unpack_Step(p) \/ Unpack_Mismatch(p) \/ Authenticated(p)

Next == \E p \in Side : Local(p) \/ Channel_Enqueue(p) \/ Lose(p) \/ Double(p) \/ Swap(p)

\* The loops around a12_unpack keep reading; a call that has begun ends.
Fairness == \A p \in Side : WF_vars(Local(p))

Spec == Init /\ [][Next]_vars
FairSpec == Spec /\ Fairness

-----------------------------------------------------------------------------
(* properties *)

\* The two sides may talk: the pairs of roles the handshake is meant for.
Compatible ==
  \/ {cf.role["cl"], cf.role["srv"]} \in {{"SOURCE", "SINK"}, {"SOURCE", "DIR"}, {"SINK", "DIR"}}
  \/ "PROBE" \in {cf.role["cl"], cf.role["srv"]}

\* What a side may rightly give up for: keys, roles or secrets that differ,
\* a rekeying that falls due before the handshake has ended, the carrier.
Reason ==
  \/ faults > 0 \/ ~cf.samesecret \/ ~Compatible \/ ~cf.known["cl"] \/ ~cf.known["srv"]
  \/ cf.rekey_bytes \in 1 .. (IF cf.ephemeral THEN 2 ELSE 1) * Size("hello")

\* A session breaks only for such a reason: however events, both rekeyings
\* and the reads on both sides interleave, no packet meets a receiver that
\* has already left its key, or not yet reached it (a12int_issue_rekey,
\* command_rekey, hello_auth_server_hello, hello_auth_client_hello).
BrokenForAReason ==
  \A p \in Side : S[p].state \in {"BROKEN", "DESYNC"} => Reason

\* The events given to on_event are the ones the other side sent, from the
\* first on, each once and in order, even if the carrier fails: a packet out
\* of place does not authenticate (authdec_buffer, chained MAC).  None is given
\* to the caller that only waits for authentication to complete, whose handler
\* is not there: what follows the last HELLO in a buffer is held back
\* (anet_authenticate, auth_latched, prepend_unpack).
InOrder ==
  \A p \in Side : /\ Len(got[p]) <= sent[Peer(p)]
                  /\ \A i \in 1 .. Len(got[p]) : got[p][i] = i
                  /\ phase[p] = "auth" => got[p] = <<>>

\* Where the initiative to rekey is: <<p, 0>> if side p has it, <<p, i>> if it
\* is in the i-th packet on the way to p.
Initiative ==
  {<<p, 0>> : p \in {q \in Side : S[q].own_rekey}} \cup
  UNION {{<<p, i>> : i \in {j \in 1 .. Len(net[p]) : net[p][j].msg.t = "rekey"}} : p \in Side}

\* The initiative to rekey is with the server, with the client, or in one
\* REKEY on its way: two that cross would leave both sides with keys that do
\* not match (own_rekey).  And both sides end up where the other one is: with
\* nothing on the way, what
\* one side encrypts with is what the other decrypts with, and the key the
\* one with the initiative will answer to is the one the other has
\* (remote_pub, real_priv).
KeysAgree ==
  ~Reason =>
    /\ \E x \in Initiative : Initiative = {x}
    /\ (\A p \in Side : S[p].authentic = "FULL_PK" /\ net[p] = <<>>) =>
         \A p \in Side :
           /\ S[p].dec = S[Peer(p)].enc
           /\ S[p].own_rekey =>
                S[p].remote_pub = IF S[Peer(p)].real_priv = NoKey THEN S[Peer(p)].key_session
                                  ELSE S[Peer(p)].real_priv

\* With matching keys and roles and a carrier that works, both sides get
\* through the handshake, and an event sent is delivered, also one that came
\* in the buffer that completed authentication, if the caller flushes what was
\* held back.
Delivered ==
  /\ (~Reason /\ cf.faults = 0) => <>(\A p \in Side : S[p].authentic = "FULL_PK")
  /\ \A p \in Side : \A n \in 1 .. MaxMsgs :
       (cf.flush /\ ~Reason /\ cf.faults = 0 /\ sent[p] >= n) ~> (Len(got[Peer(p)]) >= n)
==============================================================================

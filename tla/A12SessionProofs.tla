-------------------------- MODULE A12SessionProofs ---------------------------
(***************************************************************************)
(* Proofs about A12Session, for every choice of the configurations: any    *)
(* number of events and of carrier failures, any roles and secrets.        *)
(*                                                                         *)
(* Events arrive once and in order (OInv).  The packets of a direction are *)
(* numbered, and a receiver accepts only the number it is at.  The         *)
(* argument follows the numbers e of the packets that carry events: they   *)
(* increase, and what the receiver has given to its caller is exactly what *)
(* has a number below its own (Marks, Arrived, PacketOf).  No variable of  *)
(* the session holds them, so the invariant OInv states that there are     *)
(* such numbers.  It also follows the number h of the HELLO with the       *)
(* sender's own key: every event comes after it, so an event meets only a  *)
(* side that is past authentication.                                       *)
(*                                                                         *)
(* The keys agree, and a session breaks only for a reason (KInv).  Unless  *)
(* there is a reason to break, the packets on their way are in line with   *)
(* the receiver's number (InLine), and the keys are at one of these        *)
(* points: the handshake, told apart by the HELLO that is on its way       *)
(* (Shaking); or, once the server has accepted the client (Agreed), both   *)
(* sides with the same keys and one of them with the right to replace them *)
(* (Has), or one REKEY on its way that takes that right, and the key of    *)
(* what follows it, to the other side (Coming).                            *)
(***************************************************************************)
EXTENDS A12Session, TLAPS

USE ZenonT(5), SMTT(30), SMTT(31), ZenonT(30)   \* tried in this order

States == {"1STSRV", "NOPACKET", "BROKEN", "DESYNC"}
Auths  == {"UNAUTHENTICATED", "SERVER_HBLOCK", "EPHEMERAL_PK", "POLITE_HELLO_SENT",
           "REAL_HELLO_SENT", "FULL_PK"}
Keys == [sec : SUBSET Nat, nonce : Nat]

Endpoint ==
  [state : States, authentic : Auths, auth_latched : BOOLEAN, enc : Keys, dec : Keys,
   current_seqnr : Nat, in_seqnr : Nat, real_priv : Nat, ephem_priv : Nat, key_session : Nat,
   remote_pub : Nat, own_rekey : BOOLEAN, rekey_count : Nat, fresh : Nat]

Message == [t : {"hello", "rekey", "event"}, mode : {"EPHEMPK", "REALPK", "none"}, role : Roles,
            pk : Nat, nonce : Nat, val : Nat]
Packet == [msg : Message, key : Keys, seq : Nat]

\* A call at work on an endpoint
IsCall(r) == {"s", "out"} \subseteq DOMAIN r /\ r.s \in Endpoint /\ r.out \in Seq(Packet)

-----------------------------------------------------------------------------
(* what the helpers return *)

\* What append_out never changes
Kept(s, t) ==
  /\ t.state = s.state /\ t.authentic = s.authentic /\ t.auth_latched = s.auth_latched
  /\ t.dec = s.dec /\ t.in_seqnr = s.in_seqnr /\ t.ephem_priv = s.ephem_priv
  /\ t.key_session = s.key_session /\ t.remote_pub = s.remote_pub

\* append_out with the packet alone
Wrote(r, msg, x) ==
  /\ Kept(r.s, x.s) /\ Len(x.out) = 1 /\ x.out[1] = Sealed(r.s, msg)
  /\ x.s.current_seqnr = r.s.current_seqnr + 1
  /\ x.s.enc = r.s.enc /\ x.s.real_priv = r.s.real_priv /\ x.s.own_rekey = r.s.own_rekey
  /\ x.s.fresh = r.s.fresh

\* append_out with a second packet, the REKEY
WroteRekey(r, msg, x) ==
  /\ Kept(r.s, x.s) /\ r.s.own_rekey
  /\ Len(x.out) = 2 /\ x.out[1] = Sealed(r.s, msg)
  /\ x.out[2] = [msg |-> Rekey(r.s.fresh, r.s.fresh + 2), key |-> r.s.enc, seq |-> r.s.current_seqnr + 1]
  /\ x.s.current_seqnr = r.s.current_seqnr + 2
  /\ x.s.enc = Key({r.s.fresh, r.s.remote_pub}, r.s.fresh + 2) /\ x.s.real_priv = r.s.fresh
  /\ ~x.s.own_rekey /\ x.s.fresh = r.s.fresh + 4

\* The fields of an endpoint, and what replacing one of them gives
LEMMA PacketsLen == ASSUME NEW s \in Seq(Packet) PROVE Len(s) \in Nat /\ s \o <<>> = s
OBVIOUS

LEMMA UpToTwo == \A n \in {1, 2} : \A i \in 1 .. n : i = 1 \/ (i = 2 /\ n = 2)
OBVIOUS

LEMMA Twice == 2 * 1 = 2 /\ 2 * 2 = 4
OBVIOUS

LEMMA FieldTypes == ASSUME NEW s \in Endpoint
                    PROVE  /\ s.enc \in Keys /\ s.dec \in Keys /\ s.current_seqnr \in Nat
                           /\ s.fresh \in Nat /\ s.remote_pub \in Nat /\ s.real_priv \in Nat
                           /\ s.ephem_priv \in Nat /\ s.key_session \in Nat
                           /\ s.rekey_count \in Nat /\ s.own_rekey \in BOOLEAN /\ s.in_seqnr \in Nat
                           /\ s.state \in States /\ s.authentic \in Auths /\ s.auth_latched \in BOOLEAN
  BY DEF Endpoint

LEMMA FieldSets == ASSUME NEW s \in Endpoint
                   PROVE  /\ \A v \in Nat : [s EXCEPT !.current_seqnr = v] \in Endpoint
                          /\ \A v \in Nat : [s EXCEPT !.in_seqnr = v] \in Endpoint
                          /\ \A v \in Nat : [s EXCEPT !.fresh = v] \in Endpoint
                          /\ \A v \in Nat : [s EXCEPT !.remote_pub = v] \in Endpoint
                          /\ \A v \in Nat : [s EXCEPT !.real_priv = v] \in Endpoint
                          /\ \A v \in Nat : [s EXCEPT !.ephem_priv = v] \in Endpoint
                          /\ \A v \in Nat : [s EXCEPT !.key_session = v] \in Endpoint
                          /\ \A v \in Nat : [s EXCEPT !.rekey_count = v] \in Endpoint
                          /\ \A v \in Keys : [s EXCEPT !.enc = v] \in Endpoint
                          /\ \A v \in Keys : [s EXCEPT !.dec = v] \in Endpoint
                          /\ \A v \in BOOLEAN : [s EXCEPT !.own_rekey = v] \in Endpoint
                          /\ \A v \in BOOLEAN : [s EXCEPT !.auth_latched = v] \in Endpoint
                          /\ \A v \in States : [s EXCEPT !.state = v] \in Endpoint
                          /\ \A v \in Auths : [s EXCEPT !.authentic = v] \in Endpoint
<1>1. ASSUME NEW v \in Nat
      PROVE  /\ [s EXCEPT !.current_seqnr = v] \in Endpoint
             /\ [s EXCEPT !.in_seqnr = v] \in Endpoint
             /\ [s EXCEPT !.fresh = v] \in Endpoint
             /\ [s EXCEPT !.remote_pub = v] \in Endpoint
             /\ [s EXCEPT !.real_priv = v] \in Endpoint
             /\ [s EXCEPT !.ephem_priv = v] \in Endpoint
             /\ [s EXCEPT !.key_session = v] \in Endpoint
             /\ [s EXCEPT !.rekey_count = v] \in Endpoint
  BY DEF Endpoint
<1>2. ASSUME NEW v \in Keys PROVE [s EXCEPT !.enc = v] \in Endpoint /\ [s EXCEPT !.dec = v] \in Endpoint
  BY DEF Endpoint
<1>3. ASSUME NEW v \in BOOLEAN
      PROVE  [s EXCEPT !.own_rekey = v] \in Endpoint /\ [s EXCEPT !.auth_latched = v] \in Endpoint
  BY DEF Endpoint
<1>4. ASSUME NEW v \in States PROVE [s EXCEPT !.state = v] \in Endpoint
  BY DEF Endpoint
<1>5. ASSUME NEW v \in Auths PROVE [s EXCEPT !.authentic = v] \in Endpoint
  BY DEF Endpoint
<1> QED BY <1>1, <1>2, <1>3, <1>4, <1>5

LEMMA SealedType == ASSUME NEW s \in Endpoint, NEW msg \in Message PROVE Sealed(s, msg) \in Packet
  BY FieldTypes DEF Sealed, Packet

LEMMA PutIs == ASSUME NEW r, IsCall(r), NEW msg \in Message
               PROVE  /\ IsCall(Put(r, msg))
                      /\ Put(r, msg).out = Append(r.out, Sealed(r.s, msg))
                      /\ Put(r, msg).s = [r.s EXCEPT !.current_seqnr = @ + 1]
<1>1. Append(r.out, Sealed(r.s, msg)) \in Seq(Packet)
  BY SealedType DEF IsCall
<1>2. [r.s EXCEPT !.current_seqnr = @ + 1] \in Endpoint
  <2>1. r.s \in Endpoint
    BY DEF IsCall
  <2>2. r.s.current_seqnr + 1 \in Nat
    BY <2>1, FieldTypes
  <2> QED BY <2>1, <2>2, FieldSets
<1> QED BY <1>1, <1>2 DEF Put, IsCall

LEMMA BaseTypes == ASSUME cf \in Configs, NEW p
                   PROVE  base(p) \in Nat /\ \A t : Size(t) \in Nat
<1>1. cf.rekey_bytes \in Nat /\ cf.size \in Nat
  BY ConfigAssumption
<1> QED BY <1>1 DEF base, Size

LEMMA issue_rekeyIs ==
  ASSUME NEW r, IsCall(r), NEW p, r.s.own_rekey
  PROVE  LET k == Fresh(r)  n == Fresh2(r)  x == issue_rekey(p, r)
         IN  /\ IsCall(x)
             /\ x.out = Append(r.out, [msg |-> Rekey(k, n), key |-> r.s.enc, seq |-> r.s.current_seqnr])
             /\ x.s = [r.s EXCEPT !.fresh = @ + 4, !.own_rekey = FALSE, !.real_priv = k,
                                  !.current_seqnr = @ + 1, !.enc = Key({k, r.s.remote_pub}, n)]
<1> DEFINE k == Fresh(r)
           n == Fresh2(r)
           own == [Used(r, 2) EXCEPT !.s.own_rekey = FALSE, !.s.real_priv = k]
           put == Put(own, Rekey(k, n))
           key == Key({k, r.s.remote_pub}, n)
           x == issue_rekey(p, r)
<1>s. r.s \in Endpoint /\ {"s", "out"} \subseteq DOMAIN r
  BY DEF IsCall
<1>0. k \in Nat /\ n \in Nat /\ n = k + 2 /\ k = r.s.fresh
  BY <1>s, FieldTypes, SMTT(30), SMTT(31) DEF Fresh, Fresh2
<1>1. Rekey(k, n) \in Message
  BY <1>0 DEF Rekey, Message, Roles, NoKey
<1>2. /\ own.s = [r.s EXCEPT !.fresh = @ + 2 * 2, !.own_rekey = FALSE, !.real_priv = k]
      /\ own.out = r.out /\ {"s", "out"} \subseteq DOMAIN own
  BY <1>s DEF Used
<1>3. x = [put EXCEPT !.s.enc = Key(x25519(k, r.s.remote_pub), n)]
  BY DEF issue_rekey
<1>4. key \in Keys /\ Key(x25519(k, r.s.remote_pub), n) = key
  BY <1>0, <1>s, FieldTypes DEF Key, Keys, x25519
<1> HIDE DEF k, n, own, x, key
<1>5. own.s \in Endpoint
  <2>1. [r.s EXCEPT !.fresh = @ + 2 * 2] \in Endpoint
    BY <1>s, FieldTypes, FieldSets, SMTT(30), SMTT(31)
  <2>2. [[r.s EXCEPT !.fresh = @ + 2 * 2] EXCEPT !.own_rekey = FALSE] \in Endpoint
    BY <2>1, FieldSets
  <2>3. [[[r.s EXCEPT !.fresh = @ + 2 * 2] EXCEPT !.own_rekey = FALSE] EXCEPT !.real_priv = k] \in Endpoint
    BY <1>0, <2>2, FieldSets
  <2> QED BY <1>2, <2>3
<1>6. IsCall(own)
  BY <1>2, <1>5 DEF IsCall
<1>7. /\ IsCall(put) /\ put.out = Append(r.out, Sealed(own.s, Rekey(k, n)))
      /\ put.s = [own.s EXCEPT !.current_seqnr = @ + 1]
  <2>1. put.out = Append(own.out, Sealed(own.s, Rekey(k, n)))
    BY <1>1, <1>6, PutIs
  <2>2. IsCall(put) /\ put.s = [own.s EXCEPT !.current_seqnr = @ + 1]
    BY <1>1, <1>6, PutIs
  <2> QED BY <1>2, <2>1, <2>2
<1> HIDE DEF put
<1>8. Sealed(own.s, Rekey(k, n)) = [msg |-> Rekey(k, n), key |-> r.s.enc, seq |-> r.s.current_seqnr]
  <2>1. own.s.enc = r.s.enc /\ own.s.current_seqnr = r.s.current_seqnr
    BY <1>2, <1>s, SMTT(30), SMTT(31) DEF Endpoint
  <2> QED BY <2>1 DEF Sealed
<1>9. x.out = put.out /\ x.s = [put.s EXCEPT !.enc = key] /\ {"s", "out"} \subseteq DOMAIN x
  BY <1>3, <1>4, <1>7 DEF IsCall
<1>10. IsCall(x)
  <2>1. put.s \in Endpoint /\ put.out \in Seq(Packet)
    BY <1>7 DEF IsCall
  <2>2. x.s \in Endpoint
    <3>1. [put.s EXCEPT !.enc = key] \in Endpoint
      BY <1>4, <2>1, FieldSets
    <3> QED BY <1>9, <3>1
  <2> QED BY <1>9, <2>1, <2>2 DEF IsCall
<1>11. x.s = [r.s EXCEPT !.fresh = @ + 4, !.own_rekey = FALSE, !.real_priv = k,
                         !.current_seqnr = @ + 1, !.enc = key]
  <2>1. x.s = [[[[[r.s EXCEPT !.fresh = @ + 4] EXCEPT !.own_rekey = FALSE] EXCEPT !.real_priv = k]
                  EXCEPT !.current_seqnr = @ + 1] EXCEPT !.enc = key]
    BY <1>2, <1>7, <1>9, SMTT(30), SMTT(31)
  <2> QED BY <2>1
<1> QED BY <1>7, <1>8, <1>9, <1>10, <1>11 DEF k, n, x, key

LEMMA append_outIs ==
  ASSUME cf \in Configs, NEW p, NEW r, IsCall(r), r.out = <<>>, r.s.state # "BROKEN", NEW msg \in Message
  PROVE  LET x == append_out(p, r, msg)
         IN  /\ IsCall(x)
             /\ Wrote(r, msg, x) \/ WroteRekey(r, msg, x)
             /\ ~(r.s.own_rekey /\ (p = "cl" \/ base(p) # 0)) =>
                  Wrote(r, msg, x) /\ x.s.rekey_count = r.s.rekey_count
             /\ base(p) # 0 /\ r.s.rekey_count > Size(msg.t) =>
                  /\ Wrote(r, msg, x)
                  /\ x.s.rekey_count >= r.s.rekey_count - Size(msg.t)
<1> DEFINE x == append_out(p, r, msg)
           put == Put(r, msg)
           drives == put.s.own_rekey /\ (p = "cl" \/ base(p) # 0)
           less == [put EXCEPT !.s.rekey_count = @ - Size(msg.t)]
           due == [put EXCEPT !.s.rekey_count = base(p)]
<1>s. r.s \in Endpoint /\ r.s.rekey_count \in Nat /\ r.s.current_seqnr \in Nat /\ r.s.own_rekey \in BOOLEAN
  BY FieldTypes DEF IsCall
<1>1. base(p) \in Nat /\ Size(msg.t) \in Nat
  BY BaseTypes
<1>2. /\ IsCall(put) /\ put.out = Append(r.out, Sealed(r.s, msg))
      /\ put.s = [r.s EXCEPT !.current_seqnr = @ + 1]
  BY PutIs
<1>3. put.s \in Endpoint /\ put.out \in Seq(Packet) /\ {"s", "out"} \subseteq DOMAIN put
  BY <1>2 DEF IsCall
<1> HIDE DEF put
<1>4. Len(put.out) = 1 /\ put.out[1] = Sealed(r.s, msg)
  BY <1>2, SealedType, <1>s, SMTT(30), SMTT(31)
<1>5. /\ Kept(r.s, put.s) /\ put.s.current_seqnr = r.s.current_seqnr + 1 /\ put.s.enc = r.s.enc
      /\ put.s.real_priv = r.s.real_priv /\ put.s.own_rekey = r.s.own_rekey
      /\ put.s.fresh = r.s.fresh /\ put.s.rekey_count = r.s.rekey_count
  BY <1>2, <1>s DEF Kept, Endpoint
<1>6. x = IF ~drives THEN put
          ELSE IF base(p) # 0 /\ put.s.rekey_count > Size(msg.t) THEN less ELSE issue_rekey(p, due)
  BY DEF append_out, put
<1>7. CASE ~drives
  <2>1. x = put
    BY <1>6, <1>7
  <2> HIDE DEF x
  <2>2. Wrote(r, msg, x) /\ x.s.rekey_count = r.s.rekey_count
    BY <1>4, <1>5, <2>1 DEF Wrote
  <2>3. x.s.rekey_count >= r.s.rekey_count - Size(msg.t)
    BY <1>1, <1>s, <2>2
  <2> QED BY <1>2, <2>1, <2>2, <2>3 DEF x
<1>8. CASE drives /\ base(p) # 0 /\ put.s.rekey_count > Size(msg.t)
  <2>1. x = less
    BY <1>6, <1>8
  <2> HIDE DEF x, drives
  <2>2. /\ x.out = put.out /\ x.s = [put.s EXCEPT !.rekey_count = @ - Size(msg.t)]
        /\ {"s", "out"} \subseteq DOMAIN x
    BY <1>3, <2>1
  <2>3. x.s.rekey_count = r.s.rekey_count - Size(msg.t) /\ x.s \in Endpoint
    <3>1. put.s.rekey_count - Size(msg.t) \in Nat
      BY <1>s, <1>1, <1>5, <1>8
    <3>2. [put.s EXCEPT !.rekey_count = put.s.rekey_count - Size(msg.t)] \in Endpoint
      BY <1>3, <3>1, FieldSets
    <3> QED BY <1>3, <1>5, <2>2, <3>2 DEF Endpoint
  <2>4. IsCall(x)
    BY <1>3, <2>2, <2>3 DEF IsCall
  <2>5. /\ Kept(put.s, x.s) /\ x.s.current_seqnr = put.s.current_seqnr /\ x.s.enc = put.s.enc
        /\ x.s.real_priv = put.s.real_priv /\ x.s.own_rekey = put.s.own_rekey
        /\ x.s.fresh = put.s.fresh
    BY <1>3, <2>2 DEF Kept, Endpoint
  <2>6. Wrote(r, msg, x)
    BY <1>4, <1>5, <2>2, <2>5 DEF Wrote, Kept
  <2>7. x.s.rekey_count >= r.s.rekey_count - Size(msg.t)
    BY <1>1, <1>s, <2>3
  <2>8. r.s.own_rekey /\ (p = "cl" \/ base(p) # 0)
    BY <1>5, <1>8 DEF drives
  <2> QED BY <2>4, <2>6, <2>7, <2>8 DEF x
<1>9. CASE drives /\ ~(base(p) # 0 /\ put.s.rekey_count > Size(msg.t))
  <2>1. x = issue_rekey(p, due)
    BY <1>6, <1>9
  <2>2. r.s.own_rekey /\ (p = "cl" \/ base(p) # 0) /\ put.s.own_rekey
    BY <1>5, <1>9 DEF drives
  <2>3. due.out = put.out /\ due.s = [put.s EXCEPT !.rekey_count = base(p)] /\ {"s", "out"} \subseteq DOMAIN due
    BY <1>3
  <2> HIDE DEF x, drives, due
  <2>4. IsCall(due)
    <3>1. [put.s EXCEPT !.rekey_count = base(p)] \in Endpoint
      BY <1>1, <1>3, FieldSets
    <3> QED BY <1>3, <2>3, <3>1 DEF IsCall
  <2>5. /\ Kept(put.s, due.s) /\ due.s.current_seqnr = put.s.current_seqnr /\ due.s.enc = put.s.enc
        /\ due.s.own_rekey = put.s.own_rekey /\ due.s.fresh = put.s.fresh
    BY <1>3, <2>3 DEF Kept, Endpoint
  <2> DEFINE k == Fresh(due)
             n == Fresh2(due)
  <2>6. /\ IsCall(x)
        /\ x.out = Append(due.out, [msg |-> Rekey(k, n), key |-> due.s.enc, seq |-> due.s.current_seqnr])
        /\ x.s = [due.s EXCEPT !.fresh = @ + 4, !.own_rekey = FALSE, !.real_priv = k,
                               !.current_seqnr = @ + 1, !.enc = Key({k, due.s.remote_pub}, n)]
    BY <2>1, <2>2, <2>4, <2>5, issue_rekeyIs, ZenonT(30)
  <2>7. k = r.s.fresh /\ n = r.s.fresh + 2
    BY <1>5, <2>5 DEF Fresh, Fresh2
  <2>8. due.s \in Endpoint /\ due.s.remote_pub = r.s.remote_pub
    BY <1>5, <2>4, <2>5 DEF IsCall, Kept
  <2> HIDE DEF k, n
  <2>9. /\ Kept(due.s, x.s) /\ ~x.s.own_rekey /\ x.s.real_priv = k /\ x.s.fresh = due.s.fresh + 4
        /\ x.s.current_seqnr = due.s.current_seqnr + 1 /\ x.s.enc = Key({k, r.s.remote_pub}, n)
    BY <2>6, <2>8 DEF Kept, Endpoint
  <2>10. Kept(r.s, x.s)
    BY <1>5, <2>5, <2>9 DEF Kept
  <2>11. /\ Len(x.out) = 2 /\ x.out[1] = Sealed(r.s, msg)
         /\ x.out[2] = [msg |-> Rekey(k, n), key |-> r.s.enc, seq |-> r.s.current_seqnr + 1]
    <3> DEFINE pk == [msg |-> Rekey(k, n), key |-> r.s.enc, seq |-> r.s.current_seqnr + 1]
    <3>1. x.out = Append(put.out, pk)
      BY <1>5, <2>3, <2>5, <2>6
    <3> HIDE DEF pk
    <3>2. Len(x.out) = 2 /\ x.out[1] = put.out[1] /\ x.out[2] = pk
      BY <1>3, <1>4, <3>1
    <3> QED BY <1>4, <3>2 DEF pk
  <2>12. x.s.current_seqnr = r.s.current_seqnr + 2 /\ x.s.fresh = r.s.fresh + 4
    BY <1>5, <1>s, <2>5, <2>9
  <2>13. WroteRekey(r, msg, x)
    BY <2>2, <2>7, <2>9, <2>10, <2>11, <2>12 DEF WroteRekey
  <2>14. ~(base(p) # 0 /\ r.s.rekey_count > Size(msg.t))
    BY <1>5, <1>9
  <2> QED BY <2>2, <2>6, <2>13, <2>14 DEF x
<1> QED BY <1>7, <1>8, <1>9

LEMMA UsedIs == ASSUME NEW r, IsCall(r), NEW n \in Nat
                PROVE  LET u == Used(r, n)
                       IN  /\ IsCall(u) /\ u.out = r.out /\ Kept(r.s, u.s)
                           /\ u.s.fresh = r.s.fresh + 2 * n /\ u.s.current_seqnr = r.s.current_seqnr
                           /\ u.s.enc = r.s.enc /\ u.s.real_priv = r.s.real_priv
                           /\ u.s.own_rekey = r.s.own_rekey /\ u.s.rekey_count = r.s.rekey_count
<1> DEFINE u == Used(r, n)
<1>1. r.s \in Endpoint /\ {"s", "out"} \subseteq DOMAIN r /\ r.out \in Seq(Packet) /\ r.s.fresh \in Nat
  BY FieldTypes DEF IsCall
<1>2. u.out = r.out /\ u.s = [r.s EXCEPT !.fresh = @ + 2 * n] /\ {"s", "out"} \subseteq DOMAIN u
  BY <1>1 DEF Used
<1> HIDE DEF u
<1>3. u.s \in Endpoint
  <2>1. r.s.fresh + 2 * n \in Nat
    BY <1>1
  <2>2. [r.s EXCEPT !.fresh = r.s.fresh + 2 * n] \in Endpoint
    BY <1>1, <2>1, FieldSets
  <2> QED BY <1>2, <2>2
<1>4. IsCall(u)
  BY <1>1, <1>2, <1>3 DEF IsCall
<1>5. /\ Kept(r.s, u.s)
      /\ u.s.fresh = r.s.fresh + 2 * n /\ u.s.current_seqnr = r.s.current_seqnr
      /\ u.s.enc = r.s.enc /\ u.s.real_priv = r.s.real_priv
      /\ u.s.own_rekey = r.s.own_rekey /\ u.s.rekey_count = r.s.rekey_count
  BY <1>1, <1>2 DEF Kept, Endpoint
<1> QED BY <1>2, <1>4, <1>5 DEF u

LEMMA HelloTypes == ASSUME cf \in Configs, NEW p \in Side, NEW mode \in {"EPHEMPK", "REALPK"},
                           NEW pk \in Nat, NEW nonce \in Nat
                    PROVE  Hello(p, mode, pk, nonce) \in Message
<1>1. cf.role \in [Side -> Roles]
  BY ConfigAssumption
<1>2. cf.role[p] \in Roles
  BY <1>1
<1> QED BY <1>2 DEF Hello, Message

LEMMA KeyTypes == ASSUME NEW a \in Nat, NEW b \in Nat, NEW n \in Nat
                  PROVE  Key(x25519(a, b), n) \in Keys /\ x25519(a, b) = {a, b}
  BY DEF Key, Keys, x25519

-----------------------------------------------------------------------------
(* what the handlers return *)

\* A handler gives up: the session is over (fail_state).
Refused(s, x) ==
  /\ Len(x.out) = 0 /\ x.s.state = "BROKEN" /\ x.s.authentic = s.authentic
  /\ x.s.auth_latched = s.auth_latched /\ x.s.in_seqnr = s.in_seqnr
  /\ x.s.current_seqnr = s.current_seqnr

\* A HELLO that is written now makes a rekeying due.
Due(p, s) == s.own_rekey /\ (p = "cl" \/ (base(p) # 0 /\ s.rekey_count <= Size("hello")))

\* A handler answers with a HELLO.
Sends(p, s, key, msg, x) ==
  /\ Len(x.out) \in {1, 2} /\ x.out[1] = [msg |-> msg, key |-> key, seq |-> s.current_seqnr]
  /\ Len(x.out) = 2 => x.out[2].msg.t = "rekey" /\ x.out[2].seq = s.current_seqnr + 1
  /\ x.s.current_seqnr = s.current_seqnr + Len(x.out)
  /\ x.s.state = s.state /\ x.s.in_seqnr = s.in_seqnr
  /\ x.s.ephem_priv = s.ephem_priv /\ x.s.key_session = s.key_session /\ x.s.fresh >= s.fresh
  /\ ~Due(p, s) => Len(x.out) = 1 /\ x.s.own_rekey = s.own_rekey /\ x.s.real_priv = s.real_priv
  /\ base(p) # 0 /\ s.rekey_count > Size("hello") => x.s.rekey_count >= s.rekey_count - Size("hello")

LEMMA AnswerIs ==
  ASSUME cf \in Configs, NEW p, NEW r, IsCall(r), r.out = <<>>, r.s.state # "BROKEN",
         NEW msg \in Message, msg.t = "hello"
  PROVE  LET y == append_out(p, r, msg)
         IN  /\ IsCall(y) /\ Kept(r.s, y.s) /\ Sends(p, r.s, r.s.enc, msg, y)
             /\ ~Due(p, r.s) => y.s.enc = r.s.enc
<1> DEFINE y == append_out(p, r, msg)
<1>1. /\ IsCall(y)
      /\ Wrote(r, msg, y) \/ WroteRekey(r, msg, y)
      /\ ~(r.s.own_rekey /\ (p = "cl" \/ base(p) # 0)) => Wrote(r, msg, y) /\ y.s.rekey_count = r.s.rekey_count
      /\ base(p) # 0 /\ r.s.rekey_count > Size(msg.t) =>
           Wrote(r, msg, y) /\ y.s.rekey_count >= r.s.rekey_count - Size(msg.t)
  BY append_outIs
<1> HIDE DEF y
<1>s. r.s \in Endpoint /\ r.s.rekey_count \in Nat /\ r.s.current_seqnr \in Nat /\ r.s.fresh \in Nat
  BY FieldTypes DEF IsCall
<1>2. Size("hello") \in Nat /\ msg.t = "hello" /\ base(p) \in Nat
  BY BaseTypes
<1>3. Kept(r.s, y.s) /\ y.out[1] = [msg |-> msg, key |-> r.s.enc, seq |-> r.s.current_seqnr]
  BY <1>1 DEF Wrote, WroteRekey, Sealed
<1>4. ASSUME ~Due(p, r.s) PROVE Wrote(r, msg, y)
  <2>1. CASE ~(r.s.own_rekey /\ (p = "cl" \/ base(p) # 0))
    BY <1>1, <2>1
  <2>2. CASE r.s.own_rekey /\ (p = "cl" \/ base(p) # 0)
    <3>1. p # "cl" /\ base(p) # 0 /\ ~(r.s.rekey_count <= Size("hello"))
      BY <1>4, <2>2 DEF Due
    <3>2. r.s.rekey_count > Size(msg.t)
      BY <1>s, <1>2, <3>1
    <3> QED BY <1>1, <3>1, <3>2
  <2> QED BY <2>1, <2>2
<1>5. Len(y.out) \in {1, 2} /\ y.s.current_seqnr = r.s.current_seqnr + Len(y.out)
  <2>1. CASE Wrote(r, msg, y)
    BY <2>1 DEF Wrote
  <2>2. CASE WroteRekey(r, msg, y)
    BY <2>2 DEF WroteRekey
  <2> QED BY <1>1, <2>1, <2>2
<1>6. Len(y.out) = 2 => y.out[2].msg.t = "rekey" /\ y.out[2].seq = r.s.current_seqnr + 1
  <2>1. CASE Wrote(r, msg, y)
    BY <2>1 DEF Wrote
  <2>2. CASE WroteRekey(r, msg, y)
    BY <2>2 DEF WroteRekey, Rekey
  <2> QED BY <1>1, <2>1, <2>2
<1>7. y.s.fresh >= r.s.fresh
  <2>1. CASE Wrote(r, msg, y)
    BY <1>s, <2>1 DEF Wrote
  <2>2. CASE WroteRekey(r, msg, y)
    BY <1>s, <2>2 DEF WroteRekey
  <2> QED BY <1>1, <2>1, <2>2
<1>8. Sends(p, r.s, r.s.enc, msg, y)
  BY <1>1, <1>2, <1>3, <1>4, <1>5, <1>6, <1>7 DEF Sends, Kept, Wrote
<1> QED BY <1>1, <1>3, <1>4, <1>8 DEF y, Wrote

\* What update_keymaterial changes, and what not
Keyed(s, key, t) ==
  /\ t.enc = key /\ t.dec = key
  /\ t.state = s.state /\ t.authentic = s.authentic /\ t.auth_latched = s.auth_latched
  /\ t.current_seqnr = s.current_seqnr /\ t.in_seqnr = s.in_seqnr /\ t.real_priv = s.real_priv
  /\ t.ephem_priv = s.ephem_priv /\ t.key_session = s.key_session /\ t.remote_pub = s.remote_pub
  /\ t.own_rekey = s.own_rekey /\ t.rekey_count = s.rekey_count /\ t.fresh = s.fresh

LEMMA KeyedIs ==
  ASSUME NEW y, IsCall(y), NEW sec, NEW n, Key(sec, n) \in Keys
  PROVE  LET x == update_keymaterial(y, sec, n)
         IN  IsCall(x) /\ x.out = y.out /\ Keyed(y.s, Key(sec, n), x.s)
<1> DEFINE x == update_keymaterial(y, sec, n)
           key == Key(sec, n)
<1>1. y.s \in Endpoint /\ {"s", "out"} \subseteq DOMAIN y /\ y.out \in Seq(Packet)
  BY DEF IsCall
<1>2. x = [y EXCEPT !.s.enc = key, !.s.dec = key]
  BY DEF update_keymaterial
<1> HIDE DEF x, key
<1>3. x.out = y.out /\ x.s = [y.s EXCEPT !.enc = key, !.dec = key] /\ {"s", "out"} \subseteq DOMAIN x
  BY <1>1, <1>2
<1>4. x.s \in Endpoint
  <2>1. [y.s EXCEPT !.enc = key] \in Endpoint
    BY <1>1, FieldSets DEF key
  <2>2. [[y.s EXCEPT !.enc = key] EXCEPT !.dec = key] \in Endpoint
    BY <2>1, FieldSets DEF key
  <2> QED BY <1>3, <2>2
<1>5. Keyed(y.s, key, x.s)
  BY <1>1, <1>3 DEF Keyed, Endpoint
<1> QED BY <1>1, <1>3, <1>4, <1>5 DEF IsCall, x, key

LEMMA fail_stateIs == ASSUME NEW r, IsCall(r), r.out = <<>>
                      PROVE  IsCall(fail_state(r)) /\ Refused(r.s, fail_state(r))
<1> DEFINE x == fail_state(r)
<1>1. r.s \in Endpoint /\ {"s", "out"} \subseteq DOMAIN r /\ r.out \in Seq(Packet)
  BY DEF IsCall
<1>2. x.out = r.out /\ x.s = [r.s EXCEPT !.state = "BROKEN"] /\ {"s", "out"} \subseteq DOMAIN x
  BY <1>1 DEF fail_state
<1> HIDE DEF x
<1>3. x.s \in Endpoint
  <2>1. "BROKEN" \in States
    BY DEF States
  <2>2. [r.s EXCEPT !.state = "BROKEN"] \in Endpoint
    BY <1>1, <2>1, FieldSets
  <2> QED BY <1>2, <2>2
<1>4. Refused(r.s, x)
  BY <1>1, <1>2, SMTT(30), SMTT(31) DEF Refused, Endpoint
<1> QED BY <1>1, <1>2, <1>3, <1>4 DEF IsCall, x

\* The number of a HELLO's key has been drawn; what is set after it was
\* written does not touch what Sends speaks of.
LEMMA SendsAfter ==
  ASSUME NEW p, NEW s \in Endpoint, NEW u, NEW y, NEW x, NEW msg, NEW key,
         y.s \in Endpoint, x.s \in Endpoint,
         Sends(p, u, key, msg, y), u.fresh \in Nat, u.fresh >= s.fresh,
         u.state = s.state, u.in_seqnr = s.in_seqnr, u.ephem_priv = s.ephem_priv,
         u.key_session = s.key_session,
         u.current_seqnr = s.current_seqnr, u.real_priv = s.real_priv,
         u.own_rekey = s.own_rekey, u.rekey_count = s.rekey_count,
         x.out = y.out, x.s.current_seqnr = y.s.current_seqnr, x.s.state = y.s.state,
         x.s.in_seqnr = y.s.in_seqnr, x.s.ephem_priv = y.s.ephem_priv,
         x.s.key_session = y.s.key_session, x.s.fresh = y.s.fresh,
         x.s.own_rekey = y.s.own_rekey, x.s.real_priv = y.s.real_priv, x.s.rekey_count = y.s.rekey_count
  PROVE  Sends(p, s, key, msg, x)
<1>1. Due(p, u) <=> Due(p, s)
  BY DEF Due
<1>2. x.s.fresh >= s.fresh
  <2>1. y.s.fresh >= u.fresh /\ y.s.fresh \in Nat /\ s.fresh \in Nat
    BY FieldTypes DEF Sends
  <2> QED BY <2>1
<1>3. /\ Len(x.out) \in {1, 2} /\ x.out[1] = [msg |-> msg, key |-> key, seq |-> s.current_seqnr]
      /\ Len(x.out) = 2 => x.out[2].msg.t = "rekey" /\ x.out[2].seq = s.current_seqnr + 1
      /\ x.s.current_seqnr = s.current_seqnr + Len(x.out)
      /\ x.s.state = s.state /\ x.s.in_seqnr = s.in_seqnr
      /\ x.s.ephem_priv = s.ephem_priv /\ x.s.key_session = s.key_session
  BY DEF Sends
<1>4. ~Due(p, s) => Len(x.out) = 1 /\ x.s.own_rekey = s.own_rekey /\ x.s.real_priv = s.real_priv
  BY <1>1 DEF Sends
<1>5. base(p) # 0 /\ s.rekey_count > Size("hello") => x.s.rekey_count >= s.rekey_count - Size("hello")
  BY DEF Sends
<1> QED BY <1>2, <1>3, <1>4, <1>5 DEF Sends

\* The server answers an ephemeral HELLO with its own.
EphemAnswer(s, m, x) ==
  \E k, n \in Nat :
    /\ Sends("srv", s, s.enc, Hello("srv", "EPHEMPK", k, n), x)
    /\ x.s.authentic = "EPHEMERAL_PK" /\ x.s.auth_latched = s.auth_latched
    /\ x.s.enc = Key({k, m.pk}, n) /\ x.s.dec = Key({k, m.pk}, n)

\* The server has accepted the client's key and shows the one of the session.
RealAnswer(s, m, x) ==
  \E n \in Nat :
    /\ Sends("srv", s, s.enc, Hello("srv", "REALPK", s.key_session, n), x)
    /\ x.s.authentic = "FULL_PK" /\ x.s.auth_latched = TRUE /\ x.s.remote_pub = m.pk
    /\ x.s.enc = Key({s.key_session, m.pk}, n) /\ x.s.dec = Key({s.key_session, m.pk}, n)

LEMMA server_helloIs ==
  ASSUME cf \in Configs, NEW r, IsCall(r), r.out = <<>>, r.s.state # "BROKEN", NEW m \in Message
  PROVE  LET x == hello_auth_server_hello(r, m)
         IN  /\ IsCall(x)
             /\ \/ m.mode = "EPHEMPK" /\ EphemAnswer(r.s, m, x)
                \/ m.mode # "EPHEMPK" /\ ~cf.known["srv"] /\ Refused(r.s, x)
                \/ m.mode # "EPHEMPK" /\ RealAnswer(r.s, m, x)
<1> DEFINE x == hello_auth_server_hello(r, m)
           k == Fresh(r)
           n == Fresh2(r)
<1>s. /\ r.s \in Endpoint /\ r.s.fresh \in Nat /\ r.s.key_session \in Nat /\ r.s.state \in States
      /\ "srv" \in Side /\ m.pk \in Nat
  <2>1. m.pk \in Nat /\ "srv" \in Side
    BY DEF Message, Side
  <2> QED BY <2>1, FieldTypes DEF IsCall
<1>0. k \in Nat /\ n \in Nat
  BY <1>s DEF Fresh, Fresh2
<1>1. CASE m.mode = "EPHEMPK"
  <2> DEFINE u == Used(r, 2)
             msg == Hello("srv", "EPHEMPK", k, n)
             y == append_out("srv", u, msg)
             key == Key(x25519(k, m.pk), n)
             z == update_keymaterial(y, x25519(k, m.pk), n)
  <2>1. x = [z EXCEPT !.s.authentic = "EPHEMERAL_PK"]
    BY <1>1 DEF hello_auth_server_hello
  <2>2. msg \in Message /\ msg.t = "hello"
    <3>1. msg \in Message
      BY <1>s, <1>0, HelloTypes
    <3> QED BY <3>1 DEF Hello
  <2>3. /\ IsCall(u) /\ u.out = r.out /\ Kept(r.s, u.s)
        /\ u.s.fresh = r.s.fresh + 2 * 2 /\ u.s.current_seqnr = r.s.current_seqnr
        /\ u.s.enc = r.s.enc /\ u.s.real_priv = r.s.real_priv
        /\ u.s.own_rekey = r.s.own_rekey /\ u.s.rekey_count = r.s.rekey_count
    <3>1. 2 \in Nat
      OBVIOUS
    <3> QED BY <3>1, UsedIs
  <2> HIDE DEF u, msg, x, k, n
  <2>4. u.s.state # "BROKEN" /\ u.out = <<>>
    BY <2>3 DEF Kept
  <2>5. IsCall(y) /\ Kept(u.s, y.s) /\ Sends("srv", u.s, u.s.enc, msg, y)
    BY <2>2, <2>3, <2>4, AnswerIs
  <2> HIDE DEF y
  <2>6. key \in Keys /\ x25519(k, m.pk) = {k, m.pk}
    BY <1>0, <1>s, KeyTypes
  <2> HIDE DEF key
  <2>7. IsCall(z) /\ z.out = y.out /\ Keyed(y.s, key, z.s)
    BY <2>5, <2>6, KeyedIs DEF key
  <2> HIDE DEF z
  <2>8. z.s \in Endpoint /\ {"s", "out"} \subseteq DOMAIN z /\ z.out \in Seq(Packet) /\ y.s \in Endpoint
    BY <2>5, <2>7 DEF IsCall
  <2>9. x.out = z.out /\ x.s = [z.s EXCEPT !.authentic = "EPHEMERAL_PK"] /\ {"s", "out"} \subseteq DOMAIN x
    BY <2>1, <2>8
  <2>10. x.s \in Endpoint
    <3>1. "EPHEMERAL_PK" \in Auths
      BY DEF Auths
    <3>2. [z.s EXCEPT !.authentic = "EPHEMERAL_PK"] \in Endpoint
      BY <2>8, <3>1, FieldSets
    <3> QED BY <2>9, <3>2
  <2>11. IsCall(x)
    BY <2>8, <2>9, <2>10 DEF IsCall
  <2>12. /\ x.s.authentic = "EPHEMERAL_PK" /\ x.s.auth_latched = y.s.auth_latched
         /\ x.s.enc = key /\ x.s.dec = key
         /\ x.s.current_seqnr = y.s.current_seqnr /\ x.s.state = y.s.state
         /\ x.s.in_seqnr = y.s.in_seqnr /\ x.s.ephem_priv = y.s.ephem_priv
         /\ x.s.key_session = y.s.key_session /\ x.s.fresh = y.s.fresh
         /\ x.s.own_rekey = y.s.own_rekey /\ x.s.real_priv = y.s.real_priv
         /\ x.s.rekey_count = y.s.rekey_count
    BY <2>7, <2>8, <2>9 DEF Endpoint, Keyed
  <2>13. x.out = y.out /\ u.s.fresh \in Nat /\ u.s.fresh >= r.s.fresh
    BY <1>s, <2>3, <2>7, <2>9, SMTT(30), SMTT(31)
  <2>14. Sends("srv", r.s, r.s.enc, msg, x)
    <3>1. Sends("srv", u.s, r.s.enc, msg, y)
      BY <2>3, <2>5
    <3> QED BY <1>s, <2>3, <2>8, <2>10, <2>12, <2>13, <3>1, SendsAfter DEF Kept
  <2>15. x.s.auth_latched = r.s.auth_latched
    BY <2>3, <2>5, <2>12 DEF Kept
  <2>16. EphemAnswer(r.s, m, x)
    BY <1>0, <2>6, <2>12, <2>14, <2>15 DEF EphemAnswer, msg, key
  <2> QED BY <1>1, <2>11, <2>16 DEF x
<1>2. CASE m.mode # "EPHEMPK" /\ ~cf.known["srv"]
  <2>1. x = fail_state(r)
    BY <1>2 DEF hello_auth_server_hello
  <2> QED BY <1>2, <2>1, fail_stateIs
<1>3. CASE m.mode # "EPHEMPK" /\ cf.known["srv"]
  <2> DEFINE u == Used(r, 1)
             msg == Hello("srv", "REALPK", r.s.key_session, k)
             y == append_out("srv", u, msg)
             sec == x25519(r.s.key_session, m.pk)
             key == Key(sec, k)
             z == update_keymaterial(y, sec, k)
  <2>1. x = [z EXCEPT !.s.remote_pub = m.pk, !.s.authentic = "FULL_PK", !.s.auth_latched = TRUE]
    BY <1>3 DEF hello_auth_server_hello
  <2>2. msg \in Message /\ msg.t = "hello"
    <3>1. msg \in Message
      BY <1>s, <1>0, HelloTypes
    <3> QED BY <3>1 DEF Hello
  <2>3. /\ IsCall(u) /\ u.out = r.out /\ Kept(r.s, u.s)
        /\ u.s.fresh = r.s.fresh + 2 * 1 /\ u.s.current_seqnr = r.s.current_seqnr
        /\ u.s.enc = r.s.enc /\ u.s.real_priv = r.s.real_priv
        /\ u.s.own_rekey = r.s.own_rekey /\ u.s.rekey_count = r.s.rekey_count
    <3>1. 1 \in Nat
      OBVIOUS
    <3> QED BY <3>1, UsedIs
  <2> HIDE DEF u, msg, x, k, n
  <2>4. u.s.state # "BROKEN" /\ u.out = <<>>
    BY <2>3 DEF Kept
  <2>5. IsCall(y) /\ Kept(u.s, y.s) /\ Sends("srv", u.s, u.s.enc, msg, y)
    BY <2>2, <2>3, <2>4, AnswerIs
  <2> HIDE DEF y
  <2>6. key \in Keys /\ sec = {r.s.key_session, m.pk}
    BY <1>0, <1>s, KeyTypes
  <2> HIDE DEF key, sec
  <2>7. IsCall(z) /\ z.out = y.out /\ Keyed(y.s, key, z.s)
    BY <2>5, <2>6, KeyedIs DEF key
  <2> HIDE DEF z
  <2>8. z.s \in Endpoint /\ {"s", "out"} \subseteq DOMAIN z /\ z.out \in Seq(Packet) /\ y.s \in Endpoint
    BY <2>5, <2>7 DEF IsCall
  <2>9. /\ x.out = z.out /\ {"s", "out"} \subseteq DOMAIN x
        /\ x.s = [z.s EXCEPT !.remote_pub = m.pk, !.authentic = "FULL_PK", !.auth_latched = TRUE]
    BY <2>1, <2>8
  <2>10. x.s \in Endpoint
    <3>1. "FULL_PK" \in Auths
      BY DEF Auths
    <3>2. [z.s EXCEPT !.remote_pub = m.pk] \in Endpoint
      BY <1>s, <2>8, FieldSets
    <3>3. [[z.s EXCEPT !.remote_pub = m.pk] EXCEPT !.authentic = "FULL_PK"] \in Endpoint
      BY <3>1, <3>2, FieldSets
    <3>4. [[[z.s EXCEPT !.remote_pub = m.pk] EXCEPT !.authentic = "FULL_PK"] EXCEPT !.auth_latched = TRUE] \in Endpoint
      BY <3>3, FieldSets
    <3> QED BY <2>9, <3>4
  <2>11. IsCall(x)
    BY <2>8, <2>9, <2>10 DEF IsCall
  <2>12. /\ x.s.authentic = "FULL_PK" /\ x.s.auth_latched = TRUE /\ x.s.remote_pub = m.pk
         /\ x.s.enc = key /\ x.s.dec = key
         /\ x.s.current_seqnr = y.s.current_seqnr /\ x.s.state = y.s.state
         /\ x.s.in_seqnr = y.s.in_seqnr /\ x.s.ephem_priv = y.s.ephem_priv
         /\ x.s.key_session = y.s.key_session /\ x.s.fresh = y.s.fresh
         /\ x.s.own_rekey = y.s.own_rekey /\ x.s.real_priv = y.s.real_priv
         /\ x.s.rekey_count = y.s.rekey_count
    BY <2>7, <2>8, <2>9 DEF Endpoint, Keyed
  <2>13. x.out = y.out /\ u.s.fresh \in Nat /\ u.s.fresh >= r.s.fresh
    BY <1>s, <2>3, <2>7, <2>9, SMTT(30), SMTT(31)
  <2>14. Sends("srv", r.s, r.s.enc, msg, x)
    <3>1. Sends("srv", u.s, r.s.enc, msg, y)
      BY <2>3, <2>5
    <3> QED BY <1>s, <2>3, <2>8, <2>10, <2>12, <2>13, <3>1, SendsAfter DEF Kept
  <2>15. RealAnswer(r.s, m, x)
    BY <1>0, <2>6, <2>12, <2>14 DEF RealAnswer, msg, key
  <2> QED BY <1>3, <2>11, <2>15 DEF x
<1> QED BY <1>1, <1>2, <1>3

\* The client has the server's ephemeral key and shows its own.
PoliteAnswer(s, m, x) ==
  \E n \in Nat :
    /\ Sends("cl", s, Key({s.ephem_priv, m.pk}, m.nonce), Hello("cl", "REALPK", s.real_priv, n), x)
    /\ x.s.authentic = "REAL_HELLO_SENT" /\ x.s.auth_latched = s.auth_latched
    /\ x.s.dec = Key({s.ephem_priv, m.pk}, m.nonce)
    /\ ~Due("cl", s) => x.s.enc = Key({s.ephem_priv, m.pk}, m.nonce)

LEMMA polite_replyIs ==
  ASSUME cf \in Configs, NEW r, IsCall(r), r.out = <<>>, r.s.state # "BROKEN", NEW m \in Message
  PROVE  IsCall(polite_reply(r, m)) /\ PoliteAnswer(r.s, m, polite_reply(r, m))
<1> DEFINE sec == x25519(r.s.ephem_priv, m.pk)
           key == Key(sec, m.nonce)
           eph == update_keymaterial(r, sec, m.nonce)
           u == Used(eph, 1)
           w == [u EXCEPT !.s.authentic = "REAL_HELLO_SENT"]
           msg == Hello("cl", "REALPK", r.s.real_priv, Fresh(r))
           y == append_out("cl", w, msg)
<1>s. /\ r.s \in Endpoint /\ r.s.fresh \in Nat /\ r.s.ephem_priv \in Nat /\ r.s.real_priv \in Nat
      /\ "cl" \in Side /\ m.pk \in Nat /\ m.nonce \in Nat
  <2>1. m.pk \in Nat /\ m.nonce \in Nat /\ "cl" \in Side
    BY DEF Message, Side
  <2> QED BY <2>1, FieldTypes DEF IsCall
<1>1. polite_reply(r, m) = y
  BY DEF polite_reply
<1>2. msg \in Message /\ msg.t = "hello"
  <2>1. msg \in Message
    BY <1>s, HelloTypes DEF Fresh
  <2> QED BY <2>1 DEF Hello
<1>3. key \in Keys /\ sec = {r.s.ephem_priv, m.pk}
  BY <1>s, KeyTypes
<1> HIDE DEF sec, key, msg
<1>4. IsCall(eph) /\ eph.out = r.out /\ Keyed(r.s, key, eph.s)
  BY <1>3, KeyedIs DEF key
<1> HIDE DEF eph
<1>5. /\ IsCall(u) /\ u.out = eph.out /\ Kept(eph.s, u.s)
      /\ u.s.fresh = eph.s.fresh + 2 * 1 /\ u.s.current_seqnr = eph.s.current_seqnr
      /\ u.s.enc = eph.s.enc /\ u.s.real_priv = eph.s.real_priv
      /\ u.s.own_rekey = eph.s.own_rekey /\ u.s.rekey_count = eph.s.rekey_count
  <2>1. 1 \in Nat
    OBVIOUS
  <2> QED BY <1>4, <2>1, UsedIs
<1> HIDE DEF u
<1>6. u.s \in Endpoint /\ {"s", "out"} \subseteq DOMAIN u /\ u.out \in Seq(Packet)
  BY <1>5 DEF IsCall
<1>7. w.out = u.out /\ w.s = [u.s EXCEPT !.authentic = "REAL_HELLO_SENT"] /\ {"s", "out"} \subseteq DOMAIN w
  BY <1>6
<1> HIDE DEF w
<1>8. w.s \in Endpoint /\ IsCall(w)
  <2>1. "REAL_HELLO_SENT" \in Auths
    BY DEF Auths
  <2>2. [u.s EXCEPT !.authentic = "REAL_HELLO_SENT"] \in Endpoint
    BY <1>6, <2>1, FieldSets
  <2> QED BY <1>6, <1>7, <2>2 DEF IsCall
<1>9. /\ w.s.authentic = "REAL_HELLO_SENT" /\ w.s.auth_latched = u.s.auth_latched /\ w.s.enc = u.s.enc
      /\ w.s.dec = u.s.dec /\ w.s.current_seqnr = u.s.current_seqnr /\ w.s.state = u.s.state
      /\ w.s.in_seqnr = u.s.in_seqnr /\ w.s.ephem_priv = u.s.ephem_priv
      /\ w.s.key_session = u.s.key_session /\ w.s.fresh = u.s.fresh /\ w.s.remote_pub = u.s.remote_pub
      /\ w.s.own_rekey = u.s.own_rekey /\ w.s.real_priv = u.s.real_priv
      /\ w.s.rekey_count = u.s.rekey_count
  BY <1>6, <1>7 DEF Endpoint
<1>10. /\ w.s.authentic = "REAL_HELLO_SENT" /\ w.s.auth_latched = r.s.auth_latched /\ w.s.enc = key
       /\ w.s.dec = key /\ w.s.current_seqnr = r.s.current_seqnr /\ w.s.state = r.s.state
       /\ w.s.in_seqnr = r.s.in_seqnr /\ w.s.ephem_priv = r.s.ephem_priv
       /\ w.s.key_session = r.s.key_session /\ w.s.fresh = r.s.fresh + 2 * 1
       /\ w.s.own_rekey = r.s.own_rekey /\ w.s.real_priv = r.s.real_priv
       /\ w.s.rekey_count = r.s.rekey_count /\ w.out = <<>>
  BY <1>4, <1>5, <1>7, <1>9, SMTT(30), SMTT(31) DEF Kept, Keyed
<1>11. /\ IsCall(y) /\ Kept(w.s, y.s) /\ Sends("cl", w.s, w.s.enc, msg, y)
       /\ ~Due("cl", w.s) => y.s.enc = w.s.enc
  <2>1. w.out = <<>> /\ w.s.state # "BROKEN"
    BY <1>10
  <2> QED BY <1>2, <1>8, <2>1, AnswerIs
<1> HIDE DEF y
<1>12. w.s.fresh \in Nat /\ w.s.fresh >= r.s.fresh
  BY <1>s, <1>10
<1>13. Sends("cl", r.s, key, msg, y)
  <2>1. Sends("cl", w.s, key, msg, y)
    BY <1>10, <1>11
  <2>2. y.s \in Endpoint
    BY <1>11 DEF IsCall
  <2> QED BY <1>s, <1>10, <1>12, <2>1, <2>2, SendsAfter
<1>14. Due("cl", w.s) <=> Due("cl", r.s)
  BY <1>10 DEF Due
<1>15. PoliteAnswer(r.s, m, y)
  BY <1>s, <1>3, <1>10, <1>11, <1>13, <1>14 DEF PoliteAnswer, Kept, key, msg, Fresh
<1> QED BY <1>1, <1>11, <1>15

\* The client has the server's key: authenticated.
ClientDone(s, m, x) ==
  /\ Len(x.out) = 0 /\ x.s.authentic = "FULL_PK" /\ x.s.auth_latched = TRUE
  /\ x.s.remote_pub = m.pk
  /\ x.s.enc = Key({s.real_priv, m.pk}, m.nonce) /\ x.s.dec = Key({s.real_priv, m.pk}, m.nonce)
  /\ x.s.state = s.state /\ x.s.current_seqnr = s.current_seqnr /\ x.s.in_seqnr = s.in_seqnr
  /\ x.s.real_priv = s.real_priv /\ x.s.own_rekey = s.own_rekey /\ x.s.fresh = s.fresh
  /\ x.s.key_session = s.key_session

LEMMA client_helloIs ==
  ASSUME cf \in Configs, NEW r, IsCall(r), r.out = <<>>, NEW m \in Message
  PROVE  LET x == hello_auth_client_hello(r, m)
         IN  IsCall(x) /\ (ClientDone(r.s, m, x) \/ (~cf.known["cl"] /\ Refused(r.s, x)))
<1> DEFINE x == hello_auth_client_hello(r, m)
           sec == x25519(r.s.real_priv, m.pk)
           key == Key(sec, m.nonce)
           z == update_keymaterial(r, sec, m.nonce)
<1>1. CASE ~cf.known["cl"]
  <2>1. x = fail_state(r)
    BY <1>1 DEF hello_auth_client_hello
  <2> QED BY <1>1, <2>1, fail_stateIs
<1>2. CASE cf.known["cl"]
  <2>s. /\ r.s \in Endpoint /\ r.s.real_priv \in Nat /\ m.pk \in Nat /\ m.nonce \in Nat
    <3>1. m.pk \in Nat /\ m.nonce \in Nat
      BY DEF Message
    <3> QED BY <3>1, FieldTypes DEF IsCall
  <2>1. x = [z EXCEPT !.s.authentic = "FULL_PK", !.s.auth_latched = TRUE, !.s.remote_pub = m.pk]
    BY <1>2 DEF hello_auth_client_hello
  <2>2. key \in Keys /\ sec = {r.s.real_priv, m.pk}
    BY <2>s, KeyTypes
  <2> HIDE DEF sec, key, x
  <2>3. IsCall(z) /\ z.out = r.out /\ Keyed(r.s, key, z.s)
    BY <2>2, KeyedIs DEF key
  <2> HIDE DEF z
  <2>4. z.s \in Endpoint /\ {"s", "out"} \subseteq DOMAIN z /\ z.out \in Seq(Packet)
    BY <2>3 DEF IsCall
  <2>5. /\ x.out = z.out /\ {"s", "out"} \subseteq DOMAIN x
        /\ x.s = [z.s EXCEPT !.authentic = "FULL_PK", !.auth_latched = TRUE, !.remote_pub = m.pk]
    BY <2>1, <2>4
  <2>6. x.s \in Endpoint
    <3>1. "FULL_PK" \in Auths
      BY DEF Auths
    <3>2. [z.s EXCEPT !.authentic = "FULL_PK"] \in Endpoint
      BY <2>4, <3>1, FieldSets
    <3>3. [[z.s EXCEPT !.authentic = "FULL_PK"] EXCEPT !.auth_latched = TRUE] \in Endpoint
      BY <3>2, FieldSets
    <3>4. [[[z.s EXCEPT !.authentic = "FULL_PK"] EXCEPT !.auth_latched = TRUE] EXCEPT !.remote_pub = m.pk] \in Endpoint
      BY <2>s, <3>3, FieldSets
    <3> QED BY <2>5, <3>4
  <2>7. IsCall(x)
    BY <2>4, <2>5, <2>6 DEF IsCall
  <2>8. /\ x.s.authentic = "FULL_PK" /\ x.s.auth_latched = TRUE /\ x.s.remote_pub = m.pk
        /\ x.s.enc = key /\ x.s.dec = key
        /\ x.s.state = r.s.state /\ x.s.current_seqnr = r.s.current_seqnr /\ x.s.in_seqnr = r.s.in_seqnr
        /\ x.s.real_priv = r.s.real_priv /\ x.s.own_rekey = r.s.own_rekey /\ x.s.fresh = r.s.fresh
        /\ x.s.key_session = r.s.key_session
    BY <2>3, <2>4, <2>5 DEF Endpoint, Keyed
  <2>9. Len(x.out) = 0
    BY <2>3, <2>5, SMTT(30), SMTT(31)
  <2>10. ClientDone(r.s, m, x)
    BY <2>2, <2>8, <2>9 DEF ClientDone, key
  <2> QED BY <2>7, <2>10 DEF x
<1> QED BY <1>1, <1>2

\* The other side has taken new keys: the initiative is here now.
Rekeyed(s, m, x) ==
  /\ Len(x.out) = 0 /\ x.s.remote_pub = m.pk /\ x.s.own_rekey = TRUE
  /\ x.s.dec = Key({s.real_priv, m.pk}, m.nonce)
  /\ x.s.enc = s.enc /\ x.s.state = s.state /\ x.s.authentic = s.authentic
  /\ x.s.auth_latched = s.auth_latched /\ x.s.current_seqnr = s.current_seqnr
  /\ x.s.in_seqnr = s.in_seqnr /\ x.s.real_priv = s.real_priv /\ x.s.key_session = s.key_session
  /\ x.s.fresh = s.fresh

LEMMA command_rekeyIs ==
  ASSUME NEW r, IsCall(r), r.out = <<>>, NEW m \in Message
  PROVE  LET x == command_rekey(r, m)
         IN  /\ IsCall(x)
             /\ (~r.s.own_rekey /\ Rekeyed(r.s, m, x)) \/ (r.s.own_rekey /\ Refused(r.s, x))
<1> DEFINE x == command_rekey(r, m)
           key == Key(x25519(r.s.real_priv, m.pk), m.nonce)
<1>1. CASE r.s.own_rekey
  <2>1. x = fail_state(r)
    BY <1>1 DEF command_rekey
  <2> QED BY <1>1, <2>1, fail_stateIs
<1>2. CASE ~r.s.own_rekey
  <2>s. /\ r.s \in Endpoint /\ r.s.real_priv \in Nat /\ m.pk \in Nat /\ m.nonce \in Nat
        /\ {"s", "out"} \subseteq DOMAIN r /\ r.out \in Seq(Packet)
    <3>1. m.pk \in Nat /\ m.nonce \in Nat
      BY DEF Message
    <3> QED BY <3>1, FieldTypes DEF IsCall
  <2>1. x = [r EXCEPT !.s.remote_pub = m.pk, !.s.own_rekey = TRUE, !.s.dec = key]
    BY <1>2 DEF command_rekey
  <2>2. key \in Keys /\ key = Key({r.s.real_priv, m.pk}, m.nonce)
    BY <2>s, KeyTypes
  <2> HIDE DEF key, x
  <2>5. /\ x.out = r.out /\ {"s", "out"} \subseteq DOMAIN x
        /\ x.s = [r.s EXCEPT !.remote_pub = m.pk, !.own_rekey = TRUE, !.dec = key]
    BY <2>1, <2>s
  <2>6. x.s \in Endpoint
    <3>2. [r.s EXCEPT !.remote_pub = m.pk] \in Endpoint
      BY <2>s, FieldSets
    <3>3. [[r.s EXCEPT !.remote_pub = m.pk] EXCEPT !.own_rekey = TRUE] \in Endpoint
      BY <3>2, FieldSets
    <3>4. [[[r.s EXCEPT !.remote_pub = m.pk] EXCEPT !.own_rekey = TRUE] EXCEPT !.dec = key] \in Endpoint
      BY <2>2, <3>3, FieldSets
    <3> QED BY <2>5, <3>4
  <2>7. IsCall(x)
    BY <2>s, <2>5, <2>6 DEF IsCall
  <2>8. /\ x.s.remote_pub = m.pk /\ x.s.own_rekey = TRUE
        /\ x.s.dec = key
        /\ x.s.enc = r.s.enc /\ x.s.state = r.s.state /\ x.s.authentic = r.s.authentic
        /\ x.s.auth_latched = r.s.auth_latched /\ x.s.current_seqnr = r.s.current_seqnr
        /\ x.s.in_seqnr = r.s.in_seqnr /\ x.s.real_priv = r.s.real_priv /\ x.s.key_session = r.s.key_session
        /\ x.s.fresh = r.s.fresh
    BY <2>s, <2>5 DEF Endpoint
  <2>9. Len(x.out) = 0
    BY <2>5, SMTT(30), SMTT(31)
  <2>10. Rekeyed(r.s, m, x)
    BY <2>2, <2>8, <2>9 DEF Rekeyed
  <2> QED BY <1>2, <2>7, <2>10 DEF x
<1>3. r.s.own_rekey \in BOOLEAN
  BY FieldTypes DEF IsCall
<1> QED BY <1>1, <1>2, <1>3

\* The stages of the handshake that a side goes through
AuthOf(p) == IF p = "cl" THEN {"POLITE_HELLO_SENT", "REAL_HELLO_SENT", "FULL_PK"}
             ELSE {"SERVER_HBLOCK", "EPHEMERAL_PK", "FULL_PK"}

\* What process_control makes of a message m
Outcome(p, s, m, x) ==
  \/ /\ p = "srv" /\ m.t = "hello" /\ m.mode = "EPHEMPK" /\ s.authentic # "FULL_PK"
     /\ EphemAnswer(s, m, x)
  \/ /\ p = "srv" /\ m.t = "hello" /\ m.mode # "EPHEMPK" /\ s.authentic # "FULL_PK"
     /\ RealAnswer(s, m, x)
  \/ p = "cl" /\ m.t = "hello" /\ s.authentic = "POLITE_HELLO_SENT" /\ PoliteAnswer(s, m, x)
  \/ p = "cl" /\ m.t = "hello" /\ s.authentic = "REAL_HELLO_SENT" /\ ClientDone(s, m, x)
  \/ m.t = "rekey" /\ s.authentic = "FULL_PK" /\ ~s.own_rekey /\ Rekeyed(s, m, x)
  \/ /\ \/ m.t = "hello" /\ ~RoleMatch(cf.role[p], m.role)
        \/ m.t = "hello" /\ ~cf.known[p]
        \/ m.t = "hello" /\ s.authentic = "FULL_PK"
        \/ m.t = "rekey" /\ (s.authentic # "FULL_PK" \/ s.own_rekey)
        \/ m.t \notin {"hello", "rekey"}
     /\ Refused(s, x)

LEMMA process_controlIs ==
  ASSUME cf \in Configs, NEW p \in Side, NEW r, IsCall(r), r.out = <<>>, r.s.state # "BROKEN",
         r.s.authentic \in AuthOf(p), NEW m \in Message
  PROVE  IsCall(process_control(p, r, m)) /\ Outcome(p, r.s, m, process_control(p, r, m))
<1> DEFINE x == process_control(p, r, m)
           matches == RoleMatch(cf.role[p], m.role)
           a == r.s.authentic
<1>0. r.s.own_rekey \in BOOLEAN
  BY FieldTypes DEF IsCall
<1>f. IsCall(fail_state(r)) /\ Refused(r.s, fail_state(r))
  BY fail_stateIs
<1>a. a \in AuthOf(p)
  OBVIOUS
<1>1. CASE m.t = "hello"
  <2>1. x = process_hello_auth(p, r, m)
    BY <1>1 DEF process_control
  <2>2. /\ ~matches => x = fail_state(r)
        /\ matches /\ a \in {"SERVER_HBLOCK", "EPHEMERAL_PK"} => x = hello_auth_server_hello(r, m)
        /\ matches /\ a = "POLITE_HELLO_SENT" => x = polite_reply(r, m)
        /\ matches /\ a = "REAL_HELLO_SENT" => x = hello_auth_client_hello(r, m)
        /\ matches /\ a = "FULL_PK" => x = fail_state(r)
    <3>1. CASE ~matches
      BY <2>1, <3>1 DEF process_hello_auth
    <3>2. CASE matches
      <4>1. ASSUME a \in {"SERVER_HBLOCK", "EPHEMERAL_PK"} PROVE x = hello_auth_server_hello(r, m)
        BY <2>1, <3>2, <4>1 DEF process_hello_auth
      <4>2. ASSUME a = "POLITE_HELLO_SENT" PROVE x = polite_reply(r, m)
        BY <2>1, <3>2, <4>2 DEF process_hello_auth
      <4>3. ASSUME a = "REAL_HELLO_SENT" PROVE x = hello_auth_client_hello(r, m)
        BY <2>1, <3>2, <4>3 DEF process_hello_auth
      <4>4. ASSUME a = "FULL_PK" PROVE x = fail_state(r)
        BY <2>1, <3>2, <4>4 DEF process_hello_auth
      <4> QED BY <3>2, <4>1, <4>2, <4>3, <4>4
    <3> QED BY <3>1, <3>2
  <2> HIDE DEF x, matches
  <2>3. CASE ~matches
    BY <1>1, <1>f, <2>2, <2>3 DEF Outcome, x, matches
  <2>4. CASE matches /\ a = "FULL_PK"
    BY <1>1, <1>f, <2>2, <2>4 DEF Outcome, x
  <2>5. CASE matches /\ a \in {"SERVER_HBLOCK", "EPHEMERAL_PK"}
    <3>1. p = "srv" /\ a # "FULL_PK"
      BY <1>a, <2>5 DEF AuthOf, Side
    <3>2. /\ IsCall(x)
          /\ \/ m.mode = "EPHEMPK" /\ EphemAnswer(r.s, m, x)
             \/ m.mode # "EPHEMPK" /\ ~cf.known["srv"] /\ Refused(r.s, x)
             \/ m.mode # "EPHEMPK" /\ RealAnswer(r.s, m, x)
      BY <2>2, <2>5, server_helloIs
    <3> QED BY <1>1, <3>1, <3>2 DEF Outcome, x
  <2>6. CASE matches /\ a = "POLITE_HELLO_SENT"
    <3>1. p = "cl"
      BY <1>a, <2>6 DEF AuthOf, Side
    <3>2. IsCall(x) /\ PoliteAnswer(r.s, m, x)
      BY <2>2, <2>6, polite_replyIs
    <3> QED BY <1>1, <2>6, <3>1, <3>2 DEF Outcome, x
  <2>7. CASE matches /\ a = "REAL_HELLO_SENT"
    <3>1. p = "cl"
      BY <1>a, <2>7 DEF AuthOf, Side
    <3>2. IsCall(x) /\ (ClientDone(r.s, m, x) \/ (~cf.known["cl"] /\ Refused(r.s, x)))
      BY <2>2, <2>7, client_helloIs
    <3> QED BY <1>1, <2>7, <3>1, <3>2 DEF Outcome, x
  <2>8. a \in {"SERVER_HBLOCK", "EPHEMERAL_PK", "POLITE_HELLO_SENT", "REAL_HELLO_SENT", "FULL_PK"}
    BY <1>a DEF AuthOf
  <2> QED BY <2>3, <2>4, <2>5, <2>6, <2>7, <2>8 DEF x
<1>2. CASE m.t = "rekey" /\ a = "FULL_PK"
  <2>1. x = command_rekey(r, m)
    BY <1>2 DEF process_control
  <2>2. /\ IsCall(x)
        /\ (~r.s.own_rekey /\ Rekeyed(r.s, m, x)) \/ (r.s.own_rekey /\ Refused(r.s, x))
    BY <2>1, command_rekeyIs
  <2> HIDE DEF x
  <2> QED BY <1>2, <2>2 DEF Outcome, x
<1>3. CASE m.t # "hello" /\ ~(m.t = "rekey" /\ a = "FULL_PK")
  <2>1. x = fail_state(r)
    BY <1>3 DEF process_control
  <2> QED BY <1>f, <1>3, <2>1 DEF Outcome
<1> QED BY <1>1, <1>2, <1>3

-----------------------------------------------------------------------------
(* what was sent and what has arrived *)

\* e has the numbers of the packets that carry the events sent, h is the
\* number of the packet with the sender's own key; cur is the next number.
Marks(e, h, cur) ==
  /\ \A i, j \in 1 .. Len(e) : i < j => e[i] < e[j]
  /\ \A i \in 1 .. Len(e) : h < e[i] /\ e[i] < cur

\* The receiver is at number ins and has given the events g to its caller.
Arrived(e, cur, ins, g) ==
  /\ ins <= cur /\ Len(g) <= Len(e)
  /\ \A i \in 1 .. Len(g) : g[i] = i
  /\ \A i \in 1 .. Len(e) : (i <= Len(g) => e[i] < ins) /\ (i > Len(g) => ins <= e[i])

\* A packet on the way is one that was sent; b: the handshake has an
\* ephemeral round.
PacketOf(b, e, h, cur, k) ==
  /\ k.seq < cur
  /\ k.msg.t = "event" => k.msg.val \in 1 .. Len(e) /\ k.seq = e[k.msg.val]
  /\ k.msg.t # "event" => \A j \in 1 .. Len(e) : e[j] # k.seq
  /\ k.seq = h => k.msg.t = "hello" /\ k.msg.mode = "REALPK"
  /\ b /\ k.seq = 0 => k.msg.t = "hello" /\ k.msg.mode = "EPHEMPK"

LEMMA Place == ASSUME NEW n \in Nat, NEW i \in Nat, NEW y \in Nat, NEW ins \in Nat,
                      (i <= n /\ y < ins) \/ (i = n + 1 /\ y = ins) \/ (n + 1 < i /\ ins < y)
               PROVE  (i <= n + 1 => y < ins + 1) /\ (i > n + 1 => ins + 1 <= y)
  OBVIOUS

\* The event that is next in number is next in order.
LEMMA EventArrives ==
  ASSUME NEW b, NEW e \in Seq(Nat), NEW h \in Nat, NEW cur \in Nat, NEW ins \in Nat, NEW g \in Seq(Nat),
         NEW k \in Packet, Marks(e, h, cur), Arrived(e, cur, ins, g), PacketOf(b, e, h, cur, k),
         k.seq = ins, k.msg.t = "event"
  PROVE  /\ Arrived(e, cur, ins + 1, Append(g, k.msg.val)) /\ k.msg.val = Len(g) + 1 /\ h < ins
         /\ Append(g, k.msg.val) \in Seq(Nat)
<1> DEFINE v == k.msg.val
<1>1. v \in 1 .. Len(e) /\ ins = e[v] /\ ins < cur
  BY DEF PacketOf
<1>2. v = Len(g) + 1
  <2>1. ~(v <= Len(g))
    BY <1>1 DEF Arrived
  <2>2. ASSUME v > Len(g) + 1 PROVE FALSE
    <3>1. Len(g) + 1 \in 1 .. Len(e) /\ Len(g) + 1 < v
      BY <1>1, <2>2
    <3>2. e[Len(g) + 1] < e[v]
      BY <1>1, <3>1 DEF Marks
    <3>3. ins <= e[Len(g) + 1]
      BY <3>1 DEF Arrived
    <3>4. e[Len(g) + 1] \in Nat
      BY <3>1
    <3> QED BY <1>1, <3>2, <3>3, <3>4
  <2> QED BY <1>1, <2>1, <2>2
<1>3. h < ins
  BY <1>1 DEF Marks
<1> HIDE DEF v
<1> DEFINE a == Append(g, v)
<1>4. a \in Seq(Nat) /\ Len(a) = Len(g) + 1 /\ a[Len(g) + 1] = v /\ \A i \in 1 .. Len(g) : a[i] = g[i]
  BY <1>1, <1>2
<1> HIDE DEF a
<1>5. ASSUME NEW i \in 1 .. Len(a) PROVE a[i] = i
  <2>1. \A j \in 1 .. Len(g) : g[j] = j
    BY DEF Arrived
  <2>2. CASE i \in 1 .. Len(g)
    BY <1>4, <2>1, <2>2
  <2>3. CASE i = Len(g) + 1
    BY <1>2, <1>4, <2>3
  <2> QED BY <1>4, <2>2, <2>3
<1>6. ASSUME NEW i \in 1 .. Len(e)
      PROVE  (i <= Len(a) => e[i] < ins + 1) /\ (i > Len(a) => ins + 1 <= e[i])
  <2>1. PICK n, y \in Nat : n = Len(g) /\ y = e[i]
    OBVIOUS
  <2>2. Len(a) = n + 1 /\ v = n + 1 /\ i \in Nat
    BY <1>2, <1>4, <2>1, SMTT(30), SMTT(31)
  <2>3. (i <= n /\ y < ins) \/ (i = n + 1 /\ y = ins) \/ (n + 1 < i /\ ins < y)
    <3>1. i <= n \/ i = n + 1 \/ n + 1 < i
      BY <2>2
    <3>2. i <= n => y < ins
      BY <2>1 DEF Arrived
    <3>3. i = n + 1 => y = ins
      BY <1>1, <2>1, <2>2
    <3>4. n + 1 < i => ins < y
      BY <1>1, <2>1, <2>2 DEF Marks
    <3> QED BY <3>1, <3>2, <3>3, <3>4
  <2>4. (i <= n + 1 => y < ins + 1) /\ (i > n + 1 => ins + 1 <= y)
    BY <2>2, <2>3, Place
  <2> QED BY <2>1, <2>2, <2>4
<1>7. ins + 1 <= cur /\ Len(a) <= Len(e)
  BY <1>1, <1>2, <1>4
<1>8. Arrived(e, cur, ins + 1, a)
  BY <1>5, <1>6, <1>7 DEF Arrived
<1> QED BY <1>2, <1>3, <1>4, <1>8 DEF a, v

LEMMA OtherArrives ==
  ASSUME NEW b, NEW e \in Seq(Nat), NEW h \in Nat, NEW cur \in Nat, NEW ins \in Nat, NEW g \in Seq(Nat),
         NEW k \in Packet, Arrived(e, cur, ins, g), PacketOf(b, e, h, cur, k),
         k.seq = ins, k.msg.t # "event"
  PROVE  Arrived(e, cur, ins + 1, g)
<1>1. ins < cur /\ \A j \in 1 .. Len(e) : e[j] # ins
  BY DEF PacketOf
<1>2. \A j \in 1 .. Len(e) : e[j] \in Nat
  OBVIOUS
<1>3. ASSUME NEW i \in 1 .. Len(e)
      PROVE  (i <= Len(g) => e[i] < ins + 1) /\ (i > Len(g) => ins + 1 <= e[i])
  BY <1>1, <1>2 DEF Arrived
<1> QED BY <1>1, <1>3 DEF Arrived

\* All of that about one direction
Told(e, h, cur, ins, g) ==
  /\ e \in Seq(Nat) /\ h \in Nat /\ cur \in Nat /\ ins \in Nat /\ g \in Seq(Nat)
  /\ Marks(e, h, cur) /\ Arrived(e, cur, ins, g)

\* More packets are written, none of them an event.
LEMMA MoreSent ==
  ASSUME NEW b, NEW e, NEW h, NEW cur, NEW ins, NEW g, Told(e, h, cur, ins, g), NEW n \in Nat, cur <= n
  PROVE  /\ Told(e, h, n, ins, g)
         /\ \A k \in Packet : PacketOf(b, e, h, cur, k) => PacketOf(b, e, h, n, k)
<1>0. /\ e \in Seq(Nat) /\ h \in Nat /\ cur \in Nat /\ ins \in Nat /\ g \in Seq(Nat)
      /\ Marks(e, h, cur) /\ Arrived(e, cur, ins, g)
  BY DEF Told
<1>1. \A j \in 1 .. Len(e) : e[j] \in Nat
  BY <1>0
<1>2. Marks(e, h, n)
  BY <1>0, <1>1 DEF Marks
<1>3. Arrived(e, n, ins, g)
  BY <1>0 DEF Arrived
<1>4. ASSUME NEW k \in Packet, PacketOf(b, e, h, cur, k) PROVE PacketOf(b, e, h, n, k)
  <2>1. k.seq \in Nat /\ k.seq < cur
    BY <1>4 DEF PacketOf, Packet
  <2>2. k.seq < n
    BY <1>0, <2>1
  <2> QED BY <1>4, <2>2 DEF PacketOf
<1> QED BY <1>0, <1>2, <1>3, <1>4 DEF Told

\* An event is written at number cur.
LEMMA EventSent ==
  ASSUME NEW b, NEW e, NEW h, NEW cur, NEW ins, NEW g, Told(e, h, cur, ins, g), h < cur
  PROVE  LET f == Append(e, cur)
         IN  /\ Len(f) = Len(e) + 1 /\ f[Len(e) + 1] = cur /\ Told(f, h, cur + 1, ins, g)
             /\ \A k \in Packet : PacketOf(b, e, h, cur, k) => PacketOf(b, f, h, cur + 1, k)
<1> DEFINE f == Append(e, cur)
<1>0. /\ e \in Seq(Nat) /\ h \in Nat /\ cur \in Nat /\ ins \in Nat /\ g \in Seq(Nat)
      /\ Marks(e, h, cur) /\ Arrived(e, cur, ins, g)
  BY DEF Told
<1>1. f \in Seq(Nat) /\ Len(f) = Len(e) + 1 /\ f[Len(e) + 1] = cur /\ \A i \in 1 .. Len(e) : f[i] = e[i]
  BY <1>0
<1>2. \A j \in 1 .. Len(e) : e[j] \in Nat
  BY <1>0
<1> HIDE DEF f
<1>s. ASSUME NEW i \in 1 .. Len(f)
      PROVE  (i \in 1 .. Len(e) /\ f[i] = e[i] /\ e[i] \in Nat) \/ (i = Len(e) + 1 /\ f[i] = cur)
  BY <1>1, <1>2
<1>l. Len(e) \in Nat /\ Len(g) \in Nat
  BY <1>0
<1>3. Marks(f, h, cur + 1)
  <2>1. ASSUME NEW i \in 1 .. Len(f), NEW j \in 1 .. Len(f), i < j PROVE f[i] < f[j]
    <3>i. (i \in 1 .. Len(e) /\ f[i] = e[i] /\ e[i] \in Nat) \/ (i = Len(e) + 1 /\ f[i] = cur)
      BY <1>s
    <3>j. (j \in 1 .. Len(e) /\ f[j] = e[j] /\ e[j] \in Nat) \/ (j = Len(e) + 1 /\ f[j] = cur)
      BY <1>s
    <3>1. CASE j = Len(e) + 1 /\ f[j] = cur
      <4>1. i \in 1 .. Len(e) /\ f[i] = e[i]
        BY <1>l, <2>1, <3>i, <3>1
      <4>2. e[i] < cur
        BY <1>0, <4>1 DEF Marks
      <4> QED BY <1>0, <3>1, <4>1, <4>2
    <3>2. CASE j \in 1 .. Len(e) /\ f[j] = e[j]
      <4>1. i \in 1 .. Len(e) /\ f[i] = e[i]
        BY <1>l, <2>1, <3>i, <3>2
      <4>2. e[i] < e[j]
        BY <1>0, <2>1, <3>2, <4>1 DEF Marks
      <4> QED BY <1>0, <3>2, <4>1, <4>2
    <3> QED BY <3>j, <3>1, <3>2
  <2>2. ASSUME NEW i \in 1 .. Len(f) PROVE h < f[i] /\ f[i] < cur + 1
    <3>1. CASE i \in 1 .. Len(e) /\ f[i] = e[i] /\ e[i] \in Nat
      <4>1. h < e[i] /\ e[i] < cur
        BY <1>0, <3>1 DEF Marks
      <4> QED BY <1>0, <3>1, <4>1
    <3>2. CASE f[i] = cur
      BY <1>0, <3>2
    <3> QED BY <1>s, <3>1, <3>2
  <2> QED BY <2>1, <2>2 DEF Marks
<1>4. Arrived(f, cur + 1, ins, g)
  <2>1. ASSUME NEW i \in 1 .. Len(f)
        PROVE  (i <= Len(g) => f[i] < ins) /\ (i > Len(g) => ins <= f[i])
    <3>1. CASE i \in 1 .. Len(e) /\ f[i] = e[i]
      BY <1>0, <3>1 DEF Arrived
    <3>2. CASE i = Len(e) + 1 /\ f[i] = cur
      <4>1. i > Len(g) /\ ins <= cur
        BY <1>0, <1>l, <3>2 DEF Arrived
      <4> QED BY <1>0, <1>l, <3>2, <4>1
    <3> QED BY <1>s, <3>1, <3>2
  <2> QED BY <1>0, <1>1, <2>1 DEF Arrived
<1>5. ASSUME NEW k \in Packet, PacketOf(b, e, h, cur, k) PROVE PacketOf(b, f, h, cur + 1, k)
  <2>1. k.seq \in Nat /\ k.seq < cur
    BY <1>5 DEF PacketOf, Packet
  <2>2. k.seq < cur + 1
    BY <1>0, <2>1
  <2>3. k.msg.t = "event" => k.msg.val \in 1 .. Len(f) /\ k.seq = f[k.msg.val]
    <3>1. k.msg.t = "event" => k.msg.val \in 1 .. Len(e) /\ k.seq = e[k.msg.val]
      BY <1>5 DEF PacketOf
    <3>2. 1 .. Len(e) \subseteq 1 .. Len(f)
      BY <1>1, <1>l
    <3> QED BY <1>1, <3>1, <3>2
  <2>4. k.msg.t # "event" => \A j \in 1 .. Len(f) : f[j] # k.seq
    <3>1. ASSUME k.msg.t # "event", NEW j \in 1 .. Len(f) PROVE f[j] # k.seq
      <4>1. CASE j \in 1 .. Len(e) /\ f[j] = e[j]
        BY <1>5, <3>1, <4>1 DEF PacketOf
      <4>2. CASE f[j] = cur
        BY <1>0, <2>1, <4>2
      <4> QED BY <1>s, <4>1, <4>2
    <3> QED BY <3>1
  <2> QED BY <1>5, <2>2, <2>3, <2>4 DEF PacketOf
<1>6. cur + 1 \in Nat
  BY <1>0
<1>7. Told(f, h, cur + 1, ins, g)
  BY <1>0, <1>1, <1>3, <1>4, <1>6 DEF Told
<1> QED BY <1>1, <1>5, <1>7 DEF f

-----------------------------------------------------------------------------
(* the steps *)

Types ==
  /\ cf \in Configs /\ S \in [Side -> Endpoint] /\ net \in [Side -> Seq(Packet)]
  /\ take \in [Side -> Nat] /\ held \in [Side -> Nat] /\ phase \in [Side -> {"auth", "serve"}]
  /\ sent \in [Side -> Nat] /\ got \in [Side -> Seq(Nat)] /\ faults \in Nat

LEMMA Peers == /\ "cl" \in Side /\ "srv" \in Side /\ Peer("cl") = "srv" /\ Peer("srv") = "cl"
               /\ \A p \in Side : /\ Peer(p) \in Side /\ Peer(p) # p /\ Peer(Peer(p)) = p
                                  /\ \A q \in Side : q = p \/ q = Peer(p)
  BY DEF Side, Peer

\* The first packet a server reads gives it the nonce.
First(s, k, t) ==
  /\ t \in Endpoint /\ t.state = "NOPACKET" /\ t.authentic = "SERVER_HBLOCK"
  /\ t.enc = Key(s.enc.sec, k.key.nonce) /\ t.dec = Key(s.dec.sec, k.key.nonce)
  /\ t.auth_latched = s.auth_latched /\ t.current_seqnr = s.current_seqnr /\ t.in_seqnr = s.in_seqnr
  /\ t.real_priv = s.real_priv /\ t.ephem_priv = s.ephem_priv /\ t.key_session = s.key_session
  /\ t.remote_pub = s.remote_pub /\ t.own_rekey = s.own_rekey /\ t.rekey_count = s.rekey_count
  /\ t.fresh = s.fresh

LEMMA srvfirstIs ==
  ASSUME NEW s \in Endpoint, NEW k \in Packet
  PROVE  /\ s.state # "1STSRV" => srvfirst(s, k) = s
         /\ s.state = "1STSRV" => First(s, k, srvfirst(s, k))
<1>1. CASE s.state # "1STSRV"
  BY <1>1 DEF srvfirst
<1>2. CASE s.state = "1STSRV"
  <2> DEFINE t == srvfirst(s, k)
  <2>1. t = [s EXCEPT !.state = "NOPACKET", !.authentic = "SERVER_HBLOCK",
                      !.enc.nonce = k.key.nonce, !.dec.nonce = k.key.nonce]
    BY <1>2 DEF srvfirst
  <2>2. s.enc \in Keys /\ s.dec \in Keys /\ k.key.nonce \in Nat
    <3>1. k.key \in Keys
      BY DEF Packet
    <3> QED BY <3>1, FieldTypes DEF Keys
  <2>3. /\ [s.enc EXCEPT !.nonce = k.key.nonce] = Key(s.enc.sec, k.key.nonce)
        /\ [s.dec EXCEPT !.nonce = k.key.nonce] = Key(s.dec.sec, k.key.nonce)
        /\ Key(s.enc.sec, k.key.nonce) \in Keys /\ Key(s.dec.sec, k.key.nonce) \in Keys
    BY <2>2, SMTT(30), SMTT(31) DEF Keys, Key
  <2> HIDE DEF t
  <2> DEFINE a == Key(s.enc.sec, k.key.nonce)
             b == Key(s.dec.sec, k.key.nonce)
             c == [s.enc EXCEPT !.nonce = k.key.nonce]
             d == [s.dec EXCEPT !.nonce = k.key.nonce]
  <2>4. t = [[[[s EXCEPT !.state = "NOPACKET"] EXCEPT !.authentic = "SERVER_HBLOCK"] EXCEPT !.enc = a] EXCEPT !.dec = b]
    <3>1. t = [s EXCEPT !.state = "NOPACKET", !.authentic = "SERVER_HBLOCK", !.enc = c, !.dec = d]
      BY <2>1 DEF Endpoint
    <3>2. c = a /\ d = b
      BY <2>3
    <3> HIDE DEF a, b, c, d
    <3> QED BY <3>1, <3>2
  <2> HIDE DEF a, b
  <2>5. t \in Endpoint
    <3>1. "NOPACKET" \in States /\ "SERVER_HBLOCK" \in Auths
      BY DEF States, Auths
    <3>2. [s EXCEPT !.state = "NOPACKET"] \in Endpoint
      BY <3>1, FieldSets
    <3>3. [[s EXCEPT !.state = "NOPACKET"] EXCEPT !.authentic = "SERVER_HBLOCK"] \in Endpoint
      BY <3>1, <3>2, FieldSets
    <3>4. [[[s EXCEPT !.state = "NOPACKET"] EXCEPT !.authentic = "SERVER_HBLOCK"] EXCEPT !.enc = a] \in Endpoint
      BY <2>3, <3>3, FieldSets DEF a
    <3>5. [[[[s EXCEPT !.state = "NOPACKET"] EXCEPT !.authentic = "SERVER_HBLOCK"] EXCEPT !.enc = a] EXCEPT !.dec = b] \in Endpoint
      BY <2>3, <3>4, FieldSets DEF b
    <3> QED BY <2>4, <3>5
  <2>6. /\ t.state = "NOPACKET" /\ t.authentic = "SERVER_HBLOCK" /\ t.enc = a /\ t.dec = b
        /\ t.auth_latched = s.auth_latched /\ t.current_seqnr = s.current_seqnr /\ t.in_seqnr = s.in_seqnr
        /\ t.real_priv = s.real_priv /\ t.ephem_priv = s.ephem_priv /\ t.key_session = s.key_session
        /\ t.remote_pub = s.remote_pub /\ t.own_rekey = s.own_rekey /\ t.rekey_count = s.rekey_count
        /\ t.fresh = s.fresh
    BY <2>4 DEF Endpoint
  <2> QED BY <1>2, <2>5, <2>6 DEF First, a, b, t
<1> QED BY <1>1, <1>2

\* Everything but the latch is as the call left it.
Unlatched(s, t) ==
  /\ t \in Endpoint /\ t.auth_latched = FALSE
  /\ t.state = s.state /\ t.authentic = s.authentic /\ t.enc = s.enc /\ t.dec = s.dec
  /\ t.current_seqnr = s.current_seqnr /\ t.in_seqnr = s.in_seqnr /\ t.real_priv = s.real_priv
  /\ t.ephem_priv = s.ephem_priv /\ t.key_session = s.key_session /\ t.remote_pub = s.remote_pub
  /\ t.own_rekey = s.own_rekey /\ t.rekey_count = s.rekey_count /\ t.fresh = s.fresh

\* A step of side p left call x behind, its first packet consumed.
Finished(p, x) ==
  /\ S' \in [Side -> Endpoint] /\ S'[Peer(p)] = S[Peer(p)] /\ Unlatched(x.s, S'[p])
  /\ net' \in [Side -> Seq(Packet)] /\ net'[p] = Tail(net[p]) /\ net'[Peer(p)] = net[Peer(p)] \o x.out
  /\ take' \in [Side -> Nat] /\ take'[Peer(p)] = take[Peer(p)]
  /\ held' \in [Side -> Nat] /\ held'[Peer(p)] = held[Peer(p)]
  /\ take'[p] > 0 => x.s.auth_latched = FALSE /\ x.s.state # "BROKEN"
  /\ take'[p] > 0 => held'[p] = held[p]
  /\ take'[p] + held'[p] <= take[p] + held[p] - 1 \/ (take'[p] = 0 /\ held'[p] <= take[p] - 1)

LEMMA FinishIs ==
  ASSUME Types, NEW p \in Side, NEW x, IsCall(x), take[p] > 0, Len(net[p]) > 0, Finish(p, x)
  PROVE  Finished(p, x)
<1> DEFINE q == Peer(p)
           latch == x.s.auth_latched /\ take[p] > 1
           tk == IF latch \/ x.s.state = "BROKEN" THEN 0 ELSE take[p] - 1
           hd == IF latch THEN take[p] - 1 ELSE held[p]
<1>0. q \in Side /\ q # p
  BY Peers
<1>1. x.s \in Endpoint /\ x.out \in Seq(Packet) /\ x.s.auth_latched \in BOOLEAN
  BY FieldTypes DEF IsCall
<1>2. /\ S' = [S EXCEPT ![p] = [x.s EXCEPT !.auth_latched = FALSE]]
      /\ net' = [net EXCEPT ![p] = Tail(@), ![q] = @ \o x.out]
      /\ take' = [take EXCEPT ![p] = tk] /\ held' = [held EXCEPT ![p] = hd]
  BY DEF Finish
<1> HIDE DEF q, tk, hd
<1>3. S' \in [Side -> Endpoint] /\ S'[q] = S[q] /\ S'[p] = [x.s EXCEPT !.auth_latched = FALSE]
  <2>1. [x.s EXCEPT !.auth_latched = FALSE] \in Endpoint
    BY <1>1, FieldSets
  <2>2. S \in [Side -> Endpoint]
    BY DEF Types
  <2> DEFINE t == [x.s EXCEPT !.auth_latched = FALSE]
  <2> HIDE DEF t
  <2>3. S' = [S EXCEPT ![p] = t] /\ t \in Endpoint
    BY <1>2, <2>1 DEF t
  <2>4. S' \in [Side -> Endpoint] /\ S'[q] = S[q] /\ S'[p] = t
    BY <1>0, <2>2, <2>3
  <2> QED BY <2>4 DEF t
<1>4. Unlatched(x.s, S'[p])
  <2>1. [x.s EXCEPT !.auth_latched = FALSE] \in Endpoint
    BY <1>1, FieldSets
  <2> QED BY <1>1, <1>3, <2>1 DEF Unlatched, Endpoint
<1>5. net' \in [Side -> Seq(Packet)] /\ net'[p] = Tail(net[p]) /\ net'[q] = net[q] \o x.out
  <2>1. net \in [Side -> Seq(Packet)]
    BY DEF Types
  <2>2. net[p] \in Seq(Packet) /\ net[q] \in Seq(Packet) /\ net[p] # <<>>
    BY <1>0, <2>1
  <2>3. Tail(net[p]) \in Seq(Packet) /\ net[q] \o x.out \in Seq(Packet)
    BY <1>1, <2>2
  <2> DEFINE a == Tail(net[p])
             b == net[q] \o x.out
  <2>4. net' = [net EXCEPT ![p] = a, ![q] = b]
    BY <1>0, <1>2, <2>1
  <2> HIDE DEF a, b
  <2>5. a \in Seq(Packet) /\ b \in Seq(Packet)
    BY <2>3 DEF a, b
  <2>6. net' \in [Side -> Seq(Packet)] /\ net'[p] = a /\ net'[q] = b
    BY <1>0, <2>1, <2>4, <2>5
  <2> QED BY <2>6 DEF a, b
<1>6. take \in [Side -> Nat] /\ held \in [Side -> Nat] /\ take[p] \in Nat /\ held[p] \in Nat
  BY DEF Types
<1>7. CASE latch
  <2>1. take' = [take EXCEPT ![p] = 0] /\ held' = [held EXCEPT ![p] = take[p] - 1]
    <3>1. tk = 0 /\ hd = take[p] - 1
      BY <1>7 DEF tk, hd
    <3> QED BY <1>2, <3>1
  <2>2. /\ take' \in [Side -> Nat] /\ take'[q] = take[q] /\ held' \in [Side -> Nat] /\ held'[q] = held[q]
        /\ take'[p] = 0 /\ held'[p] <= take[p] - 1
    BY <1>0, <1>6, <2>1
  <2>3. ~(take'[p] > 0)
    BY <2>2
  <2> QED BY <1>3, <1>4, <1>5, <2>2, <2>3 DEF Finished, q
<1>8. CASE ~latch /\ x.s.state = "BROKEN"
  <2>1. take' = [take EXCEPT ![p] = 0] /\ held' = held
    <3>1. tk = 0 /\ hd = held[p]
      BY <1>8 DEF tk, hd
    <3> QED BY <1>2, <1>6, <3>1
  <2>2. /\ take' \in [Side -> Nat] /\ take'[q] = take[q] /\ held' \in [Side -> Nat] /\ held'[q] = held[q]
        /\ take'[p] = 0 /\ take'[p] + held'[p] <= take[p] + held[p] - 1
    BY <1>0, <1>6, <2>1
  <2>3. ~(take'[p] > 0)
    BY <2>2
  <2> QED BY <1>3, <1>4, <1>5, <2>2, <2>3 DEF Finished, q
<1>9. CASE ~latch /\ x.s.state # "BROKEN"
  <2>1. take' = [take EXCEPT ![p] = take[p] - 1] /\ held' = held
    <3>1. tk = take[p] - 1 /\ hd = held[p]
      BY <1>9 DEF tk, hd
    <3> QED BY <1>2, <1>6, <3>1
  <2>2. /\ take' \in [Side -> Nat] /\ take'[q] = take[q] /\ held' \in [Side -> Nat] /\ held'[q] = held[q]
        /\ held'[p] = held[p] /\ take'[p] + held'[p] <= take[p] + held[p] - 1
        /\ take'[p] > 0 => take[p] > 1
    BY <1>0, <1>6, <2>1
  <2>3. take'[p] > 0 => x.s.auth_latched = FALSE
    BY <1>1, <1>9, <2>2
  <2> QED BY <1>3, <1>4, <1>5, <1>9, <2>2, <2>3 DEF Finished, q
<1> QED BY <1>7, <1>8, <1>9

\* The state in which the handler of packet k is called.
Ready(s, k, c) ==
  /\ c \in Endpoint /\ c.in_seqnr = s.in_seqnr + 1
  /\ c.auth_latched = s.auth_latched /\ c.current_seqnr = s.current_seqnr
  /\ c.real_priv = s.real_priv /\ c.ephem_priv = s.ephem_priv /\ c.key_session = s.key_session
  /\ c.remote_pub = s.remote_pub /\ c.own_rekey = s.own_rekey /\ c.rekey_count = s.rekey_count
  /\ c.fresh = s.fresh
  /\ s.state = "1STSRV" => /\ c.state = "NOPACKET" /\ c.authentic = "SERVER_HBLOCK"
                           /\ c.enc = Key(s.enc.sec, k.key.nonce) /\ c.dec = Key(s.dec.sec, k.key.nonce)
  /\ s.state # "1STSRV" => /\ c.state = s.state /\ c.authentic = s.authentic
                           /\ c.enc = s.enc /\ c.dec = s.dec

\* A packet is authentic for a receiver in state s.
Opens(s, k) ==
  /\ k.key = IF s.state = "1STSRV" THEN Key(s.dec.sec, k.key.nonce) ELSE s.dec
  /\ k.seq = s.in_seqnr

LEMMA OpensIs == ASSUME NEW s \in Endpoint, NEW k \in Packet
                 PROVE  authdec_buffer(srvfirst(s, k), k) <=> Opens(s, k)
<1>1. CASE s.state # "1STSRV"
  BY <1>1, srvfirstIs DEF authdec_buffer, Opens
<1>2. CASE s.state = "1STSRV"
  <2>1. srvfirst(s, k).dec = Key(s.dec.sec, k.key.nonce) /\ srvfirst(s, k).in_seqnr = s.in_seqnr
    <3>1. First(s, k, srvfirst(s, k))
      BY <1>2, srvfirstIs
    <3> QED BY <3>1 DEF First
  <2> QED BY <1>2, <2>1 DEF authdec_buffer, Opens
<1> QED BY <1>1, <1>2

\* Side p takes the next packet of a buffer: an event, or a control packet.
Takes(p, k, c, x) ==
  /\ take[p] > 0 /\ S[p].state \notin {"BROKEN", "DESYNC"} /\ Len(net[p]) > 0 /\ k = net[p][1]
  /\ Opens(S[p], k) /\ Ready(S[p], k, c) /\ Finished(p, x)
  /\ IF k.msg.t = "event" THEN x = Call(c) ELSE x = process_control(p, Call(c), k.msg)
  /\ got' = [got EXCEPT ![p] = IF k.msg.t = "event" THEN Append(@, k.msg.val) ELSE @]
  /\ UNCHANGED <<cf, phase, sent, faults>>

LEMMA CallIs == ASSUME NEW c \in Endpoint PROVE IsCall(Call(c)) /\ Call(c).s = c /\ Call(c).out = <<>>
  BY DEF IsCall, Call

LEMMA Unpack_StepIs ==
  ASSUME Types, NEW p \in Side, take[p] + held[p] <= Len(net[p]), Unpack_Step(p),
         S[p].state # "1STSRV" => S[p].authentic \in AuthOf(p), S[p].state = "1STSRV" => p = "srv"
  PROVE  \E k \in Packet, c \in Endpoint : \E x : IsCall(x) /\ Takes(p, k, c, x)
<1> DEFINE k == Head(net[p])
           s == srvfirst(S[p], k)
           c == [s EXCEPT !.in_seqnr = @ + 1]
           r == Call(c)
           x == IF k.msg.t = "event" THEN r ELSE process_control(p, r, k.msg)
<1>1. /\ take[p] # 0 /\ S[p].state # "BROKEN" /\ S[p].state # "DESYNC"
      /\ authdec_buffer(s, k)
      /\ IF k.msg.t = "event" THEN Finish(p, r) ELSE Finish(p, process_control(p, r, k.msg))
      /\ got' = [got EXCEPT ![p] = IF k.msg.t = "event" THEN Append(@, k.msg.val) ELSE @]
      /\ UNCHANGED <<cf, phase, sent, faults>>
  BY DEF Unpack_Step, Idle, Broken
<1>2. /\ S[p] \in Endpoint /\ take[p] \in Nat /\ held[p] \in Nat /\ net[p] \in Seq(Packet)
      /\ cf \in Configs
  BY DEF Types
<1>3. take[p] > 0 /\ Len(net[p]) > 0
  BY <1>1, <1>2
<1>4. k \in Packet /\ k = net[p][1]
  BY <1>2, <1>3
<1> HIDE DEF k
<1>5. /\ S[p].state # "1STSRV" => s = S[p]
      /\ S[p].state = "1STSRV" => First(S[p], k, s)
  BY <1>2, <1>4, srvfirstIs
<1>6. Opens(S[p], k)
  BY <1>1, <1>2, <1>4, OpensIs
<1> HIDE DEF s
<1>7. s \in Endpoint /\ s.in_seqnr \in Nat
  BY <1>2, <1>5, FieldTypes DEF First
<1>8. c \in Endpoint
  <2>1. s.in_seqnr + 1 \in Nat
    BY <1>7
  <2> QED BY <1>7, <2>1, FieldSets
<1>9. /\ c.in_seqnr = s.in_seqnr + 1 /\ c.state = s.state /\ c.authentic = s.authentic
      /\ c.enc = s.enc /\ c.dec = s.dec /\ c.auth_latched = s.auth_latched
      /\ c.current_seqnr = s.current_seqnr /\ c.real_priv = s.real_priv
      /\ c.ephem_priv = s.ephem_priv /\ c.key_session = s.key_session
      /\ c.remote_pub = s.remote_pub /\ c.own_rekey = s.own_rekey
      /\ c.rekey_count = s.rekey_count /\ c.fresh = s.fresh
  BY <1>7 DEF Endpoint
<1> HIDE DEF c
<1>10. Ready(S[p], k, c)
  <2>1. CASE S[p].state # "1STSRV"
    BY <1>5, <1>8, <1>9, <2>1 DEF Ready
  <2>2. CASE S[p].state = "1STSRV"
    BY <1>5, <1>8, <1>9, <2>2 DEF Ready, First
  <2> QED BY <2>1, <2>2
<1>11. IsCall(r) /\ r.s = c /\ r.out = <<>>
  BY <1>8, CallIs
<1>12. c.state # "BROKEN" /\ c.authentic \in AuthOf(p)
  <2>1. CASE S[p].state # "1STSRV"
    BY <1>1, <1>10, <2>1 DEF Ready
  <2>2. CASE S[p].state = "1STSRV"
    <3>1. c.state = "NOPACKET" /\ c.authentic = "SERVER_HBLOCK" /\ p = "srv"
      BY <1>10, <2>2 DEF Ready
    <3> QED BY <3>1 DEF AuthOf
  <2> QED BY <2>1, <2>2
<1>13. k.msg \in Message
  BY <1>4 DEF Packet
<1> HIDE DEF r
<1>14. IsCall(x) /\ Finish(p, x)
  <2>1. CASE k.msg.t = "event"
    BY <1>1, <1>11, <2>1
  <2>2. CASE k.msg.t # "event"
    <3>1. IsCall(process_control(p, r, k.msg))
      BY <1>2, <1>11, <1>12, <1>13, process_controlIs
    <3> QED BY <1>1, <2>2, <3>1
  <2> QED BY <2>1, <2>2
<1>15. IF k.msg.t = "event" THEN x = Call(c) ELSE x = process_control(p, Call(c), k.msg)
  BY DEF r
<1> HIDE DEF x
<1>16. Finished(p, x)
  BY <1>3, <1>14, FinishIs
<1>17. S[p].state \notin {"BROKEN", "DESYNC"}
  BY <1>1
<1>18. Takes(p, k, c, x)
  BY <1>1, <1>3, <1>4, <1>6, <1>10, <1>15, <1>16, <1>17 DEF Takes
<1> QED BY <1>4, <1>8, <1>14, <1>18

\* Side p meets a packet that does not decrypt.
Garbled(p, k, x) ==
  /\ take[p] > 0 /\ S[p].state # "BROKEN" /\ Len(net[p]) > 0 /\ k = net[p][1]
  /\ S[p].state = "DESYNC" \/ ~Opens(S[p], k)
  /\ Len(x.out) = 0 /\ x.s.state \in {"BROKEN", "DESYNC"} /\ x.s.auth_latched = S[p].auth_latched
  /\ x.s.in_seqnr = S[p].in_seqnr /\ x.s.current_seqnr = S[p].current_seqnr
  /\ x.s.authentic = IF S[p].state = "1STSRV" THEN "SERVER_HBLOCK" ELSE S[p].authentic
  /\ Finished(p, x)
  /\ UNCHANGED <<cf, phase, sent, got, faults>>

LEMMA Unpack_MismatchIs ==
  ASSUME Types, NEW p \in Side, take[p] + held[p] <= Len(net[p]), Unpack_Mismatch(p)
  PROVE  \E k \in Packet : \E x : IsCall(x) /\ Garbled(p, k, x)
<1> DEFINE k == Head(net[p])
           s == srvfirst(S[p], k)
<1>1. /\ take[p] # 0 /\ S[p].state # "BROKEN"
      /\ S[p].state = "DESYNC" \/ ~authdec_buffer(s, k)
      /\ \E st \in {"BROKEN", "DESYNC"} : Finish(p, Call([s EXCEPT !.state = st]))
      /\ UNCHANGED <<cf, phase, sent, got, faults>>
  BY DEF Unpack_Mismatch, Idle, Broken
<1>2. PICK st \in {"BROKEN", "DESYNC"} : Finish(p, Call([s EXCEPT !.state = st]))
  BY <1>1
<1> DEFINE c == [s EXCEPT !.state = st]
           x == Call(c)
<1>3. S[p] \in Endpoint /\ take[p] \in Nat /\ held[p] \in Nat /\ net[p] \in Seq(Packet)
  BY DEF Types
<1>4. take[p] > 0 /\ Len(net[p]) > 0
  BY <1>1, <1>3
<1>5. k \in Packet /\ k = net[p][1]
  BY <1>3, <1>4
<1> HIDE DEF k
<1>6. /\ S[p].state # "1STSRV" => s = S[p]
      /\ S[p].state = "1STSRV" => First(S[p], k, s)
  BY <1>3, <1>5, srvfirstIs
<1>7. S[p].state = "DESYNC" \/ ~Opens(S[p], k)
  BY <1>1, <1>3, <1>5, OpensIs
<1> HIDE DEF s
<1>8. s \in Endpoint
  BY <1>3, <1>6 DEF First
<1>9. c \in Endpoint
  <2>1. st \in States
    BY DEF States
  <2> QED BY <1>8, <2>1, FieldSets
<1>10. /\ c.state = st /\ c.auth_latched = s.auth_latched /\ c.in_seqnr = s.in_seqnr
       /\ c.current_seqnr = s.current_seqnr /\ c.authentic = s.authentic
  BY <1>8 DEF Endpoint
<1> HIDE DEF c
<1>11. IsCall(x) /\ x.s = c /\ x.out = <<>>
  BY <1>9, CallIs
<1>12. Finish(p, x)
  BY <1>2 DEF c
<1> HIDE DEF x
<1>13. Finished(p, x)
  BY <1>4, <1>11, <1>12, FinishIs
<1>14. /\ x.s.auth_latched = S[p].auth_latched
       /\ x.s.in_seqnr = S[p].in_seqnr /\ x.s.current_seqnr = S[p].current_seqnr
       /\ x.s.authentic = IF S[p].state = "1STSRV" THEN "SERVER_HBLOCK" ELSE S[p].authentic
  <2>1. CASE S[p].state # "1STSRV"
    BY <1>6, <1>10, <1>11, <2>1
  <2>2. CASE S[p].state = "1STSRV"
    BY <1>6, <1>10, <1>11, <2>2 DEF First
  <2> QED BY <2>1, <2>2
<1>15. Len(x.out) = 0
  BY <1>11
<1>16. x.s.state \in {"BROKEN", "DESYNC"}
  BY <1>10, <1>11
<1>17. Garbled(p, k, x)
  BY <1>1, <1>4, <1>5, <1>7, <1>13, <1>14, <1>15, <1>16 DEF Garbled
<1> QED BY <1>5, <1>11, <1>17

\* Side p sends an event, and a REKEY behind it when one is due.
Enqueues(p, x) ==
  /\ phase[p] = "serve" /\ take[p] = 0 /\ S[p].state # "BROKEN" /\ sent[p] < cf.msgs[p]
  /\ x = append_out(p, Call(S[p]), Event(sent[p] + 1))
  /\ Wrote(Call(S[p]), Event(sent[p] + 1), x) \/ WroteRekey(Call(S[p]), Event(sent[p] + 1), x)
  /\ S' \in [Side -> Endpoint] /\ S'[p] = x.s /\ S'[Peer(p)] = S[Peer(p)]
  /\ net' \in [Side -> Seq(Packet)] /\ net'[p] = net[p] /\ net'[Peer(p)] = net[Peer(p)] \o x.out
  /\ sent' \in [Side -> Nat] /\ sent'[p] = sent[p] + 1 /\ sent'[Peer(p)] = sent[Peer(p)]
  /\ UNCHANGED <<cf, take, held, phase, got, faults>>

LEMMA EventTypes == ASSUME NEW n \in Nat
                    PROVE  Event(n) \in Message /\ Event(n).t = "event" /\ Event(n).val = n
  BY DEF Event, Message, Roles, NoKey

LEMMA Channel_EnqueueIs ==
  ASSUME Types, NEW p \in Side, Channel_Enqueue(p)
  PROVE  \E x : IsCall(x) /\ Enqueues(p, x)
<1> DEFINE x == append_out(p, Call(S[p]), Event(sent[p] + 1))
           q == Peer(p)
<1>0. q \in Side /\ q # p
  BY Peers
<1>1. /\ phase[p] = "serve" /\ take[p] = 0 /\ S[p].state # "BROKEN" /\ sent[p] < cf.msgs[p]
      /\ S' = [S EXCEPT ![p] = x.s] /\ net' = [net EXCEPT ![q] = @ \o x.out]
      /\ sent' = [sent EXCEPT ![p] = @ + 1]
      /\ UNCHANGED <<cf, take, held, phase, got, faults>>
  BY DEF Channel_Enqueue, Idle, Broken
<1>2. /\ S \in [Side -> Endpoint] /\ net \in [Side -> Seq(Packet)] /\ sent \in [Side -> Nat]
      /\ S[p] \in Endpoint /\ cf \in Configs /\ sent[p] + 1 \in Nat
  BY SMTT(30), SMTT(31) DEF Types
<1>3. IsCall(Call(S[p])) /\ Call(S[p]).s = S[p] /\ Call(S[p]).out = <<>> /\ Event(sent[p] + 1) \in Message
  BY <1>2, CallIs, EventTypes
<1>4. /\ IsCall(x)
      /\ Wrote(Call(S[p]), Event(sent[p] + 1), x) \/ WroteRekey(Call(S[p]), Event(sent[p] + 1), x)
  BY <1>1, <1>2, <1>3, append_outIs
<1>5. x = append_out(p, Call(S[p]), Event(sent[p] + 1))
  OBVIOUS
<1> HIDE DEF x, q
<1>6. x.s \in Endpoint /\ x.out \in Seq(Packet)
  BY <1>4 DEF IsCall
<1>7. S' \in [Side -> Endpoint] /\ S'[p] = x.s /\ S'[q] = S[q]
  BY <1>0, <1>1, <1>2, <1>6
<1>8. net' \in [Side -> Seq(Packet)] /\ net'[p] = net[p] /\ net'[q] = net[q] \o x.out
  <2> DEFINE b == net[q] \o x.out
  <2>1. b \in Seq(Packet) /\ net' = [net EXCEPT ![q] = b]
    BY <1>0, <1>1, <1>2, <1>6
  <2> HIDE DEF b
  <2>2. net' \in [Side -> Seq(Packet)] /\ net'[p] = net[p] /\ net'[q] = b
    BY <1>0, <1>2, <2>1
  <2> QED BY <2>2 DEF b
<1>9. sent' \in [Side -> Nat] /\ sent'[p] = sent[p] + 1 /\ sent'[q] = sent[q]
  BY <1>0, <1>1, <1>2
<1>10. Enqueues(p, x)
  BY <1>1, <1>4, <1>5, <1>7, <1>8, <1>9 DEF Enqueues, q
<1> QED BY <1>4, <1>10

\* The carrier lost, doubled or swapped packets to p that nobody has read.
Carried(p) ==
  /\ net' \in [Side -> Seq(Packet)] /\ net'[Peer(p)] = net[Peer(p)]
  /\ Len(net'[p]) >= take[p] + held[p]
  /\ \A i \in 1 .. Len(net'[p]) : \E j \in 1 .. Len(net[p]) : net'[p][i] = net[p][j]
  /\ faults' = faults + 1
  /\ UNCHANGED <<cf, S, take, held, phase, sent, got>>

LEMMA PiecesOf ==
  ASSUME NEW c \in Seq(Packet), NEW i \in Int, NEW j \in Int, 1 <= i, j <= Len(c), i <= j + 1
  PROVE  LET a == SubSeq(c, i, j)
         IN  /\ a \in Seq(Packet) /\ Len(a) = j - i + 1
             /\ \A l \in 1 .. Len(a) : \E n \in 1 .. Len(c) : a[l] = c[n]
<1> DEFINE a == SubSeq(c, i, j)
<1>1. a \in Seq(Packet) /\ Len(a) = j - i + 1 /\ \A l \in 1 .. j - i + 1 : a[l] = c[i + l - 1]
  OBVIOUS
<1> HIDE DEF a
<1>2. ASSUME NEW l \in 1 .. Len(a) PROVE \E n \in 1 .. Len(c) : a[l] = c[n]
  <2>1. a[l] = c[i + l - 1] /\ i + l - 1 \in 1 .. Len(c)
    BY <1>1
  <2> QED BY <2>1
<1> QED BY <1>1, <1>2 DEF a

LEMMA ConcatAt ==
  ASSUME NEW a \in Seq(Packet), NEW b \in Seq(Packet), NEW l \in 1 .. Len(a \o b)
  PROVE  \/ l \in 1 .. Len(a) /\ (a \o b)[l] = a[l]
         \/ l - Len(a) \in 1 .. Len(b) /\ (a \o b)[l] = b[l - Len(a)]
  OBVIOUS

LEMMA JoinedOf ==
  ASSUME NEW c \in Seq(Packet), NEW a \in Seq(Packet), NEW b \in Seq(Packet),
         \A l \in 1 .. Len(a) : \E n \in 1 .. Len(c) : a[l] = c[n],
         \A l \in 1 .. Len(b) : \E n \in 1 .. Len(c) : b[l] = c[n]
  PROVE  /\ a \o b \in Seq(Packet) /\ Len(a \o b) = Len(a) + Len(b)
         /\ \A l \in 1 .. Len(a \o b) : \E n \in 1 .. Len(c) : (a \o b)[l] = c[n]
<1> DEFINE s == a \o b
<1>1. s \in Seq(Packet) /\ Len(s) = Len(a) + Len(b) /\ Len(a) \in Nat /\ Len(b) \in Nat
  OBVIOUS
<1>2. ASSUME NEW l \in 1 .. Len(s)
      PROVE  (l \in 1 .. Len(a) /\ s[l] = a[l]) \/ (l - Len(a) \in 1 .. Len(b) /\ s[l] = b[l - Len(a)])
  BY ConcatAt
<1> HIDE DEF s
<1>3. ASSUME NEW l \in 1 .. Len(s) PROVE \E n \in 1 .. Len(c) : s[l] = c[n]
  <2>1. CASE l \in 1 .. Len(a) /\ s[l] = a[l]
    <3>1. PICK n \in 1 .. Len(c) : a[l] = c[n]
      BY <2>1
    <3> QED BY <2>1, <3>1
  <2>2. CASE l - Len(a) \in 1 .. Len(b) /\ s[l] = b[l - Len(a)]
    <3>1. PICK n \in 1 .. Len(c) : b[l - Len(a)] = c[n]
      BY <2>2
    <3> QED BY <2>2, <3>1
  <2> QED BY <1>2, <2>1, <2>2
<1> QED BY <1>1, <1>3 DEF s

LEMMA CarriedIs ==
  ASSUME Types, NEW p \in Side, Lose(p) \/ Double(p) \/ Swap(p)
  PROVE  Carried(p)
<1>0. Peer(p) \in Side /\ Peer(p) # p
  BY Peers
<1>1. /\ net \in [Side -> Seq(Packet)] /\ net[p] \in Seq(Packet) /\ take[p] \in Nat /\ held[p] \in Nat
  BY DEF Types
<1> DEFINE c == net[p]
           m == held[p] + take[p]
<1>2. ASSUME NEW s \in Seq(Packet), Carry(p, s), Len(s) >= m,
             \A i \in 1 .. Len(s) : \E j \in 1 .. Len(c) : s[i] = c[j]
      PROVE  Carried(p)
  <2>1. /\ net' = [net EXCEPT ![p] = s] /\ faults' = faults + 1
        /\ UNCHANGED <<cf, S, take, held, phase, sent, got>>
    BY <1>2 DEF Carry
  <2>2. net' \in [Side -> Seq(Packet)] /\ net'[p] = s /\ net'[Peer(p)] = net[Peer(p)]
    BY <1>0, <1>1, <2>1
  <2>3. Len(net'[p]) >= take[p] + held[p]
    BY <1>1, <1>2, <2>2, SMTT(30), SMTT(31)
  <2> QED BY <1>2, <2>1, <2>2, <2>3 DEF Carried
<1> HIDE DEF c, m
<1>3. c \in Seq(Packet) /\ m \in Nat /\ c = net[p] /\ m = held[p] + take[p] /\ Len(c) \in Nat
  BY <1>1 DEF c, m
<1>4. ASSUME Lose(p) PROVE Carried(p)
  <2>1. PICK i \in Pending(p) : Carry(p, SubSeq(net[p], 1, i - 1) \o SubSeq(net[p], i + 1, Len(net[p])))
    BY <1>4 DEF Lose
  <2> DEFINE a == SubSeq(c, 1, i - 1)
             b == SubSeq(c, i + 1, Len(c))
  <2>2. i \in Int /\ m < i /\ i <= Len(c) /\ i >= 1
    BY <1>3 DEF Pending
  <2>3. a \in Seq(Packet) /\ Len(a) = i - 1 /\ \A l \in 1 .. Len(a) : \E n \in 1 .. Len(c) : a[l] = c[n]
    <3>1. i - 1 \in Int /\ 1 \in Int /\ 1 <= 1 /\ i - 1 <= Len(c) /\ 1 <= (i - 1) + 1 /\ (i - 1) - 1 + 1 = i - 1
      BY <1>3, <2>2
    <3> QED BY <1>3, <3>1, PiecesOf
  <2>4. b \in Seq(Packet) /\ Len(b) = Len(c) - (i + 1) + 1 /\ \A l \in 1 .. Len(b) : \E n \in 1 .. Len(c) : b[l] = c[n]
    <3>1. i + 1 \in Int /\ Len(c) \in Int /\ 1 <= i + 1 /\ Len(c) <= Len(c) /\ i + 1 <= Len(c) + 1
      BY <1>3, <2>2
    <3> QED BY <1>3, <3>1, PiecesOf, ZenonT(30)
  <2> HIDE DEF a, b
  <2>5. /\ a \o b \in Seq(Packet) /\ Len(a \o b) = Len(a) + Len(b)
        /\ \A l \in 1 .. Len(a \o b) : \E n \in 1 .. Len(c) : (a \o b)[l] = c[n]
    BY <1>3, <2>3, <2>4, JoinedOf, ZenonT(30)
  <2>6. Carry(p, a \o b)
    BY <1>3, <2>1 DEF a, b
  <2>7. Len(a \o b) >= m
    BY <1>3, <2>2, <2>3, <2>4, <2>5, SMTT(30), SMTT(31)
  <2> QED BY <1>2, <2>5, <2>6, <2>7
<1>5. ASSUME Double(p) PROVE Carried(p)
  <2>1. PICK i \in Pending(p) : Carry(p, SubSeq(net[p], 1, i) \o SubSeq(net[p], i, Len(net[p])))
    BY <1>5 DEF Double
  <2> DEFINE a == SubSeq(c, 1, i)
             b == SubSeq(c, i, Len(c))
  <2>2. i \in Int /\ m < i /\ i <= Len(c) /\ i >= 1
    BY <1>3 DEF Pending
  <2>3. a \in Seq(Packet) /\ Len(a) = i /\ \A l \in 1 .. Len(a) : \E n \in 1 .. Len(c) : a[l] = c[n]
    <3>1. i \in Int /\ 1 \in Int /\ 1 <= 1 /\ i <= Len(c) /\ 1 <= (i) + 1 /\ (i) - 1 + 1 = i
      BY <1>3, <2>2
    <3> QED BY <1>3, <3>1, PiecesOf
  <2>4. b \in Seq(Packet) /\ Len(b) = Len(c) - (i) + 1 /\ \A l \in 1 .. Len(b) : \E n \in 1 .. Len(c) : b[l] = c[n]
    <3>1. i \in Int /\ Len(c) \in Int /\ 1 <= i /\ Len(c) <= Len(c) /\ i <= Len(c) + 1
      BY <1>3, <2>2
    <3> QED BY <1>3, <3>1, PiecesOf, ZenonT(30)
  <2> HIDE DEF a, b
  <2>5. /\ a \o b \in Seq(Packet) /\ Len(a \o b) = Len(a) + Len(b)
        /\ \A l \in 1 .. Len(a \o b) : \E n \in 1 .. Len(c) : (a \o b)[l] = c[n]
    BY <1>3, <2>3, <2>4, JoinedOf, ZenonT(30)
  <2>6. Carry(p, a \o b)
    BY <1>3, <2>1 DEF a, b
  <2>7. Len(a \o b) >= m
    BY <1>3, <2>2, <2>3, <2>4, <2>5, SMTT(30), SMTT(31)
  <2> QED BY <1>2, <2>5, <2>6, <2>7
<1>6. ASSUME Swap(p) PROVE Carried(p)
  <2>1. PICK i \in Pending(p) :
          i + 1 \in Pending(p) /\ Carry(p, [net[p] EXCEPT ![i] = net[p][i + 1], ![i + 1] = net[p][i]])
    BY <1>6 DEF Swap
  <2> DEFINE s == [c EXCEPT ![i] = c[i + 1], ![i + 1] = c[i]]
  <2>2. i \in 1 .. Len(c) /\ i + 1 \in 1 .. Len(c) /\ m < Len(c)
    BY <1>3, <2>1 DEF Pending
  <2>3. s \in Seq(Packet) /\ Len(s) = Len(c)
    BY <1>3, <2>2
  <2>4. ASSUME NEW j \in 1 .. Len(s) PROVE \E l \in 1 .. Len(c) : s[j] = c[l]
    BY <1>3, <2>2, <2>3
  <2>5. Carry(p, s) /\ Len(s) >= m
    BY <1>3, <2>1, <2>2, <2>3
  <2> HIDE DEF s
  <2> QED BY <1>2, <2>3, <2>4, <2>5
<1> QED BY <1>4, <1>5, <1>6

-----------------------------------------------------------------------------
(* events arrive once and in order *)

\* The buffers of side p
Buffers(p) ==
  /\ take[p] + held[p] <= Len(net[p]) /\ (take[p] > 0 => held[p] = 0)
  /\ S[p].auth_latched = FALSE

\* How far side p is in the handshake
Shake(p) ==
  /\ S[p].state = "1STSRV" => p = "srv" /\ S[p].authentic = "UNAUTHENTICATED"
  /\ S[p].state # "1STSRV" => S[p].authentic \in AuthOf(p)
  /\ S[p].authentic = "POLITE_HELLO_SENT" => cf.ephemeral /\ (Broken(p) \/ S[p].in_seqnr = 0)
  /\ cf.ephemeral /\ S[p].current_seqnr = 0 => Broken(p) \/ S[p].in_seqnr = 0
  /\ p = "cl" => S[p].current_seqnr > 0

\* What the caller of side p knows
Caller(p) ==
  /\ phase[p] = "serve" => S[p].authentic = "FULL_PK"
  /\ phase[p] = "auth" => /\ sent[p] = 0 /\ got[p] = <<>>
                          /\ take[p] > 0 => S[p].authentic # "FULL_PK" \/ Broken(p)

\* From q to its peer: what was sent, is on the way and has arrived
Track(q, e, h) ==
  /\ Len(e) = sent[q] /\ Marks(e, h, S[q].current_seqnr)
  /\ Arrived(e, S[q].current_seqnr, S[Peer(q)].in_seqnr, got[Peer(q)])
  /\ \A i \in 1 .. Len(net[Peer(q)]) : PacketOf(cf.ephemeral, e, h, S[q].current_seqnr, net[Peer(q)][i])
  /\ S[q].authentic \in {"REAL_HELLO_SENT", "FULL_PK"} => h < S[q].current_seqnr
  /\ S[Peer(q)].in_seqnr > h => Broken(Peer(q)) \/ S[Peer(q)].authentic = "FULL_PK"

Tracked(q) == \E e \in Seq(Nat), h \in Nat : Track(q, e, h)

OInv == Types /\ \A p \in Side : Buffers(p) /\ Shake(p) /\ Caller(p) /\ Tracked(p)

\* What a handler sends is numbered from where the side is, and no event.
Numbered(c, x) ==
  /\ x.s.in_seqnr = c.in_seqnr /\ x.s.current_seqnr = c.current_seqnr + Len(x.out)
  /\ \A i \in 1 .. Len(x.out) : x.out[i].seq = c.current_seqnr + i - 1 /\ x.out[i].msg.t # "event"

\* The first packet sent is a HELLO in that mode.
Opening(x, mode) == Len(x.out) > 0 /\ x.out[1].msg.t = "hello" /\ x.out[1].msg.mode = mode

\* How a side may get on by packet k
Moved(p, c, k, x) ==
  \/ /\ x.s.state = "BROKEN" /\ Len(x.out) = 0 /\ x.s.authentic = c.authentic
     /\ x.s.auth_latched = c.auth_latched
  \/ /\ x.s.state = c.state /\ Len(x.out) = 0 /\ x.s.authentic = c.authentic
     /\ x.s.auth_latched = c.auth_latched /\ k.msg.t # "hello"
  \/ /\ p = "srv" /\ k.msg.t = "hello" /\ k.msg.mode = "EPHEMPK" /\ c.authentic # "FULL_PK"
     /\ x.s.state = c.state /\ x.s.authentic = "EPHEMERAL_PK" /\ x.s.auth_latched = c.auth_latched
     /\ Opening(x, "EPHEMPK")
  \/ /\ p = "srv" /\ k.msg.t = "hello" /\ k.msg.mode # "EPHEMPK" /\ c.authentic # "FULL_PK"
     /\ x.s.state = c.state /\ x.s.authentic = "FULL_PK" /\ x.s.auth_latched = TRUE
     /\ Opening(x, "REALPK")
  \/ /\ p = "cl" /\ k.msg.t = "hello" /\ c.authentic = "POLITE_HELLO_SENT"
     /\ x.s.state = c.state /\ x.s.authentic = "REAL_HELLO_SENT" /\ x.s.auth_latched = c.auth_latched
     /\ Opening(x, "REALPK")
  \/ /\ p = "cl" /\ k.msg.t = "hello" /\ c.authentic = "REAL_HELLO_SENT"
     /\ x.s.state = c.state /\ x.s.authentic = "FULL_PK" /\ x.s.auth_latched = TRUE /\ Len(x.out) = 0

LEMMA SendsNumbered ==
  ASSUME NEW p, NEW c \in Endpoint, NEW key, NEW x, IsCall(x), NEW pk, NEW n, NEW mode,
         Sends(p, c, key, Hello(p, mode, pk, n), x)
  PROVE  Numbered(c, x) /\ Opening(x, mode)
<1>1. /\ Len(x.out) \in {1, 2} /\ x.s.in_seqnr = c.in_seqnr
      /\ x.s.current_seqnr = c.current_seqnr + Len(x.out)
      /\ x.out[1] = [msg |-> Hello(p, mode, pk, n), key |-> key, seq |-> c.current_seqnr]
      /\ Len(x.out) = 2 => x.out[2].msg.t = "rekey" /\ x.out[2].seq = c.current_seqnr + 1
  BY DEF Sends
<1>2. x.out[1].msg.t = "hello" /\ x.out[1].msg.mode = mode /\ x.out[1].seq = c.current_seqnr
  BY <1>1 DEF Hello
<1>3. c.current_seqnr \in Nat
  BY FieldTypes
<1>4. ASSUME NEW i \in 1 .. Len(x.out) PROVE x.out[i].seq = c.current_seqnr + i - 1 /\ x.out[i].msg.t # "event"
  <2>1. i = 1 \/ (i = 2 /\ Len(x.out) = 2)
    BY <1>1, UpToTwo
  <2>2. c.current_seqnr + 1 - 1 = c.current_seqnr /\ c.current_seqnr + 2 - 1 = c.current_seqnr + 1
    BY <1>3
  <2> QED BY <1>1, <1>2, <2>1, <2>2
<1>5. Len(x.out) > 0
  BY <1>1
<1> QED BY <1>1, <1>2, <1>4, <1>5 DEF Numbered, Opening

LEMMA OutcomeMoves ==
  ASSUME NEW p \in Side, NEW c \in Endpoint, NEW k \in Packet, NEW x, IsCall(x), Outcome(p, c, k.msg, x)
  PROVE  Numbered(c, x) /\ Moved(p, c, k, x)
<1> DEFINE m == k.msg
<1>0. c.current_seqnr \in Nat /\ x.s.current_seqnr \in Nat
  BY FieldTypes DEF IsCall
<1>1. ASSUME Len(x.out) = 0, x.s.in_seqnr = c.in_seqnr, x.s.current_seqnr = c.current_seqnr
      PROVE  Numbered(c, x)
  BY <1>0, <1>1 DEF Numbered
<1>2. CASE p = "srv" /\ m.t = "hello" /\ m.mode = "EPHEMPK" /\ c.authentic # "FULL_PK" /\ EphemAnswer(c, m, x)
  <2>1. PICK i, n \in Nat : /\ Sends("srv", c, c.enc, Hello("srv", "EPHEMPK", i, n), x)
                            /\ x.s.authentic = "EPHEMERAL_PK" /\ x.s.auth_latched = c.auth_latched
    BY <1>2 DEF EphemAnswer
  <2>2. Numbered(c, x) /\ Opening(x, "EPHEMPK") /\ x.s.state = c.state
    <3>1. Numbered(c, x) /\ Opening(x, "EPHEMPK")
      BY <2>1, SendsNumbered
    <3>2. x.s.state = c.state
      BY <2>1 DEF Sends
    <3> QED BY <3>1, <3>2
  <2> QED BY <1>2, <2>1, <2>2 DEF Moved
<1>3. CASE p = "srv" /\ m.t = "hello" /\ m.mode # "EPHEMPK" /\ c.authentic # "FULL_PK" /\ RealAnswer(c, m, x)
  <2>1. PICK n \in Nat : /\ Sends("srv", c, c.enc, Hello("srv", "REALPK", c.key_session, n), x)
                         /\ x.s.authentic = "FULL_PK" /\ x.s.auth_latched = TRUE
    BY <1>3 DEF RealAnswer
  <2>2. Numbered(c, x) /\ Opening(x, "REALPK") /\ x.s.state = c.state
    <3>1. Numbered(c, x) /\ Opening(x, "REALPK")
      BY <2>1, SendsNumbered
    <3>2. x.s.state = c.state
      BY <2>1 DEF Sends
    <3> QED BY <3>1, <3>2
  <2> QED BY <1>3, <2>1, <2>2 DEF Moved
<1>4. CASE p = "cl" /\ m.t = "hello" /\ c.authentic = "POLITE_HELLO_SENT" /\ PoliteAnswer(c, m, x)
  <2> DEFINE key == Key({c.ephem_priv, m.pk}, m.nonce)
  <2> HIDE DEF key
  <2>1. PICK n \in Nat : /\ Sends("cl", c, key, Hello("cl", "REALPK", c.real_priv, n), x)
                         /\ x.s.authentic = "REAL_HELLO_SENT" /\ x.s.auth_latched = c.auth_latched
    BY <1>4 DEF PoliteAnswer, key
  <2>2. Numbered(c, x) /\ Opening(x, "REALPK") /\ x.s.state = c.state
    <3>1. Numbered(c, x) /\ Opening(x, "REALPK")
      BY <2>1, SendsNumbered
    <3>2. x.s.state = c.state
      BY <2>1 DEF Sends
    <3> QED BY <3>1, <3>2
  <2> QED BY <1>4, <2>1, <2>2 DEF Moved
<1>5. CASE p = "cl" /\ m.t = "hello" /\ c.authentic = "REAL_HELLO_SENT" /\ ClientDone(c, m, x)
  <2>1. Numbered(c, x)
    BY <1>1, <1>5 DEF ClientDone
  <2> QED BY <1>5, <2>1 DEF Moved, ClientDone
<1>6. CASE m.t = "rekey" /\ c.authentic = "FULL_PK" /\ ~c.own_rekey /\ Rekeyed(c, m, x)
  <2>1. Numbered(c, x)
    BY <1>1, <1>6 DEF Rekeyed
  <2>2. m.t # "hello"
    BY <1>6
  <2> QED BY <1>6, <2>1, <2>2 DEF Moved, Rekeyed
<1>7. CASE Refused(c, x)
  <2>1. Numbered(c, x)
    BY <1>1, <1>7 DEF Refused
  <2> QED BY <1>7, <2>1 DEF Moved, Refused
<1> QED BY <1>2, <1>3, <1>4, <1>5, <1>6, <1>7 DEF Outcome

\* A packet that was taken: what its handler did
LEMMA TakesMoves ==
  ASSUME Types, NEW p \in Side, Shake(p), NEW k \in Packet, NEW c \in Endpoint, NEW x, IsCall(x),
         Takes(p, k, c, x)
  PROVE  /\ Numbered(c, x) /\ Moved(p, c, k, x) /\ c.authentic \in AuthOf(p)
         /\ c.state \notin {"BROKEN", "1STSRV"}
         /\ k.msg.t # "event" => Outcome(p, c, k.msg, x)
<1>0. S[p] \in Endpoint /\ cf \in Configs
  BY DEF Types
<1>1. c.authentic \in AuthOf(p) /\ c.state \notin {"BROKEN", "1STSRV"}
  <2>1. Ready(S[p], k, c) /\ S[p].state \notin {"BROKEN", "DESYNC"}
    BY DEF Takes
  <2>2. CASE S[p].state = "1STSRV"
    <3>1. c.state = "NOPACKET" /\ c.authentic = "SERVER_HBLOCK" /\ p = "srv"
      BY <2>1, <2>2 DEF Ready, Shake
    <3> QED BY <3>1 DEF AuthOf
  <2>3. CASE S[p].state # "1STSRV"
    BY <2>1, <2>3 DEF Ready, Shake
  <2> QED BY <2>2, <2>3
<1>2. IsCall(Call(c)) /\ Call(c).s = c /\ Call(c).out = <<>> /\ k.msg \in Message
  <2>1. k.msg \in Message
    BY DEF Packet
  <2> QED BY <2>1, CallIs
<1>3. CASE k.msg.t = "event"
  <2>1. x = Call(c)
    BY <1>3 DEF Takes
  <2>2. x.s = c /\ Len(x.out) = 0
    BY <1>2, <2>1
  <2>3. Numbered(c, x)
    <3>1. c.current_seqnr \in Nat
      BY FieldTypes
    <3> QED BY <2>2, <3>1 DEF Numbered
  <2>4. k.msg.t # "hello"
    BY <1>3
  <2>5. Moved(p, c, k, x)
    BY <2>2, <2>4 DEF Moved
  <2> QED BY <1>1, <1>3, <2>3, <2>5
<1>4. CASE k.msg.t # "event"
  <2>1. x = process_control(p, Call(c), k.msg)
    BY <1>4 DEF Takes
  <2>2. Outcome(p, c, k.msg, x)
    BY <1>0, <1>1, <1>2, <2>1, process_controlIs
  <2> QED BY <1>1, <2>2, OutcomeMoves
<1> QED BY <1>3, <1>4

\* The peer of a side that did something else than read
LEMMA OtherSide ==
  ASSUME Types, NEW q \in Side, NEW out \in Seq(Packet), S'[q] = S[q], net'[q] = net[q] \o out,
         take'[q] = take[q], held'[q] = held[q], phase'[q] = phase[q], sent'[q] = sent[q],
         got'[q] = got[q], cf' = cf, Buffers(q), Shake(q), Caller(q)
  PROVE  Buffers(q)' /\ Shake(q)' /\ Caller(q)'
<1>1. Len(net'[q]) >= Len(net[q])
  <2>1. net[q] \in Seq(Packet)
    BY DEF Types
  <2> QED BY <2>1
<1>2. take[q] + held[q] <= Len(net'[q])
  <2>1. take[q] + held[q] \in Nat /\ Len(net[q]) \in Nat /\ take[q] + held[q] <= Len(net[q])
    BY SMTT(30), SMTT(31) DEF Types, Buffers
  <2>2. Len(net'[q]) \in Nat
    <3>1. net[q] \in Seq(Packet)
      BY DEF Types
    <3> QED BY <3>1
  <2> QED BY <1>1, <2>1, <2>2
<1>3. Buffers(q)'
  BY <1>2 DEF Buffers
<1>4. Shake(q)'
  BY DEF Shake, Broken
<1>5. Caller(q)'
  BY DEF Caller, Broken
<1> QED BY <1>3, <1>4, <1>5

LEMMA TakesShake ==
  ASSUME OInv, NEW p \in Side, NEW k \in Packet, NEW c \in Endpoint, NEW x, IsCall(x), Takes(p, k, c, x)
  PROVE  Types' /\ Buffers(p)' /\ Shake(p)' /\ Caller(p)'
<1> DEFINE q == Peer(p)
<1>0. Types /\ Buffers(p) /\ Shake(p) /\ Caller(p) /\ Tracked(q) /\ q \in Side /\ Peer(q) = p /\ q # p
  BY Peers DEF OInv
<1>1. /\ Numbered(c, x) /\ Moved(p, c, k, x) /\ c.authentic \in AuthOf(p)
      /\ c.state # "BROKEN" /\ c.state # "1STSRV"
  BY <1>0, TakesMoves
<1>2. /\ take[p] > 0 /\ S[p].state # "BROKEN" /\ S[p].state # "DESYNC" /\ Len(net[p]) > 0 /\ k = net[p][1]
      /\ Opens(S[p], k) /\ Ready(S[p], k, c) /\ Finished(p, x)
      /\ got' = [got EXCEPT ![p] = IF k.msg.t = "event" THEN Append(@, k.msg.val) ELSE @]
      /\ cf' = cf /\ phase' = phase /\ sent' = sent /\ faults' = faults
  BY DEF Takes
<1>3. /\ S[p] \in Endpoint /\ S[p].in_seqnr \in Nat /\ S[p].current_seqnr \in Nat /\ take[p] \in Nat
      /\ held[p] \in Nat /\ net[p] \in Seq(Packet) /\ got[p] \in Seq(Nat) /\ phase[p] \in {"auth", "serve"}
      /\ Len(net[p]) \in Nat /\ got \in [Side -> Seq(Nat)]
  <2>1. /\ S[p] \in Endpoint /\ take[p] \in Nat
        /\ held[p] \in Nat /\ net[p] \in Seq(Packet) /\ got[p] \in Seq(Nat) /\ phase[p] \in {"auth", "serve"}
        /\ Len(net[p]) \in Nat /\ got \in [Side -> Seq(Nat)]
    BY <1>0, SMTT(30), SMTT(31) DEF Types
  <2> QED BY <2>1, FieldTypes
<1>4. /\ c.in_seqnr = S[p].in_seqnr + 1 /\ c.current_seqnr = S[p].current_seqnr
      /\ c.auth_latched = FALSE /\ k.seq = S[p].in_seqnr
  BY <1>0, <1>2 DEF Ready, Opens, Buffers
<1>5. S[p].state # "1STSRV" => c.authentic = S[p].authentic
  BY <1>2 DEF Ready
<1>6. /\ S'[p].state = x.s.state /\ S'[p].authentic = x.s.authentic /\ S'[p].auth_latched = FALSE
      /\ S'[p].in_seqnr = x.s.in_seqnr /\ S'[p].current_seqnr = x.s.current_seqnr
  BY <1>2 DEF Finished, Unlatched
<1>7. PICK e \in Seq(Nat), h \in Nat : Track(q, e, h)
  BY <1>0 DEF Tracked
<1>8. PacketOf(cf.ephemeral, e, h, S[q].current_seqnr, k)
  <2>1. 1 \in 1 .. Len(net[p])
    BY <1>2, <1>3
  <2> QED BY <1>0, <1>2, <1>7, <2>1 DEF Track
<1>9. cf.ephemeral /\ S[p].in_seqnr = 0 => k.msg.t = "hello" /\ k.msg.mode = "EPHEMPK"
  BY <1>4, <1>8 DEF PacketOf
<1>10. Len(x.out) \in Nat /\ x.s.current_seqnr = S[p].current_seqnr + Len(x.out) /\ x.s.in_seqnr = S[p].in_seqnr + 1
  <2>1. Len(x.out) \in Nat
    BY DEF IsCall
  <2> QED BY <1>1, <1>4, <2>1 DEF Numbered
<1>11. k.msg.t = "event" => phase[p] = "serve" /\ k.msg.val \in Nat
  <2> SUFFICES ASSUME k.msg.t = "event" PROVE phase[p] = "serve" /\ k.msg.val \in Nat
    OBVIOUS
  <2>1. h < S[p].in_seqnr
    <3>1. k.msg.val \in 1 .. Len(e) /\ k.seq = e[k.msg.val]
      BY <1>8 DEF PacketOf
    <3>2. h < e[k.msg.val]
      BY <1>7, <3>1 DEF Track, Marks
    <3> QED BY <1>4, <3>1, <3>2
  <2>2. S[p].authentic = "FULL_PK"
    <3>1. S[p].in_seqnr > h => Broken(p) \/ S[p].authentic = "FULL_PK"
      BY <1>0, <1>7 DEF Track
    <3>2. S[p].in_seqnr > h
      BY <1>3, <2>1
    <3> QED BY <1>2, <3>1, <3>2 DEF Broken
  <2>3. k.msg.val \in Nat
    <3>1. k.msg \in Message
      BY DEF Packet
    <3> QED BY <3>1 DEF Message
  <2> QED BY <1>0, <1>2, <1>3, <2>2, <2>3 DEF Caller, Broken
<1>12. got' \in [Side -> Seq(Nat)]
  <2>1. CASE k.msg.t = "event"
    <3>1. Append(got[p], k.msg.val) \in Seq(Nat) /\ got' = [got EXCEPT ![p] = Append(got[p], k.msg.val)]
      BY <1>2, <1>3, <1>11, <2>1, SMTT(30), SMTT(31)
    <3> QED BY <1>3, <3>1
  <2>2. CASE k.msg.t # "event"
    <3>1. got' = [got EXCEPT ![p] = got[p]]
      BY <1>2, <2>2
    <3> QED BY <1>3, <3>1
  <2> QED BY <2>1, <2>2
<1>13. Types'
  <2>1. S' \in [Side -> Endpoint] /\ net' \in [Side -> Seq(Packet)] /\ take' \in [Side -> Nat] /\ held' \in [Side -> Nat]
    BY <1>2 DEF Finished
  <2> QED BY <1>0, <1>2, <1>12, <2>1 DEF Types
<1>14. Buffers(p)'
  <2>1. /\ net'[p] = Tail(net[p]) /\ (take'[p] > 0 => held'[p] = held[p])
        /\ take'[p] + held'[p] <= take[p] + held[p] - 1 \/ (take'[p] = 0 /\ held'[p] <= take[p] - 1)
        /\ take'[p] \in Nat /\ held'[p] \in Nat
    <3>1. take' \in [Side -> Nat] /\ held' \in [Side -> Nat]
      BY <1>2 DEF Finished
    <3>2. take'[p] \in Nat /\ held'[p] \in Nat
      BY <3>1
    <3> QED BY <1>2, <3>2 DEF Finished
  <2>2. Len(net'[p]) = Len(net[p]) - 1
    BY <1>2, <1>3, <2>1
  <2>3. take[p] + held[p] <= Len(net[p]) /\ held[p] = 0
    BY <1>0, <1>2 DEF Buffers
  <2>4. take'[p] + held'[p] <= Len(net'[p]) /\ (take'[p] > 0 => held'[p] = 0)
    <3>1. PICK t, b, l, u, v, z : /\ t = take[p] /\ b = held[p] /\ l = Len(net[p])
                                  /\ u = take'[p] /\ v = held'[p] /\ z = Len(net'[p])
      OBVIOUS
    <3>2. t \in Nat /\ l \in Nat
      BY <1>3, <3>1
    <3>3. /\ u + v <= t + b - 1 \/ (u = 0 /\ v <= t - 1)
          /\ (u > 0 => v = b) /\ u \in Nat /\ v \in Nat /\ z = l - 1 /\ t + b <= l /\ b = 0
      BY <2>1, <2>2, <2>3, <3>1
    <3>4. u + v <= z /\ (u > 0 => v = 0)
      BY <3>2, <3>3
    <3> QED BY <3>1, <3>4
  <2> QED BY <1>6, <2>4 DEF Buffers
<1>15. x.s.state # "1STSRV" /\ x.s.authentic \in AuthOf(p)
  <2>1. "EPHEMERAL_PK" \in AuthOf("srv") /\ "FULL_PK" \in AuthOf("srv") /\ "REAL_HELLO_SENT" \in AuthOf("cl") /\ "FULL_PK" \in AuthOf("cl")
    BY DEF AuthOf
  <2>2. "BROKEN" # "1STSRV"
    OBVIOUS
  <2> QED BY <1>1, <2>1, <2>2 DEF Moved
<1>16. x.s.authentic = "POLITE_HELLO_SENT" => cf.ephemeral /\ x.s.state = "BROKEN"
  <2> SUFFICES ASSUME x.s.authentic = "POLITE_HELLO_SENT" PROVE cf.ephemeral /\ x.s.state = "BROKEN"
    OBVIOUS
  <2>1. /\ c.authentic = "POLITE_HELLO_SENT"
        /\ x.s.state = "BROKEN" \/ k.msg.t # "hello"
    BY <1>1 DEF Moved
  <2>2. S[p].state # "1STSRV"
    <3>1. S[p].state = "1STSRV" => c.authentic = "SERVER_HBLOCK"
      BY <1>2 DEF Ready
    <3> QED BY <2>1, <3>1
  <2>3. cf.ephemeral /\ S[p].in_seqnr = 0
    BY <1>0, <1>2, <1>5, <2>1, <2>2 DEF Shake, Broken
  <2> QED BY <1>9, <2>1, <2>3
<1>17. cf.ephemeral /\ x.s.current_seqnr = 0 => x.s.state = "BROKEN"
  <2> SUFFICES ASSUME cf.ephemeral, x.s.current_seqnr = 0 PROVE x.s.state = "BROKEN"
    OBVIOUS
  <2>1. S[p].current_seqnr = 0 /\ Len(x.out) = 0
    BY <1>3, <1>10
  <2>2. S[p].in_seqnr = 0 /\ p # "cl"
    <3>1. ~(S[p].current_seqnr > 0)
      BY <2>1
    <3> QED BY <1>0, <1>2, <2>1, <3>1 DEF Shake, Broken
  <2>3. ~(Len(x.out) > 0)
    BY <2>1
  <2> QED BY <1>1, <1>9, <2>2, <2>3 DEF Moved, Opening
<1>18. p = "cl" => x.s.current_seqnr > 0
  BY <1>0, <1>3, <1>10 DEF Shake
<1>19. Shake(p)'
  BY <1>2, <1>6, <1>15, <1>16, <1>17, <1>18 DEF Shake, Broken
<1>20. Caller(p)'
  <2>1. ASSUME phase[p] = "serve" PROVE x.s.authentic = "FULL_PK"
    <3>1. S[p].authentic = "FULL_PK"
      BY <1>0, <2>1 DEF Caller
    <3>2. c.authentic = "FULL_PK"
      <4>1. S[p].state = "1STSRV" => S[p].authentic = "UNAUTHENTICATED"
        BY <1>0 DEF Shake
      <4> QED BY <1>5, <3>1, <4>1
    <3> QED BY <1>1, <3>2 DEF Moved
  <2>2. ASSUME phase[p] = "auth" PROVE got'[p] = <<>>
    <3>1. k.msg.t # "event" /\ got[p] = <<>>
      BY <1>0, <1>11, <2>2 DEF Caller
    <3>2. got'[p] = got[p]
      BY <1>2, <1>3, <3>1
    <3> QED BY <3>1, <3>2
  <2>3. ASSUME phase[p] = "auth", take'[p] > 0 PROVE x.s.authentic # "FULL_PK"
    <3>1. x.s.auth_latched = FALSE /\ x.s.state # "BROKEN"
      BY <1>2, <2>3 DEF Finished
    <3>2. S[p].authentic # "FULL_PK"
      BY <1>0, <1>2, <2>3 DEF Caller, Broken
    <3>3. c.authentic # "FULL_PK"
      <4>1. S[p].state = "1STSRV" => c.authentic = "SERVER_HBLOCK"
        BY <1>2 DEF Ready
      <4> QED BY <1>5, <3>2, <4>1
    <3> QED BY <1>1, <3>1, <3>3 DEF Moved
  <2>4. phase[p] = "auth" => sent[p] = 0
    BY <1>0 DEF Caller
  <2> QED BY <1>2, <1>6, <2>1, <2>2, <2>3, <2>4 DEF Caller, Broken
<1> QED BY <1>13, <1>14, <1>19, <1>20

\* The packet was the next one of the sender.
LEMMA TakesReceived ==
  ASSUME OInv, NEW p \in Side, NEW k \in Packet, NEW c \in Endpoint, NEW x, IsCall(x), Takes(p, k, c, x)
  PROVE  Tracked(Peer(p))'
<1> DEFINE q == Peer(p)
<1>0. Types /\ Shake(p) /\ Tracked(q) /\ q \in Side /\ Peer(q) = p /\ q # p
  BY Peers DEF OInv
<1>1. /\ Numbered(c, x) /\ Moved(p, c, k, x) /\ c.authentic \in AuthOf(p)
      /\ c.state # "BROKEN" /\ c.state # "1STSRV"
  BY <1>0, TakesMoves
<1>2. /\ S[p].state # "BROKEN" /\ S[p].state # "DESYNC" /\ Len(net[p]) > 0 /\ k = net[p][1]
      /\ Opens(S[p], k) /\ Ready(S[p], k, c) /\ Finished(p, x)
      /\ got' = [got EXCEPT ![p] = IF k.msg.t = "event" THEN Append(@, k.msg.val) ELSE @]
      /\ cf' = cf /\ sent' = sent
  BY DEF Takes
<1>3. /\ S[p] \in Endpoint /\ S[p].in_seqnr \in Nat /\ S[q] \in Endpoint /\ S[q].current_seqnr \in Nat
      /\ net[p] \in Seq(Packet) /\ got[p] \in Seq(Nat) /\ got \in [Side -> Seq(Nat)] /\ cf \in Configs
  <2>1. /\ S[p] \in Endpoint /\ S[q] \in Endpoint /\ net[p] \in Seq(Packet) /\ got[p] \in Seq(Nat)
        /\ got \in [Side -> Seq(Nat)] /\ cf \in Configs
    BY <1>0 DEF Types
  <2> QED BY <2>1, FieldTypes
<1>4. /\ S'[q] = S[q] /\ net'[p] = Tail(net[p]) /\ S'[p].in_seqnr = x.s.in_seqnr
      /\ S'[p].authentic = x.s.authentic /\ S'[p].state = x.s.state
  BY <1>2 DEF Finished, Unlatched
<1>5. PICK e \in Seq(Nat), h \in Nat : Track(q, e, h)
  BY <1>0 DEF Tracked
<1> DEFINE cur == S[q].current_seqnr
           ins == S[p].in_seqnr
           g == got[p]
<1>6. /\ Len(e) = sent[q] /\ Marks(e, h, cur) /\ Arrived(e, cur, ins, g)
      /\ \A i \in 1 .. Len(net[p]) : PacketOf(cf.ephemeral, e, h, cur, net[p][i])
      /\ S[q].authentic \in {"REAL_HELLO_SENT", "FULL_PK"} => h < cur
      /\ ins > h => Broken(p) \/ S[p].authentic = "FULL_PK"
  BY <1>0, <1>5 DEF Track
<1>7. cur \in Nat /\ ins \in Nat /\ g \in Seq(Nat) /\ k.seq = ins /\ x.s.in_seqnr = ins + 1
  BY <1>1, <1>2, <1>3 DEF Opens, Ready, Numbered
<1>8. PacketOf(cf.ephemeral, e, h, cur, k)
  <2>1. 1 \in 1 .. Len(net[p])
    BY <1>2, <1>3
  <2> QED BY <1>2, <1>6, <2>1
<1>9. /\ S'[Peer(q)].in_seqnr = ins + 1 /\ S'[q].current_seqnr = cur /\ Peer(q) = p
  BY <1>0, <1>4, <1>7
<1> HIDE DEF cur, ins, g
<1>10. Arrived(e, cur, ins + 1, got'[p])
  <2>1. CASE k.msg.t = "event"
    <3>1. got'[p] = Append(g, k.msg.val)
      BY <1>2, <1>3, <2>1 DEF g
    <3>2. Arrived(e, cur, ins + 1, Append(g, k.msg.val))
      BY <1>6, <1>7, <1>8, <2>1, EventArrives
    <3> QED BY <3>1, <3>2
  <2>2. CASE k.msg.t # "event"
    <3>1. got'[p] = g
      BY <1>2, <1>3, <2>2 DEF g
    <3> QED BY <1>6, <1>7, <1>8, <2>2, <3>1, OtherArrives
  <2> QED BY <2>1, <2>2
<1>11. ASSUME NEW i \in 1 .. Len(net'[p]) PROVE PacketOf(cf.ephemeral, e, h, cur, net'[p][i])
  <2>1. i + 1 \in 1 .. Len(net[p]) /\ net'[p][i] = net[p][i + 1]
    BY <1>2, <1>3, <1>4
  <2> QED BY <1>6, <2>1
<1>12. ASSUME ins + 1 > h PROVE S'[p].state = "BROKEN" \/ S'[p].authentic = "FULL_PK"
  <2>1. CASE ins > h
    <3>1. S[p].authentic = "FULL_PK"
      BY <1>2, <1>6, <2>1 DEF Broken
    <3>2. c.authentic = "FULL_PK"
      <4>1. /\ S[p].state = "1STSRV" => S[p].authentic = "UNAUTHENTICATED"
            /\ S[p].state # "1STSRV" => c.authentic = S[p].authentic
        BY <1>0, <1>2 DEF Shake, Ready
      <4> QED BY <3>1, <4>1
    <3> QED BY <1>1, <1>4, <3>2 DEF Moved
  <2>2. CASE ins = h
    <3>1. k.msg.t = "hello" /\ k.msg.mode = "REALPK"
      BY <1>7, <1>8, <2>2 DEF PacketOf
    <3>2. c.authentic # "POLITE_HELLO_SENT"
      <4>1. ~(cf.ephemeral /\ ins = 0)
        BY <1>7, <1>8, <3>1 DEF PacketOf
      <4>2. /\ S[p].state = "1STSRV" => c.authentic = "SERVER_HBLOCK"
            /\ S[p].state # "1STSRV" => c.authentic = S[p].authentic
        BY <1>2 DEF Ready
      <4>3. S[p].authentic # "POLITE_HELLO_SENT"
        BY <1>0, <1>2, <4>1 DEF Shake, Broken, ins
      <4> QED BY <4>2, <4>3
    <3> QED BY <1>1, <1>4, <3>1, <3>2 DEF Moved
  <2> QED BY <1>7, <1>12, <2>1, <2>2
<1>13. Track(q, e, h)'
  <2>1. Len(e) = sent'[q] /\ Marks(e, h, S'[q].current_seqnr)
    BY <1>2, <1>6, <1>9
  <2>2. Arrived(e, S'[q].current_seqnr, S'[p].in_seqnr, got'[p])
    BY <1>9, <1>10
  <2>3. \A i \in 1 .. Len(net'[p]) : PacketOf(cf'.ephemeral, e, h, S'[q].current_seqnr, net'[p][i])
    BY <1>2, <1>9, <1>11
  <2>4. S'[q].authentic \in {"REAL_HELLO_SENT", "FULL_PK"} => h < S'[q].current_seqnr
    BY <1>4, <1>6, <1>9
  <2>5. S'[p].in_seqnr > h => S'[p].state = "BROKEN" \/ S'[p].authentic = "FULL_PK"
    BY <1>9, <1>12
  <2> QED BY <1>9, <2>1, <2>2, <2>3, <2>4, <2>5 DEF Track, Broken
<1> QED BY <1>13 DEF Tracked

\* What the handler answers is tracked too.
LEMMA TakesAnswered ==
  ASSUME OInv, NEW p \in Side, NEW k \in Packet, NEW c \in Endpoint, NEW x, IsCall(x), Takes(p, k, c, x)
  PROVE  Tracked(p)'
<1> DEFINE q == Peer(p)
<1>0. Types /\ Shake(p) /\ Caller(p) /\ Tracked(p) /\ Tracked(q) /\ q \in Side /\ Peer(q) = p /\ q # p
  BY Peers DEF OInv
<1>1. /\ Numbered(c, x) /\ Moved(p, c, k, x) /\ c.authentic \in AuthOf(p)
      /\ c.state # "BROKEN" /\ c.state # "1STSRV"
  BY <1>0, TakesMoves
<1>2. /\ S[p].state # "BROKEN" /\ S[p].state # "DESYNC" /\ Len(net[p]) > 0 /\ k = net[p][1]
      /\ Opens(S[p], k) /\ Ready(S[p], k, c) /\ Finished(p, x)
      /\ got' = [got EXCEPT ![p] = IF k.msg.t = "event" THEN Append(@, k.msg.val) ELSE @]
      /\ cf' = cf /\ sent' = sent
  BY DEF Takes
<1>3. /\ S[p] \in Endpoint /\ S[q].in_seqnr \in Nat /\ S[q] \in Endpoint /\ S[p].current_seqnr \in Nat
      /\ S[p].in_seqnr \in Nat
      /\ net[p] \in Seq(Packet) /\ net[q] \in Seq(Packet) /\ got[q] \in Seq(Nat) /\ got \in [Side -> Seq(Nat)] /\ cf \in Configs
      /\ phase[p] \in {"auth", "serve"}
  <2>1. /\ S[p] \in Endpoint /\ S[q] \in Endpoint /\ net[p] \in Seq(Packet) /\ net[q] \in Seq(Packet) /\ got[q] \in Seq(Nat)
        /\ got \in [Side -> Seq(Nat)] /\ cf \in Configs /\ phase[p] \in {"auth", "serve"}
    BY <1>0 DEF Types
  <2> QED BY <2>1, FieldTypes
<1>4. /\ S'[q] = S[q] /\ net'[q] = net[q] \o x.out /\ S'[p].current_seqnr = x.s.current_seqnr
      /\ S'[p].authentic = x.s.authentic /\ S'[p].state = x.s.state
  BY <1>2 DEF Finished, Unlatched
<1>5. PICK e \in Seq(Nat), h \in Nat : Track(p, e, h)
  BY <1>0 DEF Tracked
<1> DEFINE cur == S[p].current_seqnr
           ins == S[q].in_seqnr
           g == got[q]
           n == cur + Len(x.out)
<1>6. /\ Len(e) = sent[p] /\ Marks(e, h, cur) /\ Arrived(e, cur, ins, g)
      /\ \A i \in 1 .. Len(net[q]) : PacketOf(cf.ephemeral, e, h, cur, net[q][i])
      /\ S[p].authentic \in {"REAL_HELLO_SENT", "FULL_PK"} => h < cur
      /\ ins > h => Broken(q) \/ S[q].authentic = "FULL_PK"
  BY <1>0, <1>5 DEF Track
<1>7. /\ cur \in Nat /\ ins \in Nat /\ g \in Seq(Nat) /\ x.out \in Seq(Packet) /\ Len(x.out) \in Nat
      /\ n \in Nat /\ cur <= n /\ n = cur + Len(x.out)
  <2>1. x.out \in Seq(Packet)
    BY DEF IsCall
  <2> QED BY <1>3, <2>1
<1>8. S'[p].current_seqnr = n /\ got'[q] = g /\ c.current_seqnr = cur
  <2>1. c.current_seqnr = cur
    BY <1>2 DEF Ready
  <2>2. got'[q] = g
    BY <1>0, <1>2, <1>3
  <2> QED BY <1>1, <1>4, <2>1, <2>2 DEF Numbered
<1> HIDE DEF cur, ins, g, n
<1>9. /\ Marks(e, h, n) /\ Arrived(e, n, ins, g)
      /\ \A i \in Packet : PacketOf(cf.ephemeral, e, h, cur, i) => PacketOf(cf.ephemeral, e, h, n, i)
  <2>1. Marks(e, h, cur) /\ Arrived(e, cur, ins, g)
    BY <1>6
  <2>2. Told(e, h, cur, ins, g)
    BY <1>5, <1>7, <2>1 DEF Told
  <2>3. /\ Told(e, h, n, ins, g)
        /\ \A i \in Packet : PacketOf(cf.ephemeral, e, h, cur, i) => PacketOf(cf.ephemeral, e, h, n, i)
    BY <1>7, <2>2, MoreSent
  <2> QED BY <2>3 DEF Told
<1>e. S[p].authentic # "FULL_PK" => Len(e) = 0
  BY <1>0, <1>3, <1>6 DEF Caller
<1>c. c.authentic # "FULL_PK" => S[p].authentic # "FULL_PK"
  <2>1. /\ S[p].state = "1STSRV" => S[p].authentic = "UNAUTHENTICATED"
        /\ S[p].state # "1STSRV" => c.authentic = S[p].authentic
    BY <1>0, <1>2 DEF Shake, Ready
  <2> QED BY <2>1
\* it suffices to find a number for the key that fits the packets sent
<1>10. ASSUME NEW f \in Nat, Marks(e, f, n),
              \A i \in 1 .. Len(net[q]) : PacketOf(cf.ephemeral, e, f, n, net[q][i]),
              \A i \in 1 .. Len(x.out) : PacketOf(cf.ephemeral, e, f, n, x.out[i]),
              x.s.authentic \in {"REAL_HELLO_SENT", "FULL_PK"} => f < n,
              ins > f => Broken(q) \/ S[q].authentic = "FULL_PK"
       PROVE  Tracked(p)'
  <2>1. ASSUME NEW i \in 1 .. Len(net'[q]) PROVE PacketOf(cf.ephemeral, e, f, n, net'[q][i])
    <3>1. \/ i \in 1 .. Len(net[q]) /\ net'[q][i] = net[q][i]
          \/ i - Len(net[q]) \in 1 .. Len(x.out) /\ net'[q][i] = x.out[i - Len(net[q])]
      <4>1. i \in 1 .. Len(net[q] \o x.out)
        BY <1>4
      <4>2. \/ i \in 1 .. Len(net[q]) /\ (net[q] \o x.out)[i] = net[q][i]
            \/ i - Len(net[q]) \in 1 .. Len(x.out) /\ (net[q] \o x.out)[i] = x.out[i - Len(net[q])]
        BY <1>3, <1>7, <4>1, ConcatAt
      <4> QED BY <1>4, <4>2
    <3> QED BY <1>10, <3>1
  <2>2. Track(p, e, f)'
    BY <1>2, <1>4, <1>6, <1>8, <1>9, <1>10, <2>1 DEF Track, Broken, PacketOf, ins
  <2> QED BY <2>2 DEF Tracked
\* nothing is sent
<1>11. CASE Len(x.out) = 0
  <2>1. ASSUME NEW i \in 1 .. Len(net[q]) PROVE PacketOf(cf.ephemeral, e, h, n, net[q][i])
    <3>1. net[q][i] \in Packet
      BY <1>3, SMTT(30), SMTT(31)
    <3> QED BY <1>6, <1>9, <3>1
  <2>2. \A i \in 1 .. Len(x.out) : PacketOf(cf.ephemeral, e, h, n, x.out[i])
    BY <1>11
  <2>3. x.s.authentic \in {"REAL_HELLO_SENT", "FULL_PK"} => S[p].authentic \in {"REAL_HELLO_SENT", "FULL_PK"}
    <3>1. ~(Len(x.out) > 0)
      BY <1>11
    <3>2. x.s.authentic \in {"REAL_HELLO_SENT", "FULL_PK"} => c.authentic \in {"REAL_HELLO_SENT", "FULL_PK"}
      BY <1>1, <3>1 DEF Moved, Opening
    <3>3. /\ S[p].state = "1STSRV" => c.authentic = "SERVER_HBLOCK"
          /\ S[p].state # "1STSRV" => c.authentic = S[p].authentic
      BY <1>2 DEF Ready
    <3> QED BY <3>2, <3>3
  <2>4. x.s.authentic \in {"REAL_HELLO_SENT", "FULL_PK"} => h < n
    BY <1>6, <1>7, <2>3
  <2> QED BY <1>6, <1>9, <1>10, <2>1, <2>2, <2>4
\* a HELLO is sent: nothing before it was an event
<1>12. CASE Len(x.out) # 0
  <2>1. /\ Len(x.out) > 0 /\ c.authentic # "FULL_PK"
        /\ \/ /\ p = "srv" /\ k.msg.t = "hello" /\ k.msg.mode = "EPHEMPK"
              /\ x.s.authentic = "EPHEMERAL_PK" /\ Opening(x, "EPHEMPK")
           \/ /\ p = "srv" /\ k.msg.t = "hello" /\ k.msg.mode # "EPHEMPK" /\ Opening(x, "REALPK")
           \/ p = "cl" /\ Opening(x, "REALPK")
    BY <1>1, <1>7, <1>12 DEF Moved
  <2>2. Len(e) = 0 /\ 1 .. Len(e) = {}
    BY <1>e, <1>c, <2>1
  <2>3. ASSUME NEW f \in Nat, f >= cur, NEW i \in 1 .. Len(net[q]) PROVE PacketOf(cf.ephemeral, e, f, n, net[q][i])
    <3>1. PacketOf(cf.ephemeral, e, h, n, net[q][i]) /\ net[q][i].seq \in Nat /\ net[q][i].seq < cur
      <4>1. net[q][i] \in Packet /\ PacketOf(cf.ephemeral, e, h, cur, net[q][i])
        BY <1>3, <1>6
      <4>2. net[q][i].seq \in Nat
        BY <4>1 DEF Packet
      <4> QED BY <1>9, <4>1, <4>2 DEF PacketOf
    <3>2. net[q][i].seq # f
      BY <1>7, <2>3, <3>1
    <3> QED BY <3>1, <3>2 DEF PacketOf
  <2>4. ASSUME NEW f \in Nat, f >= cur PROVE Marks(e, f, n) /\ ~(ins > f)
    <3>1. ins <= cur
      BY <1>6 DEF Arrived
    <3> QED BY <1>7, <2>2, <2>4, <3>1 DEF Marks
  <2>5. ASSUME NEW i \in 1 .. Len(x.out)
        PROVE  /\ x.out[i].seq < n /\ x.out[i].msg.t # "event" /\ x.out[i].seq = cur + i - 1
    BY <1>1, <1>7, <1>8 DEF Numbered
  <2>6. CASE Opening(x, "EPHEMPK") /\ x.s.authentic = "EPHEMERAL_PK" /\ p = "srv"
    <3>1. ASSUME NEW i \in 1 .. Len(x.out) PROVE PacketOf(cf.ephemeral, e, n, n, x.out[i])
      <4>1. /\ x.out[i].seq < n /\ x.out[i].msg.t # "event" /\ x.out[i].seq = cur + i - 1 /\ x.out[i].seq # n
        BY <1>7, <2>5
      <4>2. x.out[i].seq = 0 => i = 1
        BY <1>7, <4>1
      <4>3. x.out[1].msg.t = "hello" /\ x.out[1].msg.mode = "EPHEMPK"
        BY <2>6 DEF Opening
      <4> QED BY <2>2, <4>1, <4>2, <4>3 DEF PacketOf
    <3>2. x.s.authentic \notin {"REAL_HELLO_SENT", "FULL_PK"}
      BY <2>6
    <3>3. n >= cur
      BY <1>7
    <3> QED BY <1>7, <1>10, <2>3, <2>4, <3>1, <3>2, <3>3
  <2>7. CASE Opening(x, "REALPK") /\ (p = "cl" \/ (k.msg.t = "hello" /\ k.msg.mode # "EPHEMPK"))
    <3>1. cf.ephemeral => cur > 0
      <4>1. CASE p = "cl"
        BY <1>0, <4>1 DEF Shake, cur
      <4>2. CASE k.msg.mode # "EPHEMPK"
        <5>1. PICK ee \in Seq(Nat), hh \in Nat : Track(q, ee, hh)
          BY <1>0 DEF Tracked
        <5>2. 1 \in 1 .. Len(net[p])
          BY <1>2, <1>3
        <5>3. PacketOf(cf.ephemeral, ee, hh, S[q].current_seqnr, k)
          BY <1>0, <1>2, <5>1, <5>2 DEF Track
        <5>4. cf.ephemeral => S[p].in_seqnr # 0
          BY <1>2, <4>2, <5>3 DEF PacketOf, Opens
        <5>5. cf.ephemeral => cur # 0
          BY <1>0, <1>2, <5>4 DEF Shake, Broken, cur
        <5> QED BY <1>7, <5>5
      <4> QED BY <2>7, <4>1, <4>2
    <3>2. ASSUME NEW i \in 1 .. Len(x.out) PROVE PacketOf(cf.ephemeral, e, cur, n, x.out[i])
      <4>1. /\ x.out[i].seq < n /\ x.out[i].msg.t # "event" /\ x.out[i].seq = cur + i - 1
        BY <2>5
      <4>2. x.out[i].seq = cur => i = 1
        BY <1>7, <4>1
      <4>3. x.out[1].msg.t = "hello" /\ x.out[1].msg.mode = "REALPK"
        BY <2>7 DEF Opening
      <4>4. cf.ephemeral => x.out[i].seq # 0
        BY <1>7, <3>1, <4>1
      <4> QED BY <2>2, <4>1, <4>2, <4>3, <4>4 DEF PacketOf
    <3>3. cur < n /\ cur >= cur
      BY <1>7, <2>1
    <3> QED BY <1>7, <1>10, <2>3, <2>4, <3>2, <3>3
  <2> QED BY <2>1, <2>6, <2>7
<1> QED BY <1>11, <1>12

\* A direction in which nothing is written and nothing is given to the caller
LEMMA SameTrack ==
  ASSUME NEW q \in Side, NEW r \in Side, r = Peer(q), Tracked(q), sent'[q] = sent[q], cf' = cf,
         S'[q].current_seqnr = S[q].current_seqnr, S'[r].in_seqnr = S[r].in_seqnr, got'[r] = got[r],
         \A i \in 1 .. Len(net'[r]) : \E j \in 1 .. Len(net[r]) : net'[r][i] = net[r][j],
         S'[q].authentic \in {"REAL_HELLO_SENT", "FULL_PK"} => S[q].authentic \in {"REAL_HELLO_SENT", "FULL_PK"},
         S[r].state = "BROKEN" \/ S[r].authentic = "FULL_PK" => S'[r].state = "BROKEN" \/ S'[r].authentic = "FULL_PK"
  PROVE  Tracked(q)'
<1>1. PICK e \in Seq(Nat), h \in Nat : Track(q, e, h)
  BY DEF Tracked
<1>2. ASSUME NEW i \in 1 .. Len(net'[r]) PROVE PacketOf(cf.ephemeral, e, h, S[q].current_seqnr, net'[r][i])
  <2>1. PICK j \in 1 .. Len(net[r]) : net'[r][i] = net[r][j]
    OBVIOUS
  <2> QED BY <1>1, <2>1 DEF Track
<1>3. Track(q, e, h)'
  BY <1>1, <1>2 DEF Track, Broken
<1> QED BY <1>3 DEF Tracked

LEMMA GarbledKeeps ==
  ASSUME OInv, NEW p \in Side, NEW k \in Packet, NEW x, IsCall(x), Garbled(p, k, x)
  PROVE  OInv'
<1> DEFINE q == Peer(p)
<1>0. /\ Types /\ Buffers(p) /\ Shake(p) /\ Caller(p) /\ Tracked(q) /\ q \in Side /\ Peer(q) = p /\ q # p
      /\ Buffers(q) /\ Shake(q) /\ Caller(q) /\ Tracked(p)
  BY Peers DEF OInv
<1>1. /\ take[p] > 0 /\ S[p].state # "BROKEN" /\ Len(net[p]) > 0
      /\ Len(x.out) = 0 /\ x.s.state \in {"BROKEN", "DESYNC"} /\ Finished(p, x)
      /\ x.s.in_seqnr = S[p].in_seqnr /\ x.s.current_seqnr = S[p].current_seqnr
      /\ x.s.authentic = IF S[p].state = "1STSRV" THEN "SERVER_HBLOCK" ELSE S[p].authentic
      /\ cf' = cf /\ phase' = phase /\ sent' = sent /\ got' = got /\ faults' = faults
  BY DEF Garbled
<1>2. /\ take[p] \in Nat /\ held[p] \in Nat /\ net[p] \in Seq(Packet) /\ net[q] \in Seq(Packet)
      /\ x.out \in Seq(Packet) /\ phase[p] \in {"auth", "serve"}
  BY <1>0 DEF Types, IsCall
<1>3. /\ S'[p].state = x.s.state /\ S'[p].authentic = x.s.authentic /\ S'[p].auth_latched = FALSE
      /\ S'[p].in_seqnr = S[p].in_seqnr /\ S'[p].current_seqnr = S[p].current_seqnr
      /\ S'[q] = S[q] /\ net'[p] = Tail(net[p]) /\ net'[q] = net[q] \o x.out
      /\ take'[q] = take[q] /\ held'[q] = held[q]
  BY <1>1 DEF Finished, Unlatched
<1>4. Types'
  <2>1. S' \in [Side -> Endpoint] /\ net' \in [Side -> Seq(Packet)] /\ take' \in [Side -> Nat] /\ held' \in [Side -> Nat]
    BY <1>1 DEF Finished
  <2> QED BY <1>0, <1>1, <2>1 DEF Types
<1>5. Buffers(p)'
  <2>1. /\ take'[p] > 0 => held'[p] = held[p]
        /\ take'[p] + held'[p] <= take[p] + held[p] - 1 \/ (take'[p] = 0 /\ held'[p] <= take[p] - 1)
    BY <1>1 DEF Finished
  <2>2. take'[p] \in Nat /\ held'[p] \in Nat
    BY <1>4 DEF Types
  <2>3. Len(net'[p]) = Len(net[p]) - 1 /\ Len(net[p]) \in Nat
    BY <1>1, <1>2, <1>3
  <2>4. take[p] + held[p] <= Len(net[p]) /\ held[p] = 0
    BY <1>0, <1>1 DEF Buffers
  <2>5. take'[p] + held'[p] <= Len(net'[p]) /\ (take'[p] > 0 => held'[p] = 0)
    BY <1>2, <2>1, <2>2, <2>3, <2>4
  <2> QED BY <1>3, <2>5 DEF Buffers
<1>6. /\ x.s.state # "1STSRV" /\ x.s.authentic \in AuthOf(p)
      /\ S[p].authentic = "FULL_PK" => x.s.authentic = "FULL_PK"
      /\ x.s.authentic \in {"POLITE_HELLO_SENT", "REAL_HELLO_SENT", "FULL_PK"} => x.s.authentic = S[p].authentic
  <2>1. CASE S[p].state = "1STSRV"
    <3>1. p = "srv" /\ S[p].authentic = "UNAUTHENTICATED" /\ x.s.authentic = "SERVER_HBLOCK"
      BY <1>0, <1>1, <2>1 DEF Shake
    <3>2. x.s.state # "1STSRV"
      BY <1>1
    <3> QED BY <3>1, <3>2 DEF AuthOf
  <2>2. CASE S[p].state # "1STSRV"
    <3>1. S[p].authentic \in AuthOf(p) /\ x.s.authentic = S[p].authentic
      BY <1>0, <1>1, <2>2 DEF Shake
    <3>2. x.s.state # "1STSRV"
      BY <1>1
    <3> QED BY <3>1, <3>2
  <2> QED BY <2>1, <2>2
<1>7. Shake(p)'
  <2>1. x.s.authentic = "POLITE_HELLO_SENT" => S[p].authentic = "POLITE_HELLO_SENT"
    BY <1>6
  <2> QED BY <1>0, <1>1, <1>3, <1>6, <2>1 DEF Shake, Broken
<1>8. Caller(p)'
  <2>1. x.s.authentic = "FULL_PK" => S[p].authentic = "FULL_PK"
    BY <1>6
  <2> QED BY <1>0, <1>1, <1>3, <1>6, <2>1 DEF Caller, Broken
<1>9. Buffers(q)' /\ Shake(q)' /\ Caller(q)'
  BY <1>0, <1>1, <1>2, <1>3, OtherSide
<1>10. Tracked(q)'
  <2>1. ASSUME NEW i \in 1 .. Len(net'[p]) PROVE \E j \in 1 .. Len(net[p]) : net'[p][i] = net[p][j]
    <3>1. i + 1 \in 1 .. Len(net[p]) /\ net'[p][i] = net[p][i + 1]
      BY <1>1, <1>2, <1>3
    <3> QED BY <3>1
  <2>2. S[p].state = "BROKEN" \/ S[p].authentic = "FULL_PK" => S'[p].state = "BROKEN" \/ S'[p].authentic = "FULL_PK"
    BY <1>1, <1>3, <1>6
  <2>3. S'[q].current_seqnr = S[q].current_seqnr /\ S'[q].authentic = S[q].authentic
    BY <1>3
  <2> HIDE DEF q
  <2> QED BY <1>0, <1>1, <1>3, <2>1, <2>2, <2>3, SameTrack
<1>11. Tracked(p)'
  <2>1. ASSUME NEW i \in 1 .. Len(net'[q]) PROVE \E j \in 1 .. Len(net[q]) : net'[q][i] = net[q][j]
    <3>1. i \in 1 .. Len(net[q] \o x.out)
      BY <1>3
    <3>2. ~(i - Len(net[q]) \in 1 .. Len(x.out))
      BY <1>1
    <3>3. i \in 1 .. Len(net[q]) /\ (net[q] \o x.out)[i] = net[q][i]
      BY <1>2, <3>1, <3>2, ConcatAt
    <3> QED BY <1>3, <3>3
  <2>2. S'[p].authentic \in {"REAL_HELLO_SENT", "FULL_PK"} => S[p].authentic \in {"REAL_HELLO_SENT", "FULL_PK"}
    BY <1>3, <1>6
  <2>3. S'[q].state = S[q].state /\ S'[q].authentic = S[q].authentic /\ S'[q].in_seqnr = S[q].in_seqnr
    BY <1>3
  <2> QED BY <1>0, <1>1, <1>3, <2>1, <2>2, <2>3, SameTrack
<1>12. \A r \in Side : r = p \/ r = q
  BY Peers
<1> QED BY <1>4, <1>5, <1>7, <1>8, <1>9, <1>10, <1>11, <1>12 DEF OInv

LEMMA TakesKeeps ==
  ASSUME OInv, NEW p \in Side, NEW k \in Packet, NEW c \in Endpoint, NEW x, IsCall(x), Takes(p, k, c, x)
  PROVE  OInv'
<1> DEFINE q == Peer(p)
<1>0. q \in Side /\ q # p /\ Types /\ Buffers(q) /\ Shake(q) /\ Caller(q) /\ \A r \in Side : r = p \/ r = q
  BY Peers DEF OInv
<1>1. Types' /\ Buffers(p)' /\ Shake(p)' /\ Caller(p)'
  BY TakesShake
<1>2. Tracked(q)' /\ Tracked(p)'
  BY TakesReceived, TakesAnswered
<1>3. /\ Finished(p, x) /\ cf' = cf /\ phase' = phase /\ sent' = sent
      /\ got' = [got EXCEPT ![p] = IF k.msg.t = "event" THEN Append(@, k.msg.val) ELSE @]
  BY DEF Takes
<1>4. got'[q] = got[q]
  <2>1. got \in [Side -> Seq(Nat)]
    BY <1>0 DEF Types
  <2> QED BY <1>0, <1>3, <2>1
<1>5. /\ S'[q] = S[q] /\ net'[q] = net[q] \o x.out /\ take'[q] = take[q] /\ held'[q] = held[q]
      /\ x.out \in Seq(Packet)
  BY <1>3 DEF Finished, IsCall
<1>6. Buffers(q)' /\ Shake(q)' /\ Caller(q)'
  BY <1>0, <1>3, <1>4, <1>5, OtherSide
<1> QED BY <1>0, <1>1, <1>2, <1>6 DEF OInv

LEMMA CarriedKeeps ==
  ASSUME OInv, NEW p \in Side, Carried(p)
  PROVE  OInv'
<1> DEFINE q == Peer(p)
<1>0. /\ Types /\ Buffers(p) /\ Shake(p) /\ Caller(p) /\ Tracked(q) /\ q \in Side /\ p = Peer(q) /\ q # p
      /\ Buffers(q) /\ Shake(q) /\ Caller(q) /\ Tracked(p) /\ \A r \in Side : r = p \/ r = q
  BY Peers DEF OInv
<1>1. /\ net' \in [Side -> Seq(Packet)] /\ net'[q] = net[q] /\ Len(net'[p]) >= take[p] + held[p]
      /\ \A i \in 1 .. Len(net'[p]) : \E j \in 1 .. Len(net[p]) : net'[p][i] = net[p][j]
      /\ faults' = faults + 1 /\ cf' = cf /\ S' = S /\ take' = take /\ held' = held /\ phase' = phase
      /\ sent' = sent /\ got' = got
  BY DEF Carried
<1>2. Types'
  <2>1. faults + 1 \in Nat
    BY <1>0, SMTT(30), SMTT(31) DEF Types
  <2> QED BY <1>0, <1>1, <2>1 DEF Types
<1>3. Buffers(p)'
  <2>1. take[p] \in Nat /\ held[p] \in Nat /\ net'[p] \in Seq(Packet)
    BY <1>0, <1>1 DEF Types
  <2>2. take[p] + held[p] <= Len(net'[p])
    BY <1>1, <2>1
  <2> QED BY <1>0, <1>1, <2>2 DEF Buffers
<1>4. Shake(p)' /\ Shake(q)' /\ Caller(p)' /\ Caller(q)' /\ Buffers(q)'
  <2> HIDE DEF q
  <2>1. Shake(p)'
    BY <1>0, <1>1 DEF Shake, Broken
  <2>2. Shake(q)'
    BY <1>0, <1>1 DEF Shake, Broken
  <2>3. Caller(p)'
    BY <1>0, <1>1 DEF Caller, Broken
  <2>4. Caller(q)'
    BY <1>0, <1>1 DEF Caller, Broken
  <2>5. Buffers(q)'
    BY <1>0, <1>1 DEF Buffers
  <2> QED BY <2>1, <2>2, <2>3, <2>4, <2>5
<1>5. Tracked(q)'
  <2> HIDE DEF q
  <2> QED BY <1>0, <1>1, SameTrack
<1>6. Tracked(p)'
  <2>1. \A i \in 1 .. Len(net'[q]) : \E j \in 1 .. Len(net[q]) : net'[q][i] = net[q][j]
    BY <1>1
  <2> QED BY <1>0, <1>1, <2>1, SameTrack
<1> QED BY <1>0, <1>2, <1>3, <1>4, <1>5, <1>6 DEF OInv

LEMMA BeginKeeps ==
  ASSUME OInv, NEW p \in Side, Unpack_Begin(p)
  PROVE  OInv'
<1> DEFINE q == Peer(p)
<1>0. /\ Types /\ Buffers(p) /\ Shake(p) /\ Caller(p) /\ Tracked(q) /\ q \in Side /\ p = Peer(q) /\ q # p
      /\ Buffers(q) /\ Shake(q) /\ Caller(q) /\ Tracked(p) /\ \A r \in Side : r = p \/ r = q
  BY Peers DEF OInv
<1>1. PICK n \in 0 .. Len(net[p]) - held[p] : take' = [take EXCEPT ![p] = held[p] + n]
  BY DEF Unpack_Begin
<1>2. /\ phase[p] = "auth" => S[p].authentic # "FULL_PK"
      /\ held' = [held EXCEPT ![p] = 0]
      /\ cf' = cf /\ S' = S /\ net' = net /\ phase' = phase /\ sent' = sent /\ got' = got /\ faults' = faults
  BY DEF Unpack_Begin
<1>3. /\ take \in [Side -> Nat] /\ held \in [Side -> Nat] /\ held[p] \in Nat /\ take[p] \in Nat
      /\ net[p] \in Seq(Packet) /\ Len(net[p]) \in Nat
  <2>1. /\ take \in [Side -> Nat] /\ held \in [Side -> Nat] /\ held[p] \in Nat /\ take[p] \in Nat
        /\ net[p] \in Seq(Packet)
    BY <1>0 DEF Types
  <2> QED BY <2>1, PacketsLen
<1>4. held[p] + n \in Nat /\ held[p] + n <= Len(net[p])
  BY <1>1, <1>3
<1>5. /\ take' \in [Side -> Nat] /\ held' \in [Side -> Nat] /\ take'[p] = held[p] + n /\ held'[p] = 0
      /\ take'[q] = take[q] /\ held'[q] = held[q]
  BY <1>0, <1>1, <1>2, <1>3, <1>4
<1>6. Types'
  BY <1>0, <1>2, <1>5 DEF Types
<1>7. Buffers(p)'
  <2>1. take'[p] + held'[p] <= Len(net[p])
    BY <1>4, <1>5
  <2> QED BY <1>0, <1>2, <1>5, <2>1 DEF Buffers
<1>8. Shake(p)' /\ Shake(q)' /\ Caller(p)' /\ Caller(q)' /\ Buffers(q)'
  <2> HIDE DEF q
  <2>1. Shake(p)'
    BY <1>0, <1>2, <1>5 DEF Shake, Broken
  <2>2. Shake(q)'
    BY <1>0, <1>2, <1>5 DEF Shake, Broken
  <2>3. Caller(p)'
    BY <1>0, <1>2, <1>5 DEF Caller, Broken
  <2>4. Caller(q)'
    BY <1>0, <1>2, <1>5 DEF Caller, Broken
  <2>5. Buffers(q)'
    BY <1>0, <1>2, <1>5 DEF Buffers
  <2> QED BY <2>1, <2>2, <2>3, <2>4, <2>5
<1>9. \A r \in Side : \A i \in 1 .. Len(net'[r]) : \E j \in 1 .. Len(net[r]) : net'[r][i] = net[r][j]
  BY <1>2
<1>10. Tracked(p)'
  BY <1>0, <1>2, <1>9, SameTrack
<1>11. Tracked(q)'
  <2> HIDE DEF q
  <2> QED BY <1>0, <1>2, <1>9, SameTrack
<1> QED BY <1>0, <1>6, <1>7, <1>8, <1>10, <1>11 DEF OInv

LEMMA AuthenticatedKeeps ==
  ASSUME OInv, NEW p \in Side, Authenticated(p)
  PROVE  OInv'
<1> DEFINE q == Peer(p)
<1>0. /\ Types /\ Buffers(p) /\ Shake(p) /\ Caller(p) /\ Tracked(q) /\ q \in Side /\ p = Peer(q) /\ q # p
      /\ Buffers(q) /\ Shake(q) /\ Caller(q) /\ Tracked(p) /\ \A r \in Side : r = p \/ r = q
  BY Peers DEF OInv
<1>1. /\ S[p].authentic = "FULL_PK" /\ phase' = [phase EXCEPT ![p] = "serve"]
      /\ cf' = cf /\ S' = S /\ net' = net /\ take' = take /\ held' = held /\ sent' = sent /\ got' = got
      /\ faults' = faults
  BY DEF Authenticated
<1>2. phase' \in [Side -> {"auth", "serve"}] /\ phase'[p] = "serve" /\ phase'[q] = phase[q]
  <2>1. phase \in [Side -> {"auth", "serve"}]
    BY <1>0 DEF Types
  <2> QED BY <1>0, <1>1, <2>1
<1>3. Types'
  BY <1>0, <1>1, <1>2 DEF Types
<1>4. Shake(p)' /\ Shake(q)' /\ Caller(q)' /\ Buffers(p)' /\ Buffers(q)'
  <2> HIDE DEF q
  <2>1. Shake(p)'
    BY <1>0, <1>1, <1>2 DEF Shake, Broken
  <2>2. Shake(q)'
    BY <1>0, <1>1, <1>2 DEF Shake, Broken
  <2>3. Caller(q)'
    BY <1>0, <1>1, <1>2 DEF Caller, Broken
  <2>4. Buffers(p)'
    BY <1>0, <1>1, <1>2 DEF Buffers
  <2>5. Buffers(q)'
    BY <1>0, <1>1, <1>2 DEF Buffers
  <2> QED BY <2>1, <2>2, <2>3, <2>4, <2>5
<1>5. Caller(p)'
  <2>1. phase'[p] # "auth"
    BY <1>2
  <2> QED BY <1>1, <1>2, <2>1 DEF Caller
<1>9. \A r \in Side : \A i \in 1 .. Len(net'[r]) : \E j \in 1 .. Len(net[r]) : net'[r][i] = net[r][j]
  BY <1>1
<1>10. Tracked(p)'
  BY <1>0, <1>1, <1>9, SameTrack
<1>11. Tracked(q)'
  <2> HIDE DEF q
  <2> QED BY <1>0, <1>1, <1>9, SameTrack
<1> QED BY <1>0, <1>3, <1>4, <1>5, <1>10, <1>11 DEF OInv

\* What an enqueued event leaves behind
LEMMA EnqueuesIs ==
  ASSUME Types, NEW p \in Side, NEW x, IsCall(x), Enqueues(p, x)
  PROVE  LET cur == S[p].current_seqnr
         IN  /\ Kept(S[p], S'[p]) /\ Len(x.out) \in {1, 2} /\ S'[p].current_seqnr = cur + Len(x.out)
             /\ x.out[1].seq = cur /\ x.out[1].msg.t = "event" /\ x.out[1].msg.val = sent[p] + 1
             /\ Len(x.out) = 2 => x.out[2].seq = cur + 1 /\ x.out[2].msg.t = "rekey"
<1> DEFINE cur == S[p].current_seqnr
           ev == Event(sent[p] + 1)
           r == Call(S[p])
<1>1. S[p] \in Endpoint /\ cur \in Nat /\ sent[p] + 1 \in Nat
  <2>1. S[p] \in Endpoint /\ sent[p] + 1 \in Nat
    BY SMTT(30), SMTT(31) DEF Types
  <2> QED BY <2>1, FieldTypes
<1>2. r.s = S[p] /\ ev.t = "event" /\ ev.val = sent[p] + 1
  BY <1>1, CallIs, EventTypes
<1>3. (Wrote(r, ev, x) \/ WroteRekey(r, ev, x)) /\ S'[p] = x.s
  BY DEF Enqueues
<1> HIDE DEF r, ev
<1>4. Sealed(r.s, ev).seq = cur /\ Sealed(r.s, ev).msg = ev
  BY <1>2 DEF Sealed
<1>5. Kept(S[p], S'[p]) /\ x.out[1] = Sealed(r.s, ev)
  BY <1>2, <1>3 DEF Wrote, WroteRekey
<1>6. x.out[1].seq = cur /\ x.out[1].msg.t = "event" /\ x.out[1].msg.val = sent[p] + 1
  BY <1>2, <1>4, <1>5
<1> HIDE DEF cur
<1>7. /\ Len(x.out) \in {1, 2} /\ S'[p].current_seqnr = cur + Len(x.out)
      /\ Len(x.out) = 2 => x.out[2].seq = cur + 1 /\ x.out[2].msg.t = "rekey"
  <2>1. CASE Wrote(r, ev, x)
    <3>1. Len(x.out) = 1 /\ S'[p].current_seqnr = cur + 1
      BY <1>2, <1>3, <2>1 DEF Wrote, cur
    <3> QED BY <3>1
  <2>2. CASE WroteRekey(r, ev, x)
    <3>1. /\ Len(x.out) = 2 /\ S'[p].current_seqnr = cur + 2
          /\ x.out[2] = [msg |-> Rekey(r.s.fresh, r.s.fresh + 2), key |-> r.s.enc, seq |-> cur + 1]
      BY <1>2, <1>3, <2>2 DEF WroteRekey, cur
    <3>2. x.out[2].seq = cur + 1 /\ x.out[2].msg.t = "rekey"
      BY <3>1 DEF Rekey
    <3> QED BY <3>1, <3>2
  <2> QED BY <1>3, <2>1, <2>2
<1> QED BY <1>5, <1>6, <1>7 DEF cur

LEMMA EnqueuesTracked ==
  ASSUME OInv, NEW p \in Side, NEW x, IsCall(x), Enqueues(p, x)
  PROVE  Tracked(p)'
<1> DEFINE q == Peer(p)
<1>0. /\ Types /\ Caller(p) /\ q \in Side /\ q # p /\ Tracked(p)
  BY Peers DEF OInv
<1>1. /\ phase[p] = "serve" /\ S'[q] = S[q] /\ net'[q] = net[q] \o x.out
      /\ sent'[p] = sent[p] + 1 /\ cf' = cf /\ got' = got
  BY DEF Enqueues
<1> DEFINE cur == S[p].current_seqnr
           ins == S[q].in_seqnr
           g == got[q]
           n == cur + Len(x.out)
           b == cf.ephemeral
<1>2. /\ Kept(S[p], S'[p]) /\ Len(x.out) \in {1, 2} /\ S'[p].current_seqnr = n
      /\ x.out[1].seq = cur /\ x.out[1].msg.t = "event" /\ x.out[1].msg.val = sent[p] + 1
      /\ Len(x.out) = 2 => x.out[2].seq = cur + 1 /\ x.out[2].msg.t = "rekey"
  BY <1>0, EnqueuesIs
<1>3. /\ cur \in Nat /\ ins \in Nat /\ g \in Seq(Nat) /\ net[q] \in Seq(Packet) /\ x.out \in Seq(Packet)
      /\ sent[p] \in Nat
  <2>1. /\ S[p] \in Endpoint /\ S[q] \in Endpoint /\ g \in Seq(Nat) /\ net[q] \in Seq(Packet)
        /\ sent[p] \in Nat
    BY <1>0 DEF Types
  <2>2. x.out \in Seq(Packet)
    BY DEF IsCall
  <2> QED BY <2>1, <2>2, FieldTypes
<1>4. PICK e \in Seq(Nat), h \in Nat : Track(p, e, h)
  BY <1>0 DEF Tracked
<1>5. /\ Len(e) = sent[p] /\ Marks(e, h, cur) /\ Arrived(e, cur, ins, g)
      /\ \A i \in 1 .. Len(net[q]) : PacketOf(b, e, h, cur, net[q][i])
      /\ S[p].authentic \in {"REAL_HELLO_SENT", "FULL_PK"} => h < cur
      /\ ins > h => Broken(q) \/ S[q].authentic = "FULL_PK"
  BY <1>0, <1>4 DEF Track
<1>6. h < cur
  BY <1>0, <1>1, <1>5 DEF Caller
<1> HIDE DEF cur, ins, g, n, b
<1>7. Told(e, h, cur, ins, g)
  BY <1>3, <1>4, <1>5 DEF Told
<1>8. PICK f : /\ Len(f) = Len(e) + 1 /\ f[Len(e) + 1] = cur /\ Told(f, h, cur + 1, ins, g)
               /\ \A k \in Packet : PacketOf(b, e, h, cur, k) => PacketOf(b, f, h, cur + 1, k)
  BY <1>6, <1>7, EventSent
<1>a. Len(x.out) \in {1, 2}
  BY <1>2
<1>9. n \in Nat /\ cur + 1 <= n /\ n = cur + Len(x.out) /\ cur + 1 \in Nat /\ cur < n /\ h # cur /\ h # cur + 1 /\ cur # 0 /\ cur + 1 # 0
  <2>1. n = cur + Len(x.out)
    BY DEF n
  <2>2. cur \in Nat /\ h \in Nat
    BY <1>3, <1>4
  <2> QED BY <1>6, <1>a, <2>1, <2>2
<1>10. /\ Told(f, h, n, ins, g)
       /\ \A k \in Packet : PacketOf(b, f, h, cur + 1, k) => PacketOf(b, f, h, n, k)
  BY <1>8, <1>9, MoreSent
<1>11. f \in Seq(Nat) /\ Marks(f, h, n) /\ Arrived(f, n, ins, g) /\ Len(f) = sent[p] + 1
  BY <1>5, <1>8, <1>10 DEF Told
<1>12. PacketOf(b, f, h, n, x.out[1])
  <2>1. x.out[1].msg.val \in 1 .. Len(f) /\ f[x.out[1].msg.val] = cur
    <3>1. sent[p] + 1 \in 1 .. Len(f)
      BY <1>3, <1>11
    <3> QED BY <1>2, <1>5, <1>8, <3>1
  <2> QED BY <1>2, <1>9, <2>1 DEF PacketOf
<1>13. Len(x.out) = 2 => PacketOf(b, f, h, n, x.out[2])
  <2> SUFFICES ASSUME Len(x.out) = 2 PROVE PacketOf(b, f, h, n, x.out[2])
    OBVIOUS
  <2>1. cur + 1 < n
    BY <1>3, <1>9
  <2>2. ASSUME NEW j \in 1 .. Len(f) PROVE f[j] # cur + 1
    <3>1. f[j] < cur + 1 /\ f[j] \in Nat
      <4>1. Marks(f, h, cur + 1) /\ f \in Seq(Nat)
        BY <1>8 DEF Told
      <4> QED BY <4>1 DEF Marks
    <3> QED BY <1>9, <3>1
  <2>3. x.out[2].msg.t # "event"
    BY <1>2
  <2> QED BY <1>2, <1>9, <2>1, <2>2, <2>3 DEF PacketOf
<1>14. ASSUME NEW i \in 1 .. Len(net'[q]) PROVE PacketOf(b, f, h, n, net'[q][i])
  <2>1. i \in 1 .. Len(net[q] \o x.out)
    BY <1>1
  <2>2. \/ i \in 1 .. Len(net[q]) /\ (net[q] \o x.out)[i] = net[q][i]
        \/ i - Len(net[q]) \in 1 .. Len(x.out) /\ (net[q] \o x.out)[i] = x.out[i - Len(net[q])]
    BY <1>3, <2>1, ConcatAt
  <2>3. CASE i \in 1 .. Len(net[q]) /\ (net[q] \o x.out)[i] = net[q][i]
    <3>1. net[q][i] \in Packet
      BY <1>3, <2>3
    <3> QED BY <1>1, <1>5, <1>8, <1>10, <2>3, <3>1
  <2>4. CASE i - Len(net[q]) \in 1 .. Len(x.out) /\ (net[q] \o x.out)[i] = x.out[i - Len(net[q])]
    <3>1. i - Len(net[q]) = 1 \/ (Len(x.out) = 2 /\ i - Len(net[q]) = 2)
      <4> DEFINE l == i - Len(net[q])
      <4>1. (Len(x.out) = 1 /\ l \in 1 .. 1) \/ (Len(x.out) = 2 /\ l \in 1 .. 2)
        BY <1>a, <2>4
      <4> HIDE DEF l
      <4>2. l \in 1 .. 1 => l = 1
        OBVIOUS
      <4>3. l \in 1 .. 2 => l = 1 \/ l = 2
        OBVIOUS
      <4> QED BY <4>1, <4>2, <4>3 DEF l
    <3> QED BY <1>1, <1>12, <1>13, <2>4, <3>1
  <2> QED BY <2>2, <2>3, <2>4
<1>15. Track(p, f, h)'
  <2>1. h < n
    BY <1>4, <1>3, <1>6, <1>9
  <2>2. Len(f) = sent'[p] /\ S'[p].current_seqnr = n /\ S'[q].in_seqnr = ins /\ got'[q] = g /\ cf'.ephemeral = b
    BY <1>1, <1>2, <1>11 DEF ins, g, b
  <2>3. ins > h => S'[q].state = "BROKEN" \/ S'[q].authentic = "FULL_PK"
    BY <1>1, <1>5 DEF Broken
  <2> QED BY <1>11, <1>14, <2>1, <2>2, <2>3 DEF Track, Broken, q
<1> QED BY <1>4, <1>11, <1>15 DEF Tracked

LEMMA EnqueuesKeeps ==
  ASSUME OInv, NEW p \in Side, NEW x, IsCall(x), Enqueues(p, x)
  PROVE  OInv'
<1> DEFINE q == Peer(p)
<1>0. /\ Types /\ Buffers(p) /\ Shake(p) /\ Caller(p) /\ Tracked(q) /\ q \in Side /\ p = Peer(q) /\ q # p
      /\ Buffers(q) /\ Shake(q) /\ Caller(q) /\ \A r \in Side : r = p \/ r = q
  BY Peers DEF OInv
<1>1. /\ phase[p] = "serve" /\ take[p] = 0 /\ S' \in [Side -> Endpoint] /\ S'[q] = S[q]
      /\ net' \in [Side -> Seq(Packet)] /\ net'[p] = net[p] /\ net'[q] = net[q] \o x.out
      /\ sent' \in [Side -> Nat] /\ sent'[q] = sent[q]
      /\ cf' = cf /\ take' = take /\ held' = held /\ phase' = phase /\ got' = got /\ faults' = faults
  BY DEF Enqueues
<1>2. /\ Kept(S[p], S'[p]) /\ Len(x.out) \in {1, 2}
      /\ S'[p].current_seqnr = S[p].current_seqnr + Len(x.out)
  BY <1>0, EnqueuesIs
<1>3. S[p].current_seqnr \in Nat /\ x.out \in Seq(Packet)
  <2>1. S[p] \in Endpoint
    BY <1>0 DEF Types
  <2> QED BY <2>1, FieldTypes DEF IsCall
<1>4. /\ S'[p].state = S[p].state /\ S'[p].authentic = S[p].authentic
      /\ S'[p].auth_latched = S[p].auth_latched /\ S'[p].in_seqnr = S[p].in_seqnr
  BY <1>2 DEF Kept
<1>5. S'[p].current_seqnr > 0 /\ S'[p].current_seqnr # 0
  <2> DEFINE cur == S[p].current_seqnr
             new == S'[p].current_seqnr
  <2>1. (new = cur + 1 \/ new = cur + 2) /\ cur \in Nat
    BY <1>2, <1>3
  <2> HIDE DEF cur, new
  <2>2. new > 0 /\ new # 0
    BY <2>1
  <2> QED BY <2>2 DEF new
<1>6. Types'
  BY <1>0, <1>1 DEF Types
<1>7. Buffers(p)'
  BY <1>0, <1>1, <1>4 DEF Buffers
<1>8. Shake(p)'
  BY <1>0, <1>1, <1>4, <1>5 DEF Shake, Broken
<1>9. Caller(p)'
  <2>1. phase'[p] # "auth"
    BY <1>1
  <2> QED BY <1>0, <1>1, <1>4, <2>1 DEF Caller
<1>10. Buffers(q)' /\ Shake(q)' /\ Caller(q)'
  <2> HIDE DEF q
  <2> QED BY <1>0, <1>1, <1>3, OtherSide
<1>11. Tracked(q)'
  <2>1. \A i \in 1 .. Len(net'[p]) : \E j \in 1 .. Len(net[p]) : net'[p][i] = net[p][j]
    BY <1>1
  <2>2. S'[q].current_seqnr = S[q].current_seqnr /\ S'[q].authentic = S[q].authentic /\ got'[p] = got[p]
    BY <1>1
  <2>3. S[p].state = "BROKEN" \/ S[p].authentic = "FULL_PK" => S'[p].state = "BROKEN" \/ S'[p].authentic = "FULL_PK"
    BY <1>4
  <2>4. /\ sent'[q] = sent[q] /\ cf' = cf /\ S'[p].in_seqnr = S[p].in_seqnr
        /\ q \in Side /\ p = Peer(q) /\ Tracked(q)
    BY <1>0, <1>1, <1>4
  <2> HIDE DEF q
  <2> QED BY <2>1, <2>2, <2>3, <2>4, SameTrack
<1>12. Tracked(p)'
  BY EnqueuesTracked
<1> QED BY <1>0, <1>6, <1>7, <1>8, <1>9, <1>10, <1>11, <1>12 DEF OInv

-----------------------------------------------------------------------------
(* the beginning *)

\* The endpoint a12_server returns
ServerStart(s) ==
  /\ s \in Endpoint /\ s.state = "1STSRV" /\ s.authentic = "UNAUTHENTICATED" /\ s.auth_latched = FALSE
  /\ s.enc = Key(Psk("srv"), 0) /\ s.dec = Key(Psk("srv"), 0) /\ s.current_seqnr = 0 /\ s.in_seqnr = 0
  /\ s.real_priv = 0 /\ s.ephem_priv = 0 /\ s.key_session = 1 /\ s.remote_pub = 0
  /\ s.own_rekey = TRUE /\ s.rekey_count = cf.rekey_bytes /\ s.fresh = 3

\* The endpoint a12_setup returns
Fresh0(p, s) ==
  /\ s.authentic = "UNAUTHENTICATED" /\ s.auth_latched = FALSE
  /\ s.state = (IF p = "srv" THEN "1STSRV" ELSE "NOPACKET")
  /\ s.enc = Key(Psk(p), 0) /\ s.dec = Key(Psk(p), 0) /\ s.current_seqnr = 0 /\ s.in_seqnr = 0
  /\ s.real_priv = 0 /\ s.ephem_priv = 0 /\ s.key_session = 0 /\ s.remote_pub = 0
  /\ s.own_rekey = (p = "srv") /\ s.rekey_count = base(p)

LEMMA a12_setupIs == ASSUME cf \in Configs, NEW p \in Side
                     PROVE  a12_setup(p) \in Endpoint /\ Fresh0(p, a12_setup(p))
<1> DEFINE ky == Key(Psk(p), NoKey)
           st == IF p = "srv" THEN "1STSRV" ELSE "NOPACKET"
           ow == p = "srv"
           fr == IF p = "srv" THEN 1 ELSE 2
           ba == base(p)
           s == [state |-> st, authentic |-> "UNAUTHENTICATED", auth_latched |-> FALSE,
                 enc |-> ky, dec |-> ky, current_seqnr |-> 0, in_seqnr |-> 0,
                 real_priv |-> NoKey, ephem_priv |-> NoKey, key_session |-> NoKey, remote_pub |-> NoKey,
                 own_rekey |-> ow, rekey_count |-> ba, fresh |-> fr]
<1>1. a12_setup(p) = s
  BY DEF a12_setup
<1>2. ky \in Keys /\ st \in States /\ fr \in Nat /\ NoKey = 0
  BY SMTT(30), SMTT(31) DEF Key, Keys, Psk, NoKey, States
<1>3. ow \in BOOLEAN
  OBVIOUS
<1>4. ba \in Nat
  BY BaseTypes
<1>5. ky = Key(Psk(p), 0)
  BY <1>2
<1> HIDE DEF ky, st, ow, fr, ba
<1>6. s \in Endpoint
  <2>1. 0 \in Nat /\ NoKey \in Nat /\ "UNAUTHENTICATED" \in Auths
    BY <1>2 DEF Auths
  <2> QED BY <1>2, <1>3, <1>4, <2>1 DEF Endpoint
<1>7. /\ s.authentic = "UNAUTHENTICATED" /\ s.auth_latched = FALSE /\ s.state = st
      /\ s.enc = ky /\ s.dec = ky /\ s.current_seqnr = 0 /\ s.in_seqnr = 0
      /\ s.real_priv = NoKey /\ s.ephem_priv = NoKey /\ s.key_session = NoKey /\ s.remote_pub = NoKey
      /\ s.own_rekey = ow /\ s.rekey_count = ba
  OBVIOUS
<1> HIDE DEF s
<1>8. Fresh0(p, s)
  BY <1>2, <1>5, <1>7 DEF Fresh0, st, ow, ba
<1> QED BY <1>1, <1>6, <1>8

LEMMA a12_serverIs == ASSUME cf \in Configs PROVE ServerStart(a12_server)
<1> DEFINE a == a12_setup("srv")
           s == a12_server
<1>1. "srv" \in Side
  BY DEF Side
<1>2. a \in Endpoint /\ Fresh0("srv", a)
  BY <1>1, a12_setupIs
<1>3. s = [a EXCEPT !.key_session = 1, !.fresh = 3]
  BY DEF a12_server
<1> HIDE DEF a, s
<1>4. s \in Endpoint
  <2>0. 1 \in Nat /\ 3 \in Nat
    OBVIOUS
  <2>1. [a EXCEPT !.key_session = 1] \in Endpoint
    BY <1>2, <2>0, FieldSets
  <2>2. [[a EXCEPT !.key_session = 1] EXCEPT !.fresh = 3] \in Endpoint
    BY <2>0, <2>1, FieldSets
  <2> QED BY <1>2, <1>3, <2>2 DEF Endpoint
<1>5. /\ s.state = a.state /\ s.authentic = a.authentic /\ s.auth_latched = a.auth_latched
      /\ s.enc = a.enc /\ s.dec = a.dec /\ s.current_seqnr = a.current_seqnr /\ s.in_seqnr = a.in_seqnr
      /\ s.real_priv = a.real_priv /\ s.ephem_priv = a.ephem_priv /\ s.key_session = 1
      /\ s.remote_pub = a.remote_pub /\ s.own_rekey = a.own_rekey /\ s.rekey_count = a.rekey_count
      /\ s.fresh = 3
  BY <1>2, <1>3 DEF Endpoint
<1>6. a.state = "1STSRV" /\ a.own_rekey = TRUE /\ base("srv") = cf.rekey_bytes
  BY <1>2 DEF Fresh0, base
<1>7. ServerStart(s)
  BY <1>2, <1>4, <1>5, <1>6 DEF ServerStart, Fresh0
<1> QED BY <1>7 DEF s

\* The client's endpoint, before and after its HELLO
ClientOf(s, a, cur) ==
  /\ s.state = "NOPACKET" /\ s.authentic = a /\ s.auth_latched = FALSE
  /\ s.enc = Key({}, 4) /\ s.dec = Key({}, 4) /\ s.current_seqnr = cur /\ s.in_seqnr = 0
  /\ s.real_priv = 2 /\ s.key_session = 0 /\ s.remote_pub = 0 /\ s.own_rekey = FALSE /\ s.rekey_count = 0
  /\ s.fresh # NoKey

\* The endpoint a12_client returns, and the HELLO it has written
ClientStart(x) ==
  /\ IsCall(x) /\ Len(x.out) = 1
  /\ cf.ephemeral =>
       /\ ClientOf(x.s, "POLITE_HELLO_SENT", 1) /\ x.s.ephem_priv = 6
       /\ x.out[1] = [msg |-> Hello("cl", "EPHEMPK", 6, 8), key |-> Key({}, 4), seq |-> 0]
  /\ ~cf.ephemeral =>
       /\ ClientOf(x.s, "REAL_HELLO_SENT", 1)
       /\ x.out[1] = [msg |-> Hello("cl", "REALPK", 2, 6), key |-> Key({}, 4), seq |-> 0]

LEMMA FirstHello ==
  ASSUME cf \in Configs, NEW r, IsCall(r), r.out = <<>>, NEW a, ClientOf(r.s, a, 0), NEW msg \in Message
  PROVE  LET x == append_out("cl", r, msg)
         IN  /\ IsCall(x) /\ Len(x.out) = 1 /\ ClientOf(x.s, a, 1) /\ x.s.ephem_priv = r.s.ephem_priv
             /\ x.out[1] = [msg |-> msg, key |-> Key({}, 4), seq |-> 0]
<1> DEFINE ky == Key({}, 4)
           x == append_out("cl", r, msg)
<1>3. /\ r.s.state = "NOPACKET" /\ r.s.authentic = a /\ r.s.auth_latched = FALSE /\ r.s.enc = ky
      /\ r.s.dec = ky /\ r.s.current_seqnr = 0 /\ r.s.in_seqnr = 0 /\ r.s.real_priv = 2
      /\ r.s.key_session = 0 /\ r.s.remote_pub = 0 /\ r.s.own_rekey = FALSE
      /\ r.s.rekey_count = 0 /\ r.s.fresh # NoKey
  BY DEF ClientOf
<1> HIDE DEF ky
<1>4. r.s.state # "BROKEN"
  BY <1>3
<1>5. IsCall(x) /\ Wrote(r, msg, x) /\ x.s.rekey_count = r.s.rekey_count
  BY <1>3, <1>4, append_outIs
<1> HIDE DEF x
<1>6. x.out[1] = [msg |-> msg, key |-> ky, seq |-> 0] /\ Len(x.out) = 1
  BY <1>3, <1>5 DEF Wrote, Sealed
<1>7. x.s.current_seqnr = 1
  <2>1. x.s.current_seqnr = 0 + 1
    BY <1>3, <1>5 DEF Wrote
  <2> QED BY <2>1
<1>8. ClientOf(x.s, a, 1) /\ x.s.ephem_priv = r.s.ephem_priv
  BY <1>3, <1>5, <1>7 DEF Wrote, Kept, ClientOf, ky
<1> QED BY <1>5, <1>6, <1>8 DEF x, ky

LEMMA a12_clientIs == ASSUME cf \in Configs PROVE ClientStart(a12_client)
<1> DEFINE z == a12_setup("cl")
           ky == Key({}, 4)
           s == [z EXCEPT !.real_priv = 2, !.fresh = 6, !.enc = ky, !.dec = ky]
           r == Call(s)
           re == [Used(r, 2) EXCEPT !.s.ephem_priv = 6, !.s.authentic = "POLITE_HELLO_SENT"]
           rr == [Used(r, 1) EXCEPT !.s.authentic = "REAL_HELLO_SENT"]
<1>0. "cl" \in Side /\ "cl" # "srv"
  BY DEF Side
<1>1. z \in Endpoint /\ Fresh0("cl", z) /\ ky \in Keys
  <2>1. ky \in Keys
    BY DEF Key, Keys
  <2> QED BY <1>0, <2>1, a12_setupIs
<1>2. a12_client = IF cf.ephemeral
                   THEN append_out("cl", [Used(r, 2) EXCEPT !.s.ephem_priv = Fresh(r), !.s.authentic = "POLITE_HELLO_SENT"],
                                   Hello("cl", "EPHEMPK", Fresh(r), Fresh(r) + 2))
                   ELSE append_out("cl", rr, Hello("cl", "REALPK", 2, Fresh(r)))
  BY DEF a12_client
<1> HIDE DEF z, ky
<1>3. s \in Endpoint
  <2>0. 2 \in Nat /\ 6 \in Nat
    OBVIOUS
  <2>1. [z EXCEPT !.real_priv = 2] \in Endpoint
    BY <1>1, <2>0, FieldSets
  <2>2. [[z EXCEPT !.real_priv = 2] EXCEPT !.fresh = 6] \in Endpoint
    BY <2>0, <2>1, FieldSets
  <2>3. [[[z EXCEPT !.real_priv = 2] EXCEPT !.fresh = 6] EXCEPT !.enc = ky] \in Endpoint
    BY <1>1, <2>2, FieldSets
  <2>4. [[[[z EXCEPT !.real_priv = 2] EXCEPT !.fresh = 6] EXCEPT !.enc = ky] EXCEPT !.dec = ky] \in Endpoint
    BY <1>1, <2>3, FieldSets
  <2> QED BY <1>1, <2>4 DEF Endpoint
<1>4. /\ s.state = z.state /\ s.authentic = z.authentic /\ s.auth_latched = z.auth_latched
      /\ s.enc = ky /\ s.dec = ky /\ s.current_seqnr = z.current_seqnr /\ s.in_seqnr = z.in_seqnr
      /\ s.real_priv = 2 /\ s.key_session = z.key_session
      /\ s.remote_pub = z.remote_pub /\ s.own_rekey = z.own_rekey /\ s.rekey_count = z.rekey_count
      /\ s.fresh = 6
  BY <1>1 DEF Endpoint
<1>5. z.state = "NOPACKET" /\ z.own_rekey = FALSE /\ base("cl") = 0
  BY <1>0, <1>1 DEF Fresh0, base
<1> HIDE DEF s
<1>f. ASSUME NEW n \in {1, 2} PROVE s.fresh # NoKey /\ s.fresh + 2 * n # NoKey
  BY <1>4, <1>f DEF NoKey
<1>6. ClientOf(s, "UNAUTHENTICATED", 0)
  <2>1. s.fresh # NoKey
    BY <1>f
  <2> QED BY <1>1, <1>4, <1>5, <2>1 DEF ClientOf, Fresh0, ky
<1>7. IsCall(r) /\ r.s = s /\ r.out = <<>>
  BY <1>3, CallIs
<1> HIDE DEF r
<1>8. Fresh(r) = 6 /\ Fresh(r) + 2 = 8
  BY <1>4, <1>7 DEF Fresh
<1>9. a12_client = IF cf.ephemeral THEN append_out("cl", re, Hello("cl", "EPHEMPK", 6, 8))
                   ELSE append_out("cl", rr, Hello("cl", "REALPK", 2, 6))
  <2>1. [Used(r, 2) EXCEPT !.s.ephem_priv = Fresh(r), !.s.authentic = "POLITE_HELLO_SENT"] = re
    BY <1>8
  <2>2. /\ Hello("cl", "EPHEMPK", Fresh(r), Fresh(r) + 2) = Hello("cl", "EPHEMPK", 6, 8)
        /\ Hello("cl", "REALPK", 2, Fresh(r)) = Hello("cl", "REALPK", 2, 6)
    BY <1>8
  <2>3. CASE cf.ephemeral
    <3>1. a12_client = append_out("cl", [Used(r, 2) EXCEPT !.s.ephem_priv = Fresh(r), !.s.authentic = "POLITE_HELLO_SENT"],
                                  Hello("cl", "EPHEMPK", Fresh(r), Fresh(r) + 2))
      BY <1>2, <2>3
    <3> HIDE DEF re
    <3>2. a12_client = append_out("cl", re, Hello("cl", "EPHEMPK", 6, 8))
      BY <2>1, <2>2, <3>1
    <3> QED BY <2>3, <3>2
  <2>4. CASE ~cf.ephemeral
    <3>1. a12_client = append_out("cl", rr, Hello("cl", "REALPK", 2, Fresh(r)))
      BY <1>2, <2>4
    <3> HIDE DEF rr
    <3>2. a12_client = append_out("cl", rr, Hello("cl", "REALPK", 2, 6))
      BY <2>2, <3>1
    <3> QED BY <2>4, <3>2
  <2> QED BY <2>3, <2>4
<1>10. /\ Hello("cl", "EPHEMPK", 6, 8) \in Message /\ Hello("cl", "REALPK", 2, 6) \in Message
       /\ "POLITE_HELLO_SENT" \in Auths /\ "REAL_HELLO_SENT" \in Auths
  <2>1. 6 \in Nat /\ 8 \in Nat /\ 2 \in Nat
    OBVIOUS
  <2>2. Hello("cl", "EPHEMPK", 6, 8) \in Message /\ Hello("cl", "REALPK", 2, 6) \in Message
    BY <1>0, <2>1, HelloTypes
  <2> QED BY <2>2 DEF Auths
<1>11. CASE cf.ephemeral
  <2> DEFINE u == Used(r, 2)
             t == [[u.s EXCEPT !.ephem_priv = 6] EXCEPT !.authentic = "POLITE_HELLO_SENT"]
             x == append_out("cl", re, Hello("cl", "EPHEMPK", 6, 8))
  <2>1. a12_client = x
    BY <1>9, <1>11
  <2>2. /\ IsCall(u) /\ u.out = r.out /\ Kept(r.s, u.s) /\ u.s.current_seqnr = r.s.current_seqnr
        /\ u.s.enc = r.s.enc /\ u.s.real_priv = r.s.real_priv
        /\ u.s.own_rekey = r.s.own_rekey /\ u.s.rekey_count = r.s.rekey_count
        /\ u.s.fresh = s.fresh + 2 * 2
    <3>1. 2 \in Nat
      OBVIOUS
    <3> QED BY <1>7, <3>1, UsedIs
  <2> HIDE DEF u, x
  <2>3. ClientOf(u.s, "UNAUTHENTICATED", 0)
    BY <1>6, <1>7, <1>f, <2>2 DEF ClientOf, Kept
  <2>4. u.s \in Endpoint /\ {"s", "out"} \subseteq DOMAIN u /\ u.out = <<>>
    BY <1>7, <2>2 DEF IsCall
  <2>5. re.s = t /\ re.out = <<>> /\ {"s", "out"} \subseteq DOMAIN re
    <3>1. re = [u EXCEPT !.s.ephem_priv = 6, !.s.authentic = "POLITE_HELLO_SENT"]
      BY DEF u
    <3> HIDE DEF re
    <3> QED BY <2>4, <3>1 DEF Endpoint
  <2>6. t \in Endpoint
    <3>0. 6 \in Nat
      OBVIOUS
    <3>1. [u.s EXCEPT !.ephem_priv = 6] \in Endpoint
      BY <2>4, <3>0, FieldSets
    <3> QED BY <1>10, <3>1, FieldSets
  <2>7. /\ t.state = u.s.state /\ t.authentic = "POLITE_HELLO_SENT" /\ t.auth_latched = u.s.auth_latched
        /\ t.enc = u.s.enc /\ t.dec = u.s.dec /\ t.current_seqnr = u.s.current_seqnr /\ t.in_seqnr = u.s.in_seqnr
        /\ t.real_priv = u.s.real_priv /\ t.key_session = u.s.key_session /\ t.ephem_priv = 6
        /\ t.remote_pub = u.s.remote_pub /\ t.own_rekey = u.s.own_rekey /\ t.rekey_count = u.s.rekey_count
        /\ t.fresh = u.s.fresh
    BY <2>4 DEF Endpoint
  <2> HIDE DEF t, re
  <2>8. ClientOf(re.s, "POLITE_HELLO_SENT", 0) /\ re.s.ephem_priv = 6
    BY <2>3, <2>5, <2>7 DEF ClientOf
  <2>9. IsCall(re)
    <3>1. re.out \in Seq(Packet)
      BY <2>5
    <3> QED BY <2>5, <2>6, <3>1 DEF IsCall
  <2>10. /\ IsCall(x) /\ Len(x.out) = 1 /\ ClientOf(x.s, "POLITE_HELLO_SENT", 1) /\ x.s.ephem_priv = 6
         /\ x.out[1] = [msg |-> Hello("cl", "EPHEMPK", 6, 8), key |-> Key({}, 4), seq |-> 0]
    BY <1>10, <2>5, <2>8, <2>9, FirstHello DEF x
  <2> QED BY <1>11, <2>1, <2>10 DEF ClientStart
<1>12. CASE ~cf.ephemeral
  <2> DEFINE u == Used(r, 1)
             t == [u.s EXCEPT !.authentic = "REAL_HELLO_SENT"]
             x == append_out("cl", rr, Hello("cl", "REALPK", 2, 6))
  <2>1. a12_client = x
    BY <1>9, <1>12
  <2>2. /\ IsCall(u) /\ u.out = r.out /\ Kept(r.s, u.s) /\ u.s.current_seqnr = r.s.current_seqnr
        /\ u.s.enc = r.s.enc /\ u.s.real_priv = r.s.real_priv
        /\ u.s.own_rekey = r.s.own_rekey /\ u.s.rekey_count = r.s.rekey_count
        /\ u.s.fresh = s.fresh + 2 * 1
    <3>1. 1 \in Nat
      OBVIOUS
    <3> QED BY <1>7, <3>1, UsedIs
  <2> HIDE DEF u, x
  <2>3. ClientOf(u.s, "UNAUTHENTICATED", 0)
    BY <1>6, <1>7, <1>f, <2>2 DEF ClientOf, Kept
  <2>4. u.s \in Endpoint /\ {"s", "out"} \subseteq DOMAIN u /\ u.out = <<>>
    BY <1>7, <2>2 DEF IsCall
  <2>5. rr.s = t /\ rr.out = <<>> /\ {"s", "out"} \subseteq DOMAIN rr
    <3>1. rr = [u EXCEPT !.s.authentic = "REAL_HELLO_SENT"]
      BY DEF u
    <3> HIDE DEF rr
    <3> QED BY <2>4, <3>1 DEF Endpoint
  <2>6. t \in Endpoint
    BY <1>10, <2>4, FieldSets
  <2>7. /\ t.state = u.s.state /\ t.authentic = "REAL_HELLO_SENT" /\ t.auth_latched = u.s.auth_latched
        /\ t.enc = u.s.enc /\ t.dec = u.s.dec /\ t.current_seqnr = u.s.current_seqnr /\ t.in_seqnr = u.s.in_seqnr
        /\ t.real_priv = u.s.real_priv /\ t.key_session = u.s.key_session
        /\ t.remote_pub = u.s.remote_pub /\ t.own_rekey = u.s.own_rekey /\ t.rekey_count = u.s.rekey_count
        /\ t.fresh = u.s.fresh
    BY <2>4 DEF Endpoint
  <2> HIDE DEF t, rr
  <2>8. ClientOf(rr.s, "REAL_HELLO_SENT", 0)
    BY <2>3, <2>5, <2>7 DEF ClientOf
  <2>9. IsCall(rr)
    <3>1. rr.out \in Seq(Packet)
      BY <2>5
    <3> QED BY <2>5, <2>6, <3>1 DEF IsCall
  <2>10. /\ IsCall(x) /\ Len(x.out) = 1 /\ ClientOf(x.s, "REAL_HELLO_SENT", 1)
         /\ x.out[1] = [msg |-> Hello("cl", "REALPK", 2, 6), key |-> Key({}, 4), seq |-> 0]
    BY <1>10, <2>5, <2>8, <2>9, FirstHello DEF x
  <2> QED BY <1>12, <2>1, <2>10 DEF ClientStart
<1> QED BY <1>11, <1>12

LEMMA InitOrder == Init => OInv
<1> SUFFICES ASSUME Init PROVE OInv
  OBVIOUS
<1> DEFINE x == a12_client
           z == a12_server
<1>0. "cl" \in Side /\ "srv" \in Side /\ "cl" # "srv" /\ Peer("cl") = "srv" /\ Peer("srv") = "cl" /\ \A p \in Side : p = "cl" \/ p = "srv"
  BY DEF Side, Peer
<1>1. /\ cf \in Configs
      /\ S = [p \in Side |-> IF p = "srv" THEN z ELSE x.s]
      /\ net = [p \in Side |-> IF p = "srv" THEN x.out ELSE <<>>]
      /\ take = [p \in Side |-> 0] /\ held = [p \in Side |-> 0] /\ phase = [p \in Side |-> "auth"]
      /\ sent = [p \in Side |-> 0] /\ got = [p \in Side |-> <<>>] /\ faults = 0
  BY DEF Init
<1>2. ServerStart(z) /\ ClientStart(x)
  BY <1>1, a12_serverIs, a12_clientIs
<1> HIDE DEF x, z
<1>3. z \in Endpoint /\ x.s \in Endpoint /\ x.out \in Seq(Packet) /\ <<>> \in Seq(Packet) /\ <<>> \in Seq(Nat) /\ Len(x.out) = 1
  <2>1. <<>> \in Seq(Packet) /\ <<>> \in Seq(Nat)
    OBVIOUS
  <2> QED BY <1>2, <2>1 DEF ServerStart, ClientStart, IsCall
<1>4. /\ S["srv"] = z /\ S["cl"] = x.s /\ net["srv"] = x.out /\ net["cl"] = <<>>
      /\ take["cl"] = 0 /\ take["srv"] = 0 /\ held["cl"] = 0 /\ held["srv"] = 0
      /\ phase["cl"] = "auth" /\ phase["srv"] = "auth" /\ sent["cl"] = 0 /\ sent["srv"] = 0
      /\ got["cl"] = <<>> /\ got["srv"] = <<>>
  BY <1>0, <1>1
<1>5. Types
  <2>1. S \in [Side -> Endpoint] /\ net \in [Side -> Seq(Packet)]
    BY <1>1, <1>3
  <2>2. take \in [Side -> Nat] /\ held \in [Side -> Nat] /\ sent \in [Side -> Nat] /\ faults \in Nat
    BY <1>1
  <2>3. phase \in [Side -> {"auth", "serve"}] /\ got \in [Side -> Seq(Nat)]
    BY <1>1, <1>3
  <2> QED BY <1>1, <2>1, <2>2, <2>3 DEF Types
<1>6. /\ z.state = "1STSRV" /\ z.authentic = "UNAUTHENTICATED" /\ z.auth_latched = FALSE
      /\ z.current_seqnr = 0 /\ z.in_seqnr = 0
  BY <1>2 DEF ServerStart
<1>7. /\ x.s.state = "NOPACKET" /\ x.s.auth_latched = FALSE /\ x.s.current_seqnr = 1 /\ x.s.in_seqnr = 0
      /\ cf.ephemeral => x.s.authentic = "POLITE_HELLO_SENT"
      /\ ~cf.ephemeral => x.s.authentic = "REAL_HELLO_SENT"
  BY <1>2 DEF ClientStart, ClientOf
<1>8. /\ x.out[1].msg.t = "hello" /\ x.out[1].seq = 0
      /\ cf.ephemeral => x.out[1].msg.mode = "EPHEMPK"
      /\ ~cf.ephemeral => x.out[1].msg.mode = "REALPK"
  <2>1. CASE cf.ephemeral
    <3>1. x.out[1] = [msg |-> Hello("cl", "EPHEMPK", 6, 8), key |-> Key({}, 4), seq |-> 0]
      BY <1>2, <2>1 DEF ClientStart
    <3> QED BY <2>1, <3>1 DEF Hello
  <2>2. CASE ~cf.ephemeral
    <3>1. x.out[1] = [msg |-> Hello("cl", "REALPK", 2, 6), key |-> Key({}, 4), seq |-> 0]
      BY <1>2, <2>2 DEF ClientStart
    <3> QED BY <2>2, <3>1 DEF Hello
  <2> QED BY <2>1, <2>2
<1>9. Buffers("cl") /\ Buffers("srv")
  <2>1. Len(net["cl"]) = 0 /\ Len(net["srv"]) = 1
    BY <1>3, <1>4
  <2>2. S["cl"].auth_latched = FALSE /\ S["srv"].auth_latched = FALSE
    BY <1>4, <1>6, <1>7
  <2> QED BY <1>4, <2>1, <2>2 DEF Buffers
<1>10. Shake("cl") /\ Shake("srv")
  <2>1. /\ S["cl"].state = "NOPACKET" /\ S["cl"].in_seqnr = 0 /\ S["cl"].current_seqnr = 1
        /\ cf.ephemeral => S["cl"].authentic = "POLITE_HELLO_SENT"
        /\ ~cf.ephemeral => S["cl"].authentic = "REAL_HELLO_SENT"
    BY <1>4, <1>7
  <2>2. /\ S["srv"].state = "1STSRV" /\ S["srv"].authentic = "UNAUTHENTICATED" /\ S["srv"].in_seqnr = 0
    BY <1>4, <1>6
  <2>3. Shake("cl")
    BY <2>1 DEF Shake, AuthOf
  <2>4. Shake("srv")
    BY <2>2 DEF Shake
  <2> QED BY <2>3, <2>4
<1>11. Caller("cl") /\ Caller("srv")
  BY <1>4 DEF Caller
<1>12. Tracked("srv")
  <2> DEFINE e == <<>>
  <2>1. Marks(e, 0, 0) /\ Arrived(e, 0, 0, e) /\ e \in Seq(Nat) /\ Len(e) = 0 /\ 0 \in Nat
    BY DEF Marks, Arrived
  <2>2. \A i \in 1 .. Len(net["cl"]) : PacketOf(cf.ephemeral, e, 0, 0, net["cl"][i])
    BY <1>4
  <2>3. ~(S["srv"].authentic \in {"REAL_HELLO_SENT", "FULL_PK"})
    BY <1>4, <1>6
  <2>4. ~(0 > 0)
    OBVIOUS
  <2>5. Track("srv", e, 0)
    BY <1>0, <1>4, <1>6, <1>7, <2>1, <2>2, <2>3, <2>4 DEF Track
  <2> QED BY <2>1, <2>5 DEF Tracked
<1>13. Tracked("cl")
  <2> DEFINE e == <<>>
  <2>1. e \in Seq(Nat) /\ Len(e) = 0 /\ 0 \in Nat /\ 1 \in Nat
    OBVIOUS
  <2>2. ASSUME NEW h \in Nat PROVE Marks(e, h, 1) /\ Arrived(e, 1, 0, e) /\ ~(0 > h)
    BY DEF Marks, Arrived
  <2>3. \A i \in 1 .. Len(net["srv"]) : i = 1
    <3>1. Len(net["srv"]) = 1
      BY <1>3, <1>4
    <3>2. \A i \in 1 .. 1 : i = 1
      OBVIOUS
    <3> QED BY <3>1, <3>2
  <2>4. CASE cf.ephemeral
    <3>1. PacketOf(cf.ephemeral, e, 1, 1, x.out[1])
      BY <1>8, <2>4 DEF PacketOf
    <3>2. \A i \in 1 .. Len(net["srv"]) : PacketOf(cf.ephemeral, e, 1, 1, net["srv"][i])
      BY <1>4, <2>3, <3>1
    <3>3. ~(S["cl"].authentic \in {"REAL_HELLO_SENT", "FULL_PK"})
      BY <1>4, <1>7, <2>4
    <3>4. Track("cl", e, 1)
      BY <1>0, <1>4, <1>6, <1>7, <2>1, <2>2, <3>2, <3>3 DEF Track
    <3> QED BY <2>1, <3>4 DEF Tracked
  <2>5. CASE ~cf.ephemeral
    <3>1. PacketOf(cf.ephemeral, e, 0, 1, x.out[1])
      BY <1>8, <2>5 DEF PacketOf
    <3>2. \A i \in 1 .. Len(net["srv"]) : PacketOf(cf.ephemeral, e, 0, 1, net["srv"][i])
      BY <1>4, <2>3, <3>1
    <3>3. 0 < 1
      OBVIOUS
    <3>4. Track("cl", e, 0)
      BY <1>0, <1>4, <1>6, <1>7, <2>1, <2>2, <3>2, <3>3 DEF Track
    <3> QED BY <2>1, <3>4 DEF Tracked
  <2> QED BY <2>4, <2>5
<1> QED BY <1>0, <1>5, <1>9, <1>10, <1>11, <1>12, <1>13 DEF OInv

LEMMA NextOrder == OInv /\ [Next]_vars => OInv'
<1> SUFFICES ASSUME OInv, [Next]_vars PROVE OInv'
  OBVIOUS
<1>1. ASSUME NEW p \in Side, Unpack_Step(p) PROVE OInv'
  <2>1. /\ Types /\ take[p] + held[p] <= Len(net[p])
        /\ S[p].state # "1STSRV" => S[p].authentic \in AuthOf(p)
        /\ S[p].state = "1STSRV" => p = "srv"
    BY <1>1 DEF OInv, Buffers, Shake
  <2>2. PICK k \in Packet, c \in Endpoint : \E x : IsCall(x) /\ Takes(p, k, c, x)
    BY <1>1, <2>1, Unpack_StepIs
  <2>3. PICK x : IsCall(x) /\ Takes(p, k, c, x)
    BY <2>2
  <2> QED BY <1>1, <2>2, <2>3, TakesKeeps
<1>2. ASSUME NEW p \in Side, Unpack_Mismatch(p) PROVE OInv'
  <2>1. Types /\ take[p] + held[p] <= Len(net[p])
    BY <1>2 DEF OInv, Buffers
  <2>2. PICK k \in Packet : \E x : IsCall(x) /\ Garbled(p, k, x)
    BY <1>2, <2>1, Unpack_MismatchIs
  <2>3. PICK x : IsCall(x) /\ Garbled(p, k, x)
    BY <2>2
  <2> QED BY <1>2, <2>2, <2>3, GarbledKeeps
<1>3. ASSUME NEW p \in Side, Channel_Enqueue(p) PROVE OInv'
  <2>1. Types
    BY DEF OInv
  <2>2. PICK x : IsCall(x) /\ Enqueues(p, x)
    BY <1>3, <2>1, Channel_EnqueueIs
  <2> QED BY <1>3, <2>2, EnqueuesKeeps
<1>4. ASSUME NEW p \in Side, Lose(p) \/ Double(p) \/ Swap(p) PROVE OInv'
  <2>1. Types
    BY DEF OInv
  <2>2. Carried(p)
    BY <1>4, <2>1, CarriedIs
  <2> QED BY <1>4, <2>2, CarriedKeeps
<1>5. ASSUME NEW p \in Side, Unpack_Begin(p) PROVE OInv'
  BY <1>5, BeginKeeps
<1>6. ASSUME NEW p \in Side, Authenticated(p) PROVE OInv'
  BY <1>6, AuthenticatedKeeps
<1>7. ASSUME UNCHANGED vars PROVE OInv'
  <2>1. /\ cf' = cf /\ S' = S /\ net' = net /\ take' = take /\ held' = held /\ phase' = phase
        /\ sent' = sent /\ got' = got /\ faults' = faults
    BY <1>7 DEF vars
  <2>2. ASSUME NEW q \in Side PROVE Tracked(q)'
    <3>1. PICK e \in Seq(Nat), h \in Nat : Track(q, e, h)
      BY DEF OInv, Tracked
    <3>2. Track(q, e, h)'
      BY <2>1, <3>1 DEF Track, Broken, PacketOf
    <3> QED BY <3>2 DEF Tracked
  <2>3. Types'
    BY <2>1 DEF OInv, Types
  <2>4. ASSUME NEW q \in Side PROVE Buffers(q)' /\ Shake(q)' /\ Caller(q)'
    <3>1. Buffers(q)'
      BY <2>1 DEF OInv, Buffers
    <3>2. Shake(q)'
      BY <2>1 DEF OInv, Shake, Broken
    <3>3. Caller(q)'
      BY <2>1 DEF OInv, Caller, Broken
    <3> QED BY <3>1, <3>2, <3>3
  <2> QED BY <2>2, <2>3, <2>4 DEF OInv
<1> QED BY <1>1, <1>2, <1>3, <1>4, <1>5, <1>6, <1>7 DEF Next, Local

\* However the two sides interleave, whatever rekeyings fall between the
\* events and whatever the carrier loses, doubles or swaps: a12_unpack gives
\* on_event the events the other side enqueued, from the first on, each once
\* and in order, and none to a caller that still waits for authentication.
THEOREM InOrderAlways == Spec => []InOrder
<1>1. OInv => InOrder
  <2> SUFFICES ASSUME OInv, NEW p \in Side
               PROVE  /\ Len(got[p]) <= sent[Peer(p)] /\ \A i \in 1 .. Len(got[p]) : got[p][i] = i
                      /\ phase[p] = "auth" => got[p] = <<>>
    BY DEF InOrder
  <2>1. Peer(p) \in Side /\ Peer(Peer(p)) = p
    BY Peers
  <2>2. PICK e \in Seq(Nat), h \in Nat : Track(Peer(p), e, h)
    BY <2>1 DEF OInv, Tracked
  <2>3. Len(e) = sent[Peer(p)] /\ Arrived(e, S[Peer(p)].current_seqnr, S[p].in_seqnr, got[p])
    BY <2>1, <2>2 DEF Track
  <2>4. Len(got[p]) <= Len(e) /\ \A i \in 1 .. Len(got[p]) : got[p][i] = i
    BY <2>3 DEF Arrived
  <2>5. phase[p] = "auth" => got[p] = <<>>
    BY DEF OInv, Caller
  <2> QED BY <2>3, <2>4, <2>5
<1> QED BY InitOrder, NextOrder, <1>1, PTL DEF Spec

-----------------------------------------------------------------------------
(* both sides are at the same keys *)

\* The packets w on the way are under key d, the one the receiver is at, and
\* so is the sender, whose key is e.
Plain(w, d, e) == e = d /\ \A i \in 1 .. Len(w) : w[i].msg.t = "event" /\ w[i].key = d

\* The j-th of them is a REKEY to pub: the receiver, whose private key is
\* priv, is at d and will be at e.
TurnAt(w, j, d, e, priv, pub) ==
  /\ w[j].msg.t = "rekey" /\ w[j].msg.pk = pub /\ e = Key({priv, pub}, w[j].msg.nonce)
  /\ \A i \in 1 .. Len(w) : /\ i # j => w[i].msg.t = "event"
                            /\ i <= j => w[i].key = d
                            /\ i > j => w[i].key = e
Turn(w, d, e, priv, pub) == \E j \in 1 .. Len(w) : TurnAt(w, j, d, e, priv, pub)

\* v is w with the packets o behind it.
Joined(w, o, v) ==
  /\ w \in Seq(Packet) /\ o \in Seq(Packet) /\ v \in Seq(Packet) /\ Len(v) = Len(w) + Len(o)
  /\ \A i \in 1 .. Len(w) : v[i] = w[i]
  /\ \A i \in 1 .. Len(o) : v[Len(w) + i] = o[i]

LEMMA JoinedIs == ASSUME NEW a \in Seq(Packet), NEW b \in Seq(Packet)
                  PROVE  /\ Joined(a, b, a \o b)
                         /\ a # <<>> => Joined(Tail(a), b, Tail(a \o b))
<1>1. Joined(a, b, a \o b)
  BY DEF Joined
<1>2. ASSUME a # <<>> PROVE Joined(Tail(a), b, Tail(a \o b))
  <2> DEFINE t == Tail(a)
             v == a \o b
             u == Tail(v)
  <2>1. /\ t \in Seq(Packet) /\ Len(t) = Len(a) - 1 /\ Len(a) \in Nat \ {0}
        /\ \A i \in 1 .. Len(t) : t[i] = a[i + 1]
    BY <1>2
  <2>2. /\ v \in Seq(Packet) /\ Len(v) = Len(a) + Len(b) /\ Len(b) \in Nat
        /\ \A i \in 1 .. Len(a) : v[i] = a[i]
        /\ \A i \in 1 .. Len(b) : v[Len(a) + i] = b[i]
    BY DEF Joined
  <2>3. u \in Seq(Packet) /\ Len(u) = Len(v) - 1 /\ \A i \in 1 .. Len(u) : u[i] = v[i + 1]
    <3>1. v # <<>>
      BY <2>1, <2>2
    <3> QED BY <2>2, <3>1, SMTT(30), SMTT(31)
  <2> HIDE DEF t, v, u
  <2>4. Len(u) = Len(t) + Len(b)
    BY <2>1, <2>2, <2>3
  <2>5. ASSUME NEW i \in 1 .. Len(t) PROVE u[i] = t[i]
    <3>1. i \in 1 .. Len(u) /\ i + 1 \in 1 .. Len(a)
      BY <2>1, <2>2, <2>3
    <3> QED BY <2>1, <2>2, <2>3, <3>1
  <2>6. ASSUME NEW i \in 1 .. Len(b) PROVE u[Len(t) + i] = b[i]
    <3>1. Len(t) + i \in 1 .. Len(u) /\ (Len(t) + i) + 1 = Len(a) + i
      BY <2>1, <2>2, <2>3, SMTT(30), SMTT(31)
    <3>2. u[Len(t) + i] = v[(Len(t) + i) + 1]
      BY <2>3, <3>1
    <3> QED BY <2>2, <3>1, <3>2
  <2> QED BY <2>1, <2>3, <2>4, <2>5, <2>6 DEF Joined, t, v, u
<1> QED BY <1>1, <1>2

\* A position of v is one of w or one of o.
LEMMA JoinedAt == ASSUME NEW w, NEW o, NEW v, Joined(w, o, v), NEW i \in 1 .. Len(v)
                  PROVE  \/ i \in 1 .. Len(w) /\ v[i] = w[i]
                         \/ i > Len(w) /\ i - Len(w) \in 1 .. Len(o) /\ v[i] = o[i - Len(w)]
<1>1. Len(w) \in Nat /\ Len(o) \in Nat /\ Len(v) = Len(w) + Len(o)
  BY DEF Joined
<1>2. CASE i <= Len(w)
  <2>1. i \in 1 .. Len(w)
    BY <1>1, <1>2
  <2> QED BY <2>1 DEF Joined
<1>3. CASE i > Len(w)
  <2>1. i - Len(w) \in 1 .. Len(o) /\ Len(w) + (i - Len(w)) = i
    BY <1>1, <1>3
  <2>2. v[Len(w) + (i - Len(w))] = o[i - Len(w)]
    BY <2>1 DEF Joined
  <2> QED BY <1>3, <2>1, <2>2
<1> QED BY <1>1, <1>2, <1>3

\* Events are sent.
LEMMA PlainJoin ==
  ASSUME NEW w, NEW o, NEW v, NEW d, NEW e, Joined(w, o, v), Plain(w, d, e),
         \A i \in 1 .. Len(o) : o[i].msg.t = "event" /\ o[i].key = e
  PROVE  Plain(v, d, e)
<1>1. ASSUME NEW i \in 1 .. Len(v) PROVE v[i].msg.t = "event" /\ v[i].key = d
  <2>1. (i \in 1 .. Len(w) /\ v[i] = w[i])
        \/ (i > Len(w) /\ i - Len(w) \in 1 .. Len(o) /\ v[i] = o[i - Len(w)])
    BY JoinedAt, ZenonT(30)
  <2> QED BY <2>1 DEF Plain
<1> QED BY <1>1 DEF Plain

LEMMA TurnJoin ==
  ASSUME NEW w, NEW o, NEW v, NEW d, NEW e, NEW priv, NEW pub, Joined(w, o, v), Turn(w, d, e, priv, pub),
         \A i \in 1 .. Len(o) : o[i].msg.t = "event" /\ o[i].key = e
  PROVE  Turn(v, d, e, priv, pub)
<1>1. PICK j \in 1 .. Len(w) : TurnAt(w, j, d, e, priv, pub)
  BY DEF Turn
<1>2. j \in 1 .. Len(v) /\ v[j] = w[j]
  BY DEF Joined
<1>3. ASSUME NEW i \in 1 .. Len(v)
      PROVE  (i # j => v[i].msg.t = "event") /\ (i <= j => v[i].key = d) /\ (i > j => v[i].key = e)
  <2>1. CASE i \in 1 .. Len(w) /\ v[i] = w[i]
    BY <1>1, <2>1 DEF TurnAt
  <2>2. CASE i > Len(w) /\ i - Len(w) \in 1 .. Len(o) /\ v[i] = o[i - Len(w)]
    <3>1. ~(i <= j)
      <4>1. Len(w) \in Nat
        BY DEF Joined
      <4> QED BY <2>2, <4>1
    <3> QED BY <2>2, <3>1
  <2>3. (i \in 1 .. Len(w) /\ v[i] = w[i])
        \/ (i > Len(w) /\ i - Len(w) \in 1 .. Len(o) /\ v[i] = o[i - Len(w)])
    BY JoinedAt, ZenonT(30)
  <2> QED BY <2>1, <2>2, <2>3
<1>4. TurnAt(v, j, d, e, priv, pub)
  BY <1>1, <1>2, <1>3 DEF TurnAt
<1> QED BY <1>2, <1>4 DEF Turn

\* An event is sent, and a REKEY behind it.
LEMMA PlainTurn ==
  ASSUME NEW w, NEW o, NEW v, NEW d, NEW e, NEW f, NEW priv, NEW pub, Joined(w, o, v), Plain(w, d, e),
         Len(o) = 2, o[1].msg.t = "event", o[1].key = e,
         o[2].msg.t = "rekey", o[2].key = e, o[2].msg.pk = pub, f = Key({priv, pub}, o[2].msg.nonce)
  PROVE  Turn(v, d, f, priv, pub)
<1> DEFINE j == Len(w) + 2
<1>1. j \in 1 .. Len(v) /\ 1 \in 1 .. Len(o) /\ 2 \in 1 .. Len(o) /\ Len(w) \in Nat /\ Len(v) = j
  BY SMTT(30), SMTT(31) DEF Joined
<1>2. v[j] = o[2]
  BY <1>1 DEF Joined
<1> HIDE DEF j
<1>3. ASSUME NEW i \in 1 .. Len(v)
      PROVE  (i # j => v[i].msg.t = "event") /\ (i <= j => v[i].key = d) /\ (i > j => v[i].key = f)
  <2>0. ~(i > j)
    BY <1>1
  <2>1. CASE i \in 1 .. Len(w)
    <3>1. v[i] = w[i]
      BY <2>1 DEF Joined
    <3> QED BY <2>0, <2>1, <3>1 DEF Plain
  <2>2. CASE i = Len(w) + 1
    <3>1. v[Len(w) + 1] = o[1]
      BY <1>1 DEF Joined
    <3> QED BY <2>0, <2>2, <3>1 DEF Plain
  <2>3. CASE i = j
    BY <1>2, <2>0, <2>3 DEF Plain
  <2> QED BY <1>1, <2>1, <2>2, <2>3 DEF j
<1>4. TurnAt(v, j, d, f, priv, pub)
  BY <1>2, <1>3 DEF TurnAt
<1> QED BY <1>1, <1>4 DEF Turn

LEMMA TailAt == ASSUME NEW w \in Seq(Packet), Len(w) > 0
                PROVE  /\ Tail(w) \in Seq(Packet) /\ Len(Tail(w)) = Len(w) - 1 /\ Len(w) \in Nat /\ w[1] \in Packet
                       /\ 1 \in 1 .. Len(w)
                       /\ \A i \in 1 .. Len(Tail(w)) : i + 1 \in 1 .. Len(w) /\ Tail(w)[i] = w[i + 1]
  OBVIOUS

\* The receiver takes an event.
LEMMA PlainTail ==
  ASSUME NEW w \in Seq(Packet), NEW d, NEW e, Len(w) > 0, Plain(w, d, e)
  PROVE  Plain(Tail(w), d, e) /\ w[1].msg.t = "event" /\ w[1].key = d
<1>1. 1 \in 1 .. Len(w) /\ \A i \in 1 .. Len(Tail(w)) : i + 1 \in 1 .. Len(w) /\ Tail(w)[i] = w[i + 1]
  BY TailAt
<1> QED BY <1>1 DEF Plain

LEMMA TurnTail ==
  ASSUME NEW w \in Seq(Packet), NEW d, NEW e, NEW priv, NEW pub, Len(w) > 0, Turn(w, d, e, priv, pub)
  PROVE  /\ w[1].key = d /\ w[1].msg.t \in {"event", "rekey"}
         /\ w[1].msg.t = "event" => Turn(Tail(w), d, e, priv, pub)
         /\ w[1].msg.t = "rekey" => /\ w[1].msg.pk = pub /\ e = Key({priv, pub}, w[1].msg.nonce)
                                    /\ Plain(Tail(w), e, e)
<1>1. PICK j \in 1 .. Len(w) : TurnAt(w, j, d, e, priv, pub)
  BY DEF Turn
<1> DEFINE t == Tail(w)
<1>2. /\ t \in Seq(Packet) /\ Len(t) = Len(w) - 1 /\ Len(w) \in Nat /\ 1 \in 1 .. Len(w)
      /\ \A i \in 1 .. Len(t) : i + 1 \in 1 .. Len(w) /\ t[i] = w[i + 1]
  BY TailAt
<1> HIDE DEF t
<1>3. w[1].key = d
  <2>1. 1 <= j
    OBVIOUS
  <2> QED BY <1>1, <1>2, <2>1 DEF TurnAt
<1>4. CASE j = 1
  <2>1. ASSUME NEW i \in 1 .. Len(t) PROVE t[i].msg.t = "event" /\ t[i].key = e
    <3>1. i + 1 # j /\ i + 1 > j
      BY <1>4
    <3> QED BY <1>1, <1>2, <3>1 DEF TurnAt
  <2>2. Plain(t, e, e)
    BY <2>1 DEF Plain
  <2>3. w[1].msg.t = "rekey" /\ w[1].msg.pk = pub /\ e = Key({priv, pub}, w[1].msg.nonce)
    BY <1>1, <1>4 DEF TurnAt
  <2> QED BY <1>3, <2>2, <2>3 DEF t
<1>5. CASE j # 1
  <2>1. j - 1 \in 1 .. Len(t) /\ (j - 1) + 1 = j
    BY <1>2, <1>5
  <2>2. t[j - 1] = w[j]
    BY <1>2, <2>1
  <2>3. ASSUME NEW i \in 1 .. Len(t)
        PROVE  /\ i # j - 1 => t[i].msg.t = "event"
               /\ i <= j - 1 => t[i].key = d
               /\ i > j - 1 => t[i].key = e
    <3>1. (i # j - 1 => i + 1 # j) /\ (i <= j - 1 => i + 1 <= j) /\ (i > j - 1 => i + 1 > j)
      OBVIOUS
    <3> QED BY <1>1, <1>2, <3>1 DEF TurnAt
  <2>4. TurnAt(t, j - 1, d, e, priv, pub)
    BY <1>1, <2>2, <2>3 DEF TurnAt
  <2>5. Turn(t, d, e, priv, pub)
    BY <2>1, <2>4 DEF Turn
  <2>6. w[1].msg.t = "event"
    BY <1>1, <1>2, <1>5 DEF TurnAt
  <2> QED BY <1>3, <2>5, <2>6 DEF t
<1> QED BY <1>4, <1>5

-----------------------------------------------------------------------------

\* The HELLO that ends the handshake is still ahead of the client: once it is
\* read the client will be at the key Opened.
Early(p) == p = "cl" /\ S[p].authentic = "REAL_HELLO_SENT"
Last == net["cl"][1].msg
Opened == Key({S["cl"].real_priv, Last.pk}, Last.nonce)

\* The packets on the way to p, the keys p is at and its public key, the
\* handshake completed.
Ways(p) == IF Early(p) THEN Tail(net[p]) ELSE net[p]
Dec(p) == IF Early(p) THEN Opened ELSE S[p].dec
Enc(p) == IF Early(p) THEN Opened ELSE S[p].enc
Pub(p) == IF S[p].real_priv = NoKey THEN S[p].key_session ELSE S[p].real_priv

\* Side p has the initiative to rekey, or it is on the way to p.
Has(p) ==
  /\ S[p].own_rekey = TRUE /\ S[Peer(p)].own_rekey = FALSE /\ S[p].remote_pub = Pub(Peer(p))
  /\ Plain(Ways(p), Dec(p), Enc(Peer(p))) /\ Plain(Ways(Peer(p)), Dec(Peer(p)), Enc(p))
Coming(p) ==
  /\ S[p].own_rekey = FALSE /\ S[Peer(p)].own_rekey = FALSE
  /\ Turn(Ways(p), Dec(p), Enc(Peer(p)), S[p].real_priv, S[Peer(p)].real_priv)
  /\ Plain(Ways(Peer(p)), Dec(Peer(p)), Enc(p))

\* k is a HELLO for p in that mode, under that key.
IsHello(k, p, mode, key) ==
  k.msg.t = "hello" /\ k.msg.mode = mode /\ k.msg.role = cf.role[Peer(p)] /\ k.key = key

\* The server may write n HELLOs before a rekeying is due.
Spare(n) == base("srv") # 0 => S["srv"].rekey_count > 2 * n

\* The one packet on the way to the server, which has not read any yet.
Fst == net["srv"][1]
Unread == S["srv"].state = "1STSRV" /\ S["srv"].enc.sec = {} /\ S["srv"].dec.sec = {} /\ Fst.key.sec = {}

\* The steps of the handshake, by the HELLO that is on the way.
EphemSent ==
  /\ S["cl"].authentic = "POLITE_HELLO_SENT" /\ Unread /\ Spare(2)
  /\ net["cl"] = <<>> /\ Len(net["srv"]) = 1
  /\ IsHello(Fst, "srv", "EPHEMPK", S["cl"].dec) /\ Fst.msg.pk = S["cl"].ephem_priv
EphemBack ==
  /\ S["cl"].authentic = "POLITE_HELLO_SENT" /\ S["srv"].authentic = "EPHEMERAL_PK" /\ Spare(1)
  /\ net["srv"] = <<>> /\ Len(net["cl"]) = 1
  /\ IsHello(net["cl"][1], "cl", "EPHEMPK", S["cl"].dec)
  /\ S["srv"].dec = Key({S["cl"].ephem_priv, Last.pk}, Last.nonce) /\ S["srv"].enc = S["srv"].dec
RealSent ==
  /\ S["cl"].authentic = "REAL_HELLO_SENT" /\ Spare(1)
  /\ net["cl"] = <<>> /\ Len(net["srv"]) = 1
  /\ IsHello(Fst, "srv", "REALPK", S["cl"].dec) /\ Fst.msg.pk = S["cl"].real_priv
  /\ \/ Unread
     \/ S["srv"].authentic = "EPHEMERAL_PK" /\ S["srv"].enc = S["cl"].dec /\ S["srv"].dec = S["cl"].dec

Shaking == /\ S["srv"].own_rekey = TRUE /\ S["cl"].own_rekey = FALSE
           /\ EphemSent \/ EphemBack \/ RealSent

\* The server has accepted the client; the client may still be to follow.
Agreed ==
  /\ S["srv"].authentic = "FULL_PK" /\ S["cl"].authentic \in {"REAL_HELLO_SENT", "FULL_PK"}
  /\ Early("cl") => /\ net["srv"] = <<>> /\ net["cl"] # <<>> /\ S["cl"].own_rekey = FALSE
                    /\ IsHello(net["cl"][1], "cl", "REALPK", S["cl"].dec)
  /\ \E p \in Side : Has(p) \/ Coming(p)

\* Side p has not given up; keys that were drawn are not the zeroed one.
Alive(p) ==
  /\ S[p].state \in {"1STSRV", "NOPACKET"} /\ S[p].fresh # NoKey
  /\ p = "cl" => S[p].real_priv # NoKey
  /\ p = "srv" /\ S[p].own_rekey = FALSE => S[p].real_priv # NoKey

\* Nothing is missing on the way to p.
InLine(p) ==
  /\ S[Peer(p)].current_seqnr = S[p].in_seqnr + Len(net[p])
  /\ \A i \in 1 .. Len(net[p]) : net[p][i].seq = S[p].in_seqnr + i - 1

KInv == ~Reason => (\A p \in Side : Alive(p) /\ InLine(p)) /\ (Shaking \/ Agreed)

\* A packet is read, packets are sent.
LEMMA LineTaken ==
  ASSUME Types, NEW p \in Side, InLine(p), Len(net[p]) > 0, net'[p] = Tail(net[p]),
         S'[p].in_seqnr = S[p].in_seqnr + 1, S'[Peer(p)].current_seqnr = S[Peer(p)].current_seqnr
  PROVE  InLine(p)'
<1> DEFINE w == net[p]
           n == S[p].in_seqnr
<1>1. w \in Seq(Packet) /\ n \in Nat
  <2>1. S[p] \in Endpoint /\ net[p] \in Seq(Packet)
    BY DEF Types
  <2> QED BY <2>1, FieldTypes
<1>2. /\ Len(Tail(w)) = Len(w) - 1 /\ Len(w) \in Nat
      /\ \A i \in 1 .. Len(Tail(w)) : i + 1 \in 1 .. Len(w) /\ Tail(w)[i] = w[i + 1]
  BY <1>1, TailAt
<1>3. S[Peer(p)].current_seqnr = n + Len(w) /\ \A i \in 1 .. Len(w) : w[i].seq = n + i - 1
  BY DEF InLine
<1> DEFINE u == Tail(w)
<1>u. /\ Len(u) = Len(w) - 1 /\ Len(w) \in Nat
      /\ \A i \in 1 .. Len(u) : i + 1 \in 1 .. Len(w) /\ u[i] = w[i + 1]
  BY <1>2
<1> HIDE DEF w, n, u
<1>4. S[Peer(p)].current_seqnr = (n + 1) + Len(u)
  BY <1>1, <1>u, <1>3, SMTT(30), SMTT(31)
<1>5. ASSUME NEW i \in 1 .. Len(u) PROVE u[i].seq = (n + 1) + i - 1
  <2>1. u[i].seq = n + (i + 1) - 1
    BY <1>u, <1>3
  <2>2. n + (i + 1) - 1 = (n + 1) + i - 1
    BY <1>1
  <2> QED BY <2>1, <2>2
<1> QED BY <1>4, <1>5 DEF InLine, w, n, u

LEMMA LineSent ==
  ASSUME Types, NEW q \in Side, InLine(q), NEW out \in Seq(Packet), net'[q] = net[q] \o out,
         S'[q].in_seqnr = S[q].in_seqnr,
         S'[Peer(q)].current_seqnr = S[Peer(q)].current_seqnr + Len(out),
         \A i \in 1 .. Len(out) : out[i].seq = S[Peer(q)].current_seqnr + i - 1
  PROVE  InLine(q)'
<1> DEFINE w == net[q]
           v == net'[q]
           n == S[q].in_seqnr
           c == S[Peer(q)].current_seqnr
<1>1. w \in Seq(Packet) /\ n \in Nat
  <2>1. S[q] \in Endpoint /\ net[q] \in Seq(Packet)
    BY DEF Types
  <2> QED BY <2>1, FieldTypes
<1>2. c = n + Len(w) /\ \A i \in 1 .. Len(w) : w[i].seq = n + i - 1
  BY DEF InLine
<1>3. Joined(w, out, v)
  <2>1. Joined(w, out, w \o out)
    BY <1>1, JoinedIs
  <2> QED BY <2>1
<1>4. Len(v) = Len(w) + Len(out) /\ Len(w) \in Nat /\ Len(out) \in Nat
  BY <1>3 DEF Joined
<1>5. S'[Peer(q)].current_seqnr = c + Len(out) /\ \A i \in 1 .. Len(out) : out[i].seq = c + i - 1
  OBVIOUS
<1> HIDE DEF w, v, n, c
<1>6. S'[Peer(q)].current_seqnr = n + Len(v)
  BY <1>1, <1>2, <1>4, <1>5, SMTT(30), SMTT(31)
<1>7. ASSUME NEW i \in 1 .. Len(v) PROVE v[i].seq = n + i - 1
  <2>1. CASE i \in 1 .. Len(w) /\ v[i] = w[i]
    BY <1>2, <2>1
  <2>2. CASE i > Len(w) /\ i - Len(w) \in 1 .. Len(out) /\ v[i] = out[i - Len(w)]
    <3>1. v[i].seq = c + (i - Len(w)) - 1
      BY <1>5, <2>2
    <3> QED BY <1>1, <1>2, <1>4, <3>1
  <2>3. (i \in 1 .. Len(w) /\ v[i] = w[i])
        \/ (i > Len(w) /\ i - Len(w) \in 1 .. Len(out) /\ v[i] = out[i - Len(w)])
    BY <1>3, JoinedAt, ZenonT(30)
  <2> QED BY <2>1, <2>2, <2>3
<1> QED BY <1>6, <1>7 DEF InLine, v, n

\* A reason to give up stays one.
LEMMA ReasonStays == ASSUME Types, cf' = cf, faults' = faults \/ faults' = faults + 1, ~Reason' PROVE ~Reason
<1>1. faults > 0 => faults' > 0
  BY DEF Types
<1> QED BY <1>1 DEF Reason, Compatible, Size

\* What the two sides have in common if there is none
LEMMA NoReason ==
  ASSUME cf \in Configs, faults \in Nat, ~Reason
  PROVE  /\ cf.samesecret /\ faults = 0
         /\ \A p \in Side : cf.known[p] /\ RoleMatch(cf.role[p], cf.role[Peer(p)])
         /\ base("srv") # 0 => base("srv") > 2 /\ (cf.ephemeral => base("srv") > 4)
<1>1. cf.samesecret /\ cf.known["cl"] /\ cf.known["srv"] /\ Compatible /\ ~(faults > 0)
  BY DEF Reason
<1>2. base("srv") # 0 => base("srv") > 2 /\ (cf.ephemeral => base("srv") > 4)
  <2>1. cf.rekey_bytes \in Nat /\ Size("hello") = 2 /\ base("srv") = cf.rekey_bytes
    BY ConfigAssumption DEF Size, base
  <2>2. cf.rekey_bytes \notin 1 .. (IF cf.ephemeral THEN 2 ELSE 1) * Size("hello")
    BY DEF Reason
  <2>3. CASE cf.ephemeral
    <3>1. cf.rekey_bytes \notin 1 .. 2 * 2
      BY <2>1, <2>2, <2>3
    <3> QED BY <2>1, <3>1
  <2>4. CASE ~cf.ephemeral
    <3>1. cf.rekey_bytes \notin 1 .. 1 * 2
      BY <2>1, <2>2, <2>4
    <3> QED BY <2>1, <2>4, <3>1
  <2> QED BY <2>3, <2>4
<1>3. ASSUME NEW p \in Side PROVE cf.known[p] /\ RoleMatch(cf.role[p], cf.role[Peer(p)])
  <2>1. cf.role["cl"] \in Roles /\ cf.role["srv"] \in Roles
    BY ConfigAssumption, Peers
  <2>2. \/ {cf.role["cl"], cf.role["srv"]} \in {{"SOURCE", "SINK"}, {"SOURCE", "DIR"}, {"SINK", "DIR"}}
        \/ "PROBE" \in {cf.role["cl"], cf.role["srv"]}
    BY <1>1 DEF Compatible
  <2> DEFINE a == cf.role["cl"]
             b == cf.role["srv"]
  <2>3. \/ a = "PROBE" \/ b = "PROBE" \/ (a = "SOURCE" /\ b = "SINK") \/ (a = "SINK" /\ b = "SOURCE")
        \/ (a = "SOURCE" /\ b = "DIR") \/ (a = "DIR" /\ b = "SOURCE") \/ (a = "SINK" /\ b = "DIR")
        \/ (a = "DIR" /\ b = "SINK")
    BY <2>2
  <2> HIDE DEF a, b
  <2>4. RoleMatch(a, b) /\ RoleMatch(b, a)
    BY <2>1, <2>3 DEF RoleMatch, Roles, a, b
  <2>5. (p = "cl" /\ Peer(p) = "srv") \/ (p = "srv" /\ Peer(p) = "cl")
    BY Peers DEF Side
  <2> QED BY <1>1, <2>4, <2>5 DEF a, b
<1>4. faults = 0
  BY <1>1
<1> QED BY <1>1, <1>2, <1>3, <1>4

\* Side p goes on, with its state and private key.
Steady(c, x) ==
  /\ x.s.state = c.state /\ x.s.fresh >= c.fresh /\ x.s.real_priv = c.real_priv
  /\ x.s.own_rekey = TRUE \/ x.s.own_rekey = c.own_rekey

\* Side p takes a packet: what holds on either side, whatever the packet is.
LEMMA TakesOn ==
  ASSUME OInv, \A s \in Side : Alive(s) /\ InLine(s), NEW p \in Side, NEW k \in Packet,
         NEW c \in Endpoint, NEW x, IsCall(x), Takes(p, k, c, x), Steady(c, x)
  PROVE  \A s \in Side : Alive(s)' /\ InLine(s)'
<1> DEFINE q == Peer(p)
<1>0. Types /\ Shake(p) /\ q \in Side /\ Peer(q) = p /\ \A s \in Side : s = p \/ s = q
  BY Peers DEF OInv
<1>1. Numbered(c, x) /\ c.state # "BROKEN" /\ c.state # "1STSRV"
  <2>1. Numbered(c, x) /\ c.state \notin {"BROKEN", "1STSRV"}
    BY <1>0, TakesMoves
  <2> QED BY <2>1
<1>2. /\ Len(net[p]) > 0 /\ Ready(S[p], k, c) /\ S'[q] = S[q] /\ Unlatched(x.s, S'[p])
      /\ net'[p] = Tail(net[p]) /\ net'[q] = net[q] \o x.out /\ x.out \in Seq(Packet)
  BY DEF Takes, Finished, IsCall
<1>3. /\ c.in_seqnr = S[p].in_seqnr + 1 /\ c.current_seqnr = S[p].current_seqnr /\ c.fresh = S[p].fresh
      /\ c.real_priv = S[p].real_priv /\ c.own_rekey = S[p].own_rekey
      /\ S[p].state = "1STSRV" => c.state = "NOPACKET"
      /\ S[p].state # "1STSRV" => c.state = S[p].state
  BY <1>2 DEF Ready
<1>4. /\ S'[p].in_seqnr = x.s.in_seqnr /\ S'[p].current_seqnr = x.s.current_seqnr
      /\ S'[p].state = x.s.state /\ S'[p].fresh = x.s.fresh /\ S'[p].real_priv = x.s.real_priv
      /\ S'[p].own_rekey = x.s.own_rekey
  BY <1>2 DEF Unlatched
<1>5. /\ x.s.in_seqnr = c.in_seqnr /\ x.s.current_seqnr = c.current_seqnr + Len(x.out)
      /\ \A i \in 1 .. Len(x.out) : x.out[i].seq = c.current_seqnr + i - 1
  BY <1>1 DEF Numbered
<1>6. InLine(p)'
  BY <1>0, <1>2, <1>3, <1>4, <1>5, LineTaken
<1>7. InLine(q)'
  BY <1>0, <1>2, <1>3, <1>4, <1>5, LineSent
<1>8. Alive(q)'
  BY <1>0, <1>2 DEF Alive
<1>9. Alive(p)'
  <2>1. Alive(p) /\ S[p].state \in {"1STSRV", "NOPACKET"} /\ S[p].fresh # NoKey
    BY DEF Alive
  <2>2. S'[p].state \in {"1STSRV", "NOPACKET"}
    BY <1>3, <1>4, <2>1, ZenonT(30) DEF Steady
  <2>3. S'[p].fresh # NoKey
    <3>1. x.s.fresh >= c.fresh /\ c.fresh \in Nat /\ x.s.fresh \in Nat
      BY FieldTypes DEF Steady, IsCall
    <3> QED BY <1>3, <1>4, <2>1, <3>1 DEF NoKey
  <2>4. S'[p].real_priv = S[p].real_priv /\ (S'[p].own_rekey = TRUE \/ S'[p].own_rekey = S[p].own_rekey)
    BY <1>3, <1>4 DEF Steady
  <2> QED BY <2>1, <2>2, <2>3, <2>4 DEF Alive
<1> QED BY <1>0, <1>6, <1>7, <1>8, <1>9

\* A HELLO that makes no rekeying due
\* The one packet of a call that answers with a HELLO.
Greeted(p, c, key, mode, pk, n, x) ==
  /\ Len(x.out) = 1 /\ x.out[1].msg.t = "hello" /\ x.out[1].msg.mode = mode
  /\ x.out[1].msg.role = cf.role[p] /\ x.out[1].msg.pk = pk /\ x.out[1].msg.nonce = n
  /\ x.out[1].key = key
  /\ Steady(c, x) /\ x.s.own_rekey = c.own_rekey
  /\ x.s.ephem_priv = c.ephem_priv /\ x.s.key_session = c.key_session

LEMMA SendsOne ==
  ASSUME NEW p, NEW c \in Endpoint, NEW key, NEW mode, NEW pk, NEW n, NEW x, IsCall(x), ~Due(p, c),
         Sends(p, c, key, Hello(p, mode, pk, n), x)
  PROVE  Greeted(p, c, key, mode, pk, n, x)
<1>1. /\ Len(x.out) = 1 /\ x.out[1] = [msg |-> Hello(p, mode, pk, n), key |-> key, seq |-> c.current_seqnr]
      /\ x.s.own_rekey = c.own_rekey /\ x.s.real_priv = c.real_priv /\ x.s.state = c.state
      /\ x.s.fresh >= c.fresh /\ x.s.ephem_priv = c.ephem_priv /\ x.s.key_session = c.key_session
  BY DEF Sends
<1>2. x.out[1].msg = Hello(p, mode, pk, n) /\ x.out[1].key = key
  BY <1>1
<1> DEFINE m == x.out[1].msg
<1>3. m.t = "hello" /\ m.mode = mode /\ m.role = cf.role[p] /\ m.pk = pk /\ m.nonce = n
  <2>1. m = Hello(p, mode, pk, n)
    BY <1>2
  <2> QED BY <2>1 DEF Hello
<1> QED BY <1>1, <1>2, <1>3 DEF Steady, Greeted

\* Nothing else was on the way.
LEMMA OnlyOne == ASSUME NEW w \in Seq(Packet), NEW v \in Seq(Packet), Len(w) = 1, Len(v) = 1
                 PROVE  Tail(w) = <<>> /\ <<>> \o v = v /\ <<>> \o <<>> = <<>> /\ w # <<>> /\ v # <<>>
                        /\ Tail(v) = <<>>
<1>0. ASSUME NEW s \in Seq(Packet), Len(s) = 0 PROVE s = <<>>
  BY <1>0
<1>1. Tail(w) = <<>> /\ Tail(v) = <<>>
  <2>1. Tail(w) \in Seq(Packet) /\ Tail(v) \in Seq(Packet)
    OBVIOUS
  <2>2. Len(Tail(w)) = 0 /\ Len(Tail(v)) = 0
    OBVIOUS
  <2> QED BY <1>0, <2>1, <2>2
<1>2. <<>> \o v = v /\ <<>> \o <<>> = <<>>
  OBVIOUS
<1>3. w # <<>> /\ v # <<>>
  OBVIOUS
<1> QED BY <1>1, <1>2, <1>3

\* The server answers the ephemeral HELLO.
LEMMA EphemSentOn ==
  ASSUME OInv, ~Reason, \A s \in Side : Alive(s) /\ InLine(s), NEW p \in Side, NEW k \in Packet,
         NEW c \in Endpoint, NEW x, IsCall(x), Takes(p, k, c, x),
         S["srv"].own_rekey = TRUE, S["cl"].own_rekey = FALSE, EphemSent
  PROVE  Steady(c, x) /\ Shaking'
<1>0. Types /\ Shake(p) /\ cf \in Configs /\ faults \in Nat
  BY DEF OInv, Types
<1>1. p = "srv" /\ Peer(p) = "cl" /\ Peer("cl") = "srv" /\ k = Fst
  <2>1. Len(net[p]) > 0 /\ k = net[p][1]
    BY DEF Takes
  <2>2. p # "cl"
    BY <2>1 DEF EphemSent
  <2> QED BY <2>1, <2>2, Peers DEF Side, Fst
<1>2. /\ Ready(S["srv"], k, c) /\ S'["cl"] = S["cl"] /\ Unlatched(x.s, S'["srv"])
      /\ net'["srv"] = Tail(net["srv"]) /\ net'["cl"] = net["cl"] \o x.out /\ x.out \in Seq(Packet)
      /\ cf' = cf
  BY <1>1 DEF Takes, Finished, IsCall
<1>3. /\ S["cl"].authentic = "POLITE_HELLO_SENT" /\ Unread /\ Spare(2) /\ net["cl"] = <<>>
      /\ Len(net["srv"]) = 1 /\ k.msg.t = "hello" /\ k.msg.mode = "EPHEMPK" /\ k.msg.role = cf.role["cl"]
      /\ k.key = S["cl"].dec /\ k.msg.pk = S["cl"].ephem_priv
  BY <1>1 DEF EphemSent, IsHello
<1>4. /\ c.authentic = "SERVER_HBLOCK" /\ c.own_rekey = TRUE /\ c.rekey_count = S["srv"].rekey_count
      /\ c.enc = Key(S["srv"].enc.sec, k.key.nonce) /\ S["srv"].enc.sec = {} /\ k.key.sec = {}
  BY <1>1, <1>2, <1>3 DEF Ready, Unread
<1>5. c.enc = S["cl"].dec
  <2>1. k.key \in Keys
    BY DEF Packet
  <2>2. k.key = Key({}, k.key.nonce)
    BY <1>4, <2>1 DEF Keys, Key
  <2> QED BY <1>3, <1>4, <2>2
<1>6. /\ base("srv") \in Nat /\ c.rekey_count \in Nat /\ Size("hello") = 2
      /\ base("srv") # 0 => c.rekey_count > 4
  <2>1. base("srv") \in Nat /\ c.rekey_count \in Nat
    BY <1>0, BaseTypes, FieldTypes
  <2>2. Size("hello") = 2
    BY DEF Size
  <2>3. base("srv") # 0 => c.rekey_count > 4
    BY <1>3, <1>4, Twice DEF Spare
  <2> QED BY <2>1, <2>2, <2>3
<1>7. ~Due("srv", c)
  BY <1>6 DEF Due
<1>8. EphemAnswer(c, k.msg, x)
  <2>1. Outcome(p, c, k.msg, x)
    <3>1. k.msg.t # "event"
      BY <1>3
    <3> QED BY <1>0, <3>1, TakesMoves
  <2>2. RoleMatch(cf.role[p], k.msg.role) /\ cf.known[p]
    BY <1>0, <1>1, <1>3, NoReason
  <2>3. c.authentic # "FULL_PK" /\ p # "cl" /\ k.msg.t # "rekey"
    BY <1>1, <1>3, <1>4
  <2> QED BY <1>3, <2>1, <2>2, <2>3 DEF Outcome
<1>9. PICK a, n \in Nat : /\ Sends("srv", c, c.enc, Hello("srv", "EPHEMPK", a, n), x)
                          /\ x.s.authentic = "EPHEMERAL_PK"
                          /\ x.s.enc = Key({a, k.msg.pk}, n) /\ x.s.dec = Key({a, k.msg.pk}, n)
  BY <1>8 DEF EphemAnswer
<1>10. /\ Len(x.out) = 1 /\ x.out[1].msg.t = "hello" /\ x.out[1].msg.mode = "EPHEMPK"
       /\ x.out[1].msg.role = cf.role["srv"] /\ x.out[1].msg.pk = a /\ x.out[1].msg.nonce = n
       /\ x.out[1].key = c.enc /\ Steady(c, x) /\ x.s.own_rekey = c.own_rekey
  <2>1. Greeted("srv", c, c.enc, "EPHEMPK", a, n, x)
    BY <1>7, <1>9, SendsOne
  <2> QED BY <2>1 DEF Greeted
<1>11. net'["srv"] = <<>> /\ net'["cl"] = x.out
  <2>1. net["srv"] \in Seq(Packet)
    BY <1>0, Peers DEF Types
  <2> QED BY <1>2, <1>3, <1>10, <2>1, OnlyOne
<1>12. /\ S'["srv"].authentic = "EPHEMERAL_PK" /\ S'["srv"].own_rekey = TRUE
       /\ S'["srv"].dec = Key({a, k.msg.pk}, n) /\ S'["srv"].enc = Key({a, k.msg.pk}, n)
       /\ S'["srv"].rekey_count = x.s.rekey_count
  BY <1>2, <1>4, <1>9, <1>10 DEF Unlatched
<1>13. Spare(1)'
  <2>1. base("srv") # 0 => x.s.rekey_count >= c.rekey_count - 2
    BY <1>6, <1>9, SMTT(30), SMTT(31) DEF Sends
  <2>2. x.s.rekey_count \in Nat
    BY FieldTypes DEF IsCall
  <2>3. base("srv") # 0 => x.s.rekey_count > 2 * 1
    BY <1>6, <2>1, <2>2
  <2> QED BY <1>2, <1>12, <2>3 DEF Spare, base
<1>14. Key({a, k.msg.pk}, n) = Key({S["cl"].ephem_priv, a}, n)
  <2>1. {a, k.msg.pk} = {S["cl"].ephem_priv, a}
    BY <1>3
  <2> QED BY <2>1
<1>15. EphemBack'
  <2> DEFINE o == net'["cl"][1]
  <2>1. /\ o.msg.t = "hello" /\ o.msg.mode = "EPHEMPK" /\ o.msg.role = cf'.role["srv"]
        /\ o.msg.pk = a /\ o.msg.nonce = n /\ o.key = S'["cl"].dec /\ Len(net'["cl"]) = 1
    BY <1>2, <1>5, <1>10, <1>11
  <2> HIDE DEF o
  <2>2. /\ o.msg.t = "hello" /\ o.msg.mode = "EPHEMPK" /\ o.msg.role = cf'.role[Peer("cl")]
        /\ o.key = S'["cl"].dec
    BY <1>1, <2>1
  <2>3. S'["srv"].dec = Key({S'["cl"].ephem_priv, o.msg.pk}, o.msg.nonce) /\ S'["srv"].enc = S'["srv"].dec
    BY <1>2, <1>12, <1>14, <2>1
  <2>4. S'["cl"].authentic = "POLITE_HELLO_SENT"
    BY <1>2, <1>3
  <2> QED BY <1>11, <1>12, <1>13, <2>1, <2>2, <2>3, <2>4 DEF EphemBack, IsHello, Last, o
<1> QED BY <1>2, <1>10, <1>12, <1>15 DEF Shaking

\* The client answers the server's ephemeral HELLO by its own key.
LEMMA EphemBackOn ==
  ASSUME OInv, ~Reason, \A s \in Side : Alive(s) /\ InLine(s), NEW p \in Side, NEW k \in Packet,
         NEW c \in Endpoint, NEW x, IsCall(x), Takes(p, k, c, x),
         S["srv"].own_rekey = TRUE, S["cl"].own_rekey = FALSE, EphemBack
  PROVE  Steady(c, x) /\ Shaking'
<1>0. Types /\ Shake(p) /\ cf \in Configs /\ faults \in Nat
  BY DEF OInv, Types
<1>1. p = "cl" /\ Peer(p) = "srv" /\ Peer("srv") = "cl" /\ k = net["cl"][1]
  <2>1. Len(net[p]) > 0 /\ k = net[p][1]
    BY DEF Takes
  <2>2. p # "srv"
    BY <2>1 DEF EphemBack
  <2> QED BY <2>1, <2>2, Peers DEF Side
<1>2. /\ Ready(S["cl"], k, c) /\ S'["srv"] = S["srv"] /\ Unlatched(x.s, S'["cl"])
      /\ net'["cl"] = Tail(net["cl"]) /\ net'["srv"] = net["srv"] \o x.out /\ x.out \in Seq(Packet)
      /\ cf' = cf
  BY <1>1 DEF Takes, Finished, IsCall
<1>3. /\ S["cl"].authentic = "POLITE_HELLO_SENT" /\ S["srv"].authentic = "EPHEMERAL_PK" /\ Spare(1)
      /\ net["srv"] = <<>> /\ Len(net["cl"]) = 1
      /\ k.msg.t = "hello" /\ k.msg.role = cf.role["srv"]
      /\ S["srv"].dec = Key({S["cl"].ephem_priv, k.msg.pk}, k.msg.nonce) /\ S["srv"].enc = S["srv"].dec
  BY <1>1 DEF EphemBack, IsHello, Last
<1>4. /\ c.authentic = "POLITE_HELLO_SENT" /\ c.own_rekey = FALSE /\ c.ephem_priv = S["cl"].ephem_priv
      /\ c.real_priv = S["cl"].real_priv
  <2>1. "cl" # "srv"
    OBVIOUS
  <2>2. S["cl"].state # "1STSRV"
    BY <1>0, <1>1, <2>1 DEF Shake
  <2> QED BY <1>2, <1>3, <2>2 DEF Ready
<1>5. ~Due("cl", c)
  BY <1>4 DEF Due
<1>6. PoliteAnswer(c, k.msg, x)
  <2>1. Outcome(p, c, k.msg, x)
    <3>1. k.msg.t # "event"
      BY <1>3
    <3> QED BY <1>0, <3>1, TakesMoves
  <2>2. RoleMatch(cf.role[p], k.msg.role) /\ cf.known[p]
    BY <1>0, <1>1, <1>3, NoReason
  <2>3. c.authentic # "FULL_PK" /\ c.authentic # "REAL_HELLO_SENT" /\ p # "srv" /\ k.msg.t # "rekey"
    BY <1>1, <1>3, <1>4
  <2> QED BY <1>3, <2>1, <2>2, <2>3, ZenonT(30) DEF Outcome
<1> DEFINE key == Key({c.ephem_priv, k.msg.pk}, k.msg.nonce)
<1>7. PICK n \in Nat : /\ Sends("cl", c, key, Hello("cl", "REALPK", c.real_priv, n), x)
                       /\ x.s.authentic = "REAL_HELLO_SENT" /\ x.s.dec = key
  BY <1>6 DEF PoliteAnswer
<1>8. key = S["srv"].dec
  BY <1>3, <1>4
<1> HIDE DEF key
<1>9. /\ Len(x.out) = 1 /\ x.out[1].msg.t = "hello" /\ x.out[1].msg.mode = "REALPK"
      /\ x.out[1].msg.role = cf.role["cl"] /\ x.out[1].msg.pk = c.real_priv
      /\ x.out[1].key = key /\ Steady(c, x) /\ x.s.own_rekey = c.own_rekey
  <2>1. PICK u : u = c.real_priv
    OBVIOUS
  <2>2. Greeted("cl", c, key, "REALPK", u, n, x)
    BY <1>5, <1>7, <2>1, SendsOne
  <2> QED BY <2>1, <2>2 DEF Greeted
<1>10. net'["cl"] = <<>> /\ net'["srv"] = x.out
  <2>1. net["cl"] \in Seq(Packet)
    BY <1>0, Peers DEF Types
  <2> QED BY <1>2, <1>3, <1>9, <2>1, OnlyOne
<1>11. /\ S'["cl"].authentic = "REAL_HELLO_SENT" /\ S'["cl"].own_rekey = FALSE /\ S'["cl"].dec = key
       /\ S'["cl"].real_priv = c.real_priv
  BY <1>2, <1>4, <1>7, <1>9 DEF Unlatched, Steady
<1>12. Spare(1)'
  BY <1>2, <1>3 DEF Spare, base
<1>13. RealSent'
  <2> DEFINE o == net'["srv"][1]
  <2>1. /\ o.msg.t = "hello" /\ o.msg.mode = "REALPK" /\ o.msg.role = cf'.role["cl"]
        /\ o.msg.pk = S'["cl"].real_priv /\ o.key = S'["cl"].dec /\ Len(net'["srv"]) = 1
    BY <1>2, <1>9, <1>10, <1>11
  <2> HIDE DEF o
  <2>2. /\ S'["srv"].authentic = "EPHEMERAL_PK" /\ S'["srv"].enc = S'["cl"].dec /\ S'["srv"].dec = S'["cl"].dec
    BY <1>2, <1>3, <1>8, <1>11
  <2>3. o.msg.role = cf'.role[Peer("srv")]
    BY <1>1, <2>1
  <2> QED BY <1>10, <1>11, <1>12, <2>1, <2>2, <2>3 DEF RealSent, IsHello, Fst, o
<1> QED BY <1>2, <1>9, <1>11, <1>13 DEF Shaking

\* The server accepts the client's key and is done.
LEMMA RealSentOn ==
  ASSUME OInv, ~Reason, \A s \in Side : Alive(s) /\ InLine(s), NEW p \in Side, NEW k \in Packet,
         NEW c \in Endpoint, NEW x, IsCall(x), Takes(p, k, c, x),
         S["srv"].own_rekey = TRUE, S["cl"].own_rekey = FALSE, RealSent
  PROVE  Steady(c, x) /\ Agreed'
<1>0. Types /\ Shake(p) /\ cf \in Configs /\ faults \in Nat
  BY DEF OInv, Types
<1>1. p = "srv" /\ Peer(p) = "cl" /\ Peer("cl") = "srv" /\ k = Fst /\ "srv" # "cl"
  <2>1. Len(net[p]) > 0 /\ k = net[p][1]
    BY DEF Takes
  <2>2. p # "cl"
    BY <2>1 DEF RealSent
  <2> QED BY <2>1, <2>2, Peers DEF Side, Fst
<1>2. /\ Ready(S["srv"], k, c) /\ S'["cl"] = S["cl"] /\ Unlatched(x.s, S'["srv"])
      /\ net'["srv"] = Tail(net["srv"]) /\ net'["cl"] = net["cl"] \o x.out /\ x.out \in Seq(Packet)
      /\ cf' = cf
  BY <1>1 DEF Takes, Finished, IsCall
<1>3. /\ S["cl"].authentic = "REAL_HELLO_SENT" /\ Spare(1) /\ net["cl"] = <<>>
      /\ Len(net["srv"]) = 1 /\ k.msg.t = "hello" /\ k.msg.mode = "REALPK" /\ k.msg.role = cf.role["cl"]
      /\ k.key = S["cl"].dec /\ k.msg.pk = S["cl"].real_priv
  BY <1>1 DEF RealSent, IsHello
<1>4. c.own_rekey = TRUE /\ c.rekey_count = S["srv"].rekey_count
  BY <1>2 DEF Ready
<1>5. c.enc = S["cl"].dec /\ c.authentic # "FULL_PK"
  <2>1. CASE Unread
    <3>1. /\ c.authentic = "SERVER_HBLOCK" /\ k.key.sec = {}
          /\ c.enc = Key({}, k.key.nonce)
      BY <1>1, <1>2, <2>1 DEF Ready, Unread
    <3>2. k.key \in Keys
      BY DEF Packet
    <3>3. k.key = Key({}, k.key.nonce)
      BY <3>1, <3>2 DEF Keys, Key
    <3>4. c.authentic # "FULL_PK"
      BY <3>1
    <3> QED BY <1>3, <3>1, <3>3, <3>4
  <2>2. CASE S["srv"].authentic = "EPHEMERAL_PK" /\ S["srv"].enc = S["cl"].dec /\ S["srv"].dec = S["cl"].dec
    <3>1. S["srv"].authentic # "UNAUTHENTICATED" /\ S["srv"].authentic # "FULL_PK"
      BY <2>2
    <3>2. S["srv"].state # "1STSRV"
      BY <1>0, <1>1, <3>1 DEF Shake
    <3> QED BY <1>2, <2>2, <3>1, <3>2 DEF Ready
  <2> QED BY <2>1, <2>2 DEF RealSent
<1>6. /\ base("srv") \in Nat /\ c.rekey_count \in Nat /\ Size("hello") = 2
      /\ base("srv") # 0 => c.rekey_count > 2
  <2>1. base("srv") \in Nat /\ c.rekey_count \in Nat
    BY <1>0, BaseTypes, FieldTypes
  <2>2. Size("hello") = 2
    BY DEF Size
  <2>3. base("srv") # 0 => c.rekey_count > 2
    BY <1>3, <1>4, Twice DEF Spare
  <2> QED BY <2>1, <2>2, <2>3
<1>7. ~Due("srv", c)
  BY <1>6 DEF Due
<1>8. RealAnswer(c, k.msg, x)
  <2>1. Outcome(p, c, k.msg, x)
    <3>1. k.msg.t # "event"
      BY <1>3
    <3> QED BY <1>0, <3>1, TakesMoves
  <2>2. RoleMatch(cf.role[p], k.msg.role) /\ cf.known[p]
    BY <1>0, <1>1, <1>3, NoReason
  <2>3. p # "cl" /\ k.msg.t # "rekey" /\ k.msg.mode # "EPHEMPK"
    BY <1>1, <1>3
  <2> QED BY <1>3, <1>5, <2>1, <2>2, <2>3 DEF Outcome
<1> DEFINE ses == c.key_session
           a == S["cl"].real_priv
<1>9. PICK n \in Nat : /\ Sends("srv", c, c.enc, Hello("srv", "REALPK", ses, n), x)
                       /\ x.s.authentic = "FULL_PK" /\ x.s.remote_pub = k.msg.pk
                       /\ x.s.enc = Key({ses, k.msg.pk}, n) /\ x.s.dec = Key({ses, k.msg.pk}, n)
  BY <1>8 DEF RealAnswer
<1> DEFINE key == Key({a, ses}, n)
<1>10. /\ Len(x.out) = 1 /\ x.out[1].msg.t = "hello" /\ x.out[1].msg.mode = "REALPK"
       /\ x.out[1].msg.role = cf.role["srv"] /\ x.out[1].msg.pk = ses /\ x.out[1].msg.nonce = n
       /\ x.out[1].key = c.enc /\ Steady(c, x) /\ x.s.own_rekey = c.own_rekey
  <2>1. PICK u, e : u = ses /\ e = c.enc
    OBVIOUS
  <2>2. Sends("srv", c, e, Hello("srv", "REALPK", u, n), x)
    BY <1>9, <2>1
  <2>3. Greeted("srv", c, e, "REALPK", u, n, x)
    BY <1>7, <2>2, SendsOne
  <2> QED BY <2>1, <2>3 DEF Greeted
<1>11. net'["srv"] = <<>> /\ net'["cl"] = x.out /\ Tail(x.out) = <<>> /\ x.out # <<>>
  <2>1. net["srv"] \in Seq(Packet)
    BY <1>0, Peers DEF Types
  <2> QED BY <1>2, <1>3, <1>10, <2>1, OnlyOne
<1>12. Key({ses, k.msg.pk}, n) = key
  <2>1. {ses, k.msg.pk} = {a, ses}
    BY <1>3
  <2> QED BY <2>1
<1>13. /\ S'["srv"].authentic = "FULL_PK" /\ S'["srv"].own_rekey = TRUE /\ S'["srv"].remote_pub = a
       /\ S'["srv"].dec = key /\ S'["srv"].enc = key
  BY <1>2, <1>3, <1>4, <1>9, <1>10, <1>12, ZenonT(30) DEF Unlatched
<1>14. Opened' = key /\ IsHello(net["cl"][1], "cl", "REALPK", S["cl"].dec)'
  <2> DEFINE o == net'["cl"][1]
  <2>1. /\ o.msg.t = "hello" /\ o.msg.mode = "REALPK" /\ o.msg.role = cf'.role["srv"]
        /\ o.msg.pk = ses /\ o.msg.nonce = n /\ o.key = S'["cl"].dec
    BY <1>2, <1>5, <1>10, <1>11
  <2> HIDE DEF o
  <2>2. Key({S'["cl"].real_priv, o.msg.pk}, o.msg.nonce) = key
    BY <1>2, <2>1
  <2>3. o.msg.role = cf'.role[Peer("cl")]
    BY <1>1, <2>1
  <2> QED BY <2>1, <2>2, <2>3 DEF Opened, Last, IsHello, o
<1> HIDE DEF key
<1>15. Early("cl")' /\ ~Early("srv")'
  BY <1>1, <1>2, <1>3 DEF Early
<1>16. /\ Ways("cl")' = <<>> /\ Dec("cl")' = key /\ Enc("cl")' = key
       /\ Ways("srv")' = <<>> /\ Dec("srv")' = key /\ Enc("srv")' = key
  BY <1>11, <1>13, <1>14, <1>15 DEF Ways, Dec, Enc
<1>17. Pub("cl")' = a
  <2>1. a # NoKey
    BY Peers DEF Alive
  <2> QED BY <1>2, <2>1 DEF Pub
<1>18. Plain(<<>>, key, key)
  BY DEF Plain
<1>19. Has("srv")'
  BY <1>1, <1>2, <1>13, <1>16, <1>17, <1>18 DEF Has
<1>20. Agreed'
  <2>1. "srv" \in Side /\ S'["cl"].authentic \in {"REAL_HELLO_SENT", "FULL_PK"}
    BY <1>2, <1>3, Peers
  <2> QED BY <1>2, <1>11, <1>13, <1>14, <1>19, <2>1 DEF Agreed
<1> QED BY <1>10, <1>20

\* The client takes the HELLO that ends the handshake: it is where it was
\* expected to be.
LEMMA EarlyOn ==
  ASSUME OInv, ~Reason, \A s \in Side : Alive(s) /\ InLine(s), NEW p \in Side, NEW k \in Packet,
         NEW c \in Endpoint, NEW x, IsCall(x), Takes(p, k, c, x), Agreed, Early(p)
  PROVE  Steady(c, x) /\ Agreed'
<1>0. /\ Types /\ Shake(p) /\ cf \in Configs /\ faults \in Nat /\ "cl" # "srv"
      /\ p = "cl" /\ Peer(p) = "srv" /\ Peer("cl") = "srv" /\ Peer("srv") = "cl"
      /\ \A s \in Side : s = "cl" \/ s = "srv"
  <2>1. Types /\ Shake(p) /\ cf \in Configs /\ faults \in Nat /\ p = "cl"
    BY DEF OInv, Types, Early
  <2>2. "cl" # "srv" /\ Peer("cl") = "srv" /\ Peer("srv") = "cl" /\ \A s \in Side : s = "cl" \/ s = "srv"
    BY DEF Peer, Side
  <2> QED BY <2>1, <2>2
<1>1. /\ Ready(S["cl"], k, c) /\ S'["srv"] = S["srv"] /\ Unlatched(x.s, S'["cl"]) /\ k = net["cl"][1]
      /\ net'["cl"] = Tail(net["cl"]) /\ net'["srv"] = net["srv"] \o x.out /\ x.out \in Seq(Packet)
      /\ cf' = cf
  BY <1>0 DEF Takes, Finished, IsCall
<1>2. /\ S["srv"].authentic = "FULL_PK" /\ S["cl"].own_rekey = FALSE
      /\ k.msg.t = "hello" /\ k.msg.role = cf.role["srv"] /\ S["cl"].authentic = "REAL_HELLO_SENT"
  BY <1>0, <1>1 DEF Agreed, IsHello, Early
<1>3. /\ c.authentic = "REAL_HELLO_SENT" /\ c.own_rekey = FALSE /\ c.real_priv = S["cl"].real_priv
      /\ c.key_session = S["cl"].key_session
  <2>1. S["cl"].state # "1STSRV"
    BY <1>0 DEF Shake
  <2> QED BY <1>1, <1>2, <2>1 DEF Ready
<1>4. ClientDone(c, k.msg, x)
  <2>1. Outcome(p, c, k.msg, x)
    <3>1. k.msg.t # "event"
      BY <1>2
    <3> QED BY <1>0, <3>1, TakesMoves
  <2>2. RoleMatch(cf.role[p], k.msg.role) /\ cf.known[p]
    BY <1>0, <1>2, NoReason
  <2>3. c.authentic # "FULL_PK" /\ c.authentic # "POLITE_HELLO_SENT" /\ k.msg.t # "rekey"
    BY <1>2, <1>3
  <2> QED BY <1>0, <1>2, <2>1, <2>2, <2>3 DEF Outcome
<1>5. Steady(c, x)
  <2>1. c.fresh \in Nat /\ x.s.fresh = c.fresh
    BY <1>4, FieldTypes DEF ClientDone
  <2>2. x.s.fresh >= c.fresh
    BY <2>1
  <2> QED BY <1>4, <2>2 DEF ClientDone, Steady
<1>6. /\ S'["cl"].authentic = "FULL_PK" /\ S'["cl"].own_rekey = FALSE
      /\ S'["cl"].real_priv = S["cl"].real_priv /\ S'["cl"].key_session = S["cl"].key_session
      /\ S'["cl"].enc = Opened /\ S'["cl"].dec = Opened
  BY <1>1, <1>3, <1>4 DEF ClientDone, Unlatched, Opened, Last
<1>7. net'["srv"] = net["srv"]
  <2>1. Len(x.out) = 0 /\ net["srv"] \in Seq(Packet)
    <3>1. Len(x.out) = 0
      BY <1>4 DEF ClientDone
    <3> QED BY <1>0, <3>1, Peers DEF Types
  <2>2. x.out = <<>>
    BY <1>1, <2>1
  <2> QED BY <1>1, <2>1, <2>2, PacketsLen
<1>8. ~Early("cl")' /\ ~Early("srv") /\ ~Early("srv")'
  <2>1. "FULL_PK" # "REAL_HELLO_SENT"
    OBVIOUS
  <2> QED BY <1>0, <1>6, <2>1 DEF Early
<1>9. /\ Ways("cl")' = Ways("cl") /\ Dec("cl")' = Dec("cl") /\ Enc("cl")' = Enc("cl") /\ Pub("cl")' = Pub("cl")
  BY <1>0, <1>1, <1>6, <1>8 DEF Ways, Dec, Enc, Pub
<1>10. /\ Ways("srv")' = Ways("srv") /\ Dec("srv")' = Dec("srv") /\ Enc("srv")' = Enc("srv")
       /\ Pub("srv")' = Pub("srv")
  BY <1>1, <1>7, <1>8 DEF Ways, Dec, Enc, Pub
<1>11. PICK s \in Side : Has(s) \/ Coming(s)
  BY DEF Agreed
<1>12. Has(s)' \/ Coming(s)'
  <2>1. CASE Has(s)
    <3>1. s = "srv"
      <4>1. s # "cl"
        BY <1>2, <2>1 DEF Has
      <4> QED BY <1>0, <4>1
    <3>2. Has("srv")'
      BY <1>0, <1>1, <1>2, <1>6, <1>9, <1>10, <2>1, <3>1, ZenonT(30) DEF Has
    <3> QED BY <3>1, <3>2
  <2>2. CASE Coming(s)
    <3>1. CASE s = "srv"
      BY <1>0, <1>1, <1>2, <1>6, <1>9, <1>10, <2>2, <3>1 DEF Coming
    <3>2. CASE s = "cl"
      BY <1>0, <1>1, <1>2, <1>6, <1>9, <1>10, <2>2, <3>2 DEF Coming
    <3> QED BY <1>0, <3>1, <3>2
  <2> QED BY <1>11, <2>1, <2>2
<1>13. S'["cl"].authentic \in {"REAL_HELLO_SENT", "FULL_PK"} /\ S'["srv"].authentic = "FULL_PK"
  BY <1>1, <1>2, <1>6
<1> QED BY <1>5, <1>8, <1>12, <1>13 DEF Agreed

\* The handshake over, side p takes an event or a REKEY.
LEMMA AgreedOn ==
  ASSUME OInv, ~Reason, \A s \in Side : Alive(s) /\ InLine(s), NEW p \in Side, NEW k \in Packet,
         NEW c \in Endpoint, NEW x, IsCall(x), Takes(p, k, c, x), Agreed, ~Early(p)
  PROVE  Steady(c, x) /\ Agreed'
<1> DEFINE q == Peer(p)
<1>0. /\ Types /\ Shake(p) /\ cf \in Configs /\ faults \in Nat /\ q \in Side /\ Peer(q) = p /\ q # p
      /\ \A s \in Side : s = p \/ s = q
  BY Peers DEF OInv, Types
<1>1. /\ Ready(S[p], k, c) /\ S'[q] = S[q] /\ Unlatched(x.s, S'[p]) /\ k = net[p][1] /\ Len(net[p]) > 0
      /\ net'[p] = Tail(net[p]) /\ net'[q] = net[q] \o x.out /\ x.out \in Seq(Packet)
      /\ k.msg.t = "event" => x = Call(c)
  BY DEF Takes, Finished, IsCall
<1>2. net[p] \in Seq(Packet) /\ net[q] \in Seq(Packet) /\ S[p] \in Endpoint /\ S[q] \in Endpoint
  BY <1>0 DEF Types
<1>3. S[p].authentic = "FULL_PK" /\ S[q].authentic = "FULL_PK" /\ ~Early(q)
  <2>1. "cl" # "srv" /\ Peer("cl") = "srv" /\ Peer("srv") = "cl" /\ (p = "cl" \/ p = "srv")
    BY DEF Peer, Side
  <2>2. CASE p = "cl"
    <3>1. S["cl"].authentic = "FULL_PK"
      BY <2>2 DEF Early, Agreed
    <3> QED BY <2>1, <2>2, <3>1 DEF Early, Agreed
  <2>3. CASE p = "srv"
    <3>1. net["srv"] # <<>>
      BY <1>1, <1>2, <2>3
    <3>2. ~Early("cl")
      BY <3>1 DEF Agreed
    <3>3. S["cl"].authentic = "FULL_PK"
      BY <3>2 DEF Early, Agreed
    <3> QED BY <2>1, <2>3, <3>2, <3>3, ZenonT(30) DEF Agreed
  <2> QED BY <2>1, <2>2, <2>3
<1>4. /\ c.authentic = "FULL_PK" /\ c.enc = S[p].enc /\ c.dec = S[p].dec /\ c.own_rekey = S[p].own_rekey
      /\ c.real_priv = S[p].real_priv /\ c.key_session = S[p].key_session /\ c.remote_pub = S[p].remote_pub
  <2>1. "FULL_PK" # "UNAUTHENTICATED"
    OBVIOUS
  <2>2. S[p].state # "1STSRV"
    BY <1>0, <1>3, <2>1 DEF Shake
  <2> QED BY <1>1, <1>3, <2>2 DEF Ready
<1>w. /\ Ways(p) = net[p] /\ Dec(p) = S[p].dec /\ Enc(p) = S[p].enc
      /\ Ways(q) = net[q] /\ Dec(q) = S[q].dec /\ Enc(q) = S[q].enc
  BY <1>3 DEF Ways, Dec, Enc
\* what is left to show
<1>5. ASSUME x.s.authentic = "FULL_PK", NEW s \in Side, Has(s)' \/ Coming(s)' PROVE Agreed'
  <2>1. S'[p].authentic = "FULL_PK" /\ S'[q].authentic = "FULL_PK"
    BY <1>1, <1>3, <1>5 DEF Unlatched
  <2>2. S'["cl"].authentic = "FULL_PK" /\ S'["srv"].authentic = "FULL_PK"
    BY <1>0, <2>1, Peers
  <2>3. "FULL_PK" # "REAL_HELLO_SENT"
    OBVIOUS
  <2>4. ~Early("cl")'
    BY <2>2, <2>3 DEF Early
  <2>5. S'["cl"].authentic \in {"REAL_HELLO_SENT", "FULL_PK"}
    BY <2>2
  <2> QED BY <1>5, <2>2, <2>4, <2>5 DEF Agreed
<1>6. ASSUME x.s.authentic = "FULL_PK", x.out = <<>>
      PROVE  /\ Ways(p)' = Tail(net[p]) /\ Dec(p)' = x.s.dec /\ Enc(p)' = x.s.enc
             /\ Ways(q)' = net[q] /\ Dec(q)' = S[q].dec /\ Enc(q)' = S[q].enc
  <2>1. "FULL_PK" # "REAL_HELLO_SENT"
    OBVIOUS
  <2>2. ~Early(p)' /\ ~Early(q)'
    BY <1>1, <1>3, <1>6, <2>1 DEF Unlatched, Early
  <2>3. net'[q] = net[q]
    BY <1>1, <1>2, <1>6
  <2> QED BY <1>1, <2>2, <2>3 DEF Ways, Dec, Enc, Unlatched
<1>7. CASE k.msg.t = "event"
  <2>1. x.s = c /\ x.out = <<>> /\ x.s.authentic = "FULL_PK"
    BY <1>1, <1>4, <1>7, CallIs
  <2>2. Steady(c, x)
    <3>1. c.fresh \in Nat
      BY FieldTypes
    <3>2. c.fresh >= c.fresh
      BY <3>1
    <3> QED BY <2>1, <3>2 DEF Steady
  <2>3. /\ Ways(p)' = Tail(net[p]) /\ Dec(p)' = Dec(p) /\ Enc(p)' = Enc(p)
        /\ Ways(q)' = Ways(q) /\ Dec(q)' = Dec(q) /\ Enc(q)' = Enc(q)
    BY <1>4, <1>6, <1>w, <2>1
  <2>4. /\ S'[p].own_rekey = S[p].own_rekey /\ S'[p].real_priv = S[p].real_priv
        /\ S'[p].key_session = S[p].key_session /\ S'[p].remote_pub = S[p].remote_pub
    BY <1>1, <1>4, <2>1 DEF Unlatched
  <2>5. Pub(p)' = Pub(p) /\ Pub(q)' = Pub(q)
    BY <1>1, <2>4 DEF Pub
  <2>6. Plain(Ways(p), Dec(p), Enc(q)) => Plain(Ways(p)', Dec(p)', Enc(q)')
    <3>1. ASSUME NEW d, NEW e, Plain(net[p], d, e) PROVE Plain(Tail(net[p]), d, e)
      BY <1>1, <1>2, <3>1, PlainTail
    <3> QED BY <1>w, <2>3, <3>1
  <2>7. PICK s \in Side : Has(s) \/ Coming(s)
    BY DEF Agreed
  <2>8. CASE Has(s)
    <3>1. CASE s = p
      <4>1. Has(p)'
        BY <1>0, <1>1, <2>3, <2>4, <2>5, <2>6, <2>8, <3>1 DEF Has
      <4> QED BY <1>5, <2>1, <2>2, <4>1
    <3>2. CASE s = q
      <4>1. Has(q)'
        BY <1>0, <1>1, <2>3, <2>4, <2>5, <2>6, <2>8, <3>2 DEF Has
      <4> QED BY <1>0, <1>5, <2>1, <2>2, <4>1
    <3> QED BY <1>0, <3>1, <3>2
  <2>9. CASE Coming(s)
    <3>1. CASE s = p
      <4>1. Turn(net[p], Dec(p), Enc(q), S[p].real_priv, S[q].real_priv)
        BY <1>w, <2>9, <3>1 DEF Coming
      <4>2. Turn(Tail(net[p]), Dec(p), Enc(q), S[p].real_priv, S[q].real_priv)
        BY <1>1, <1>2, <1>7, <4>1, TurnTail
      <4>3. Coming(p)'
        BY <1>0, <1>1, <2>3, <2>4, <2>9, <3>1, <4>2 DEF Coming
      <4> QED BY <1>5, <2>1, <2>2, <4>3
    <3>2. CASE s = q
      <4>1. Coming(q)'
        BY <1>0, <1>1, <2>3, <2>4, <2>6, <2>9, <3>2 DEF Coming
      <4> QED BY <1>0, <1>5, <2>1, <2>2, <4>1
    <3> QED BY <1>0, <3>1, <3>2
  <2> QED BY <2>7, <2>8, <2>9
<1>8. CASE k.msg.t # "event"
  <2>1. Coming(p)
    <3>1. PICK s \in Side : Has(s) \/ Coming(s)
      BY DEF Agreed
    <3>2. ASSUME Plain(Ways(p), Dec(p), Enc(q)) PROVE FALSE
      BY <1>1, <1>2, <1>8, <1>w, <3>2, PlainTail, ZenonT(30)
    <3>3. ~Has(s)
      BY <1>0, <3>2 DEF Has
    <3>4. ~Coming(q)
      BY <1>0, <3>2 DEF Coming
    <3> QED BY <1>0, <3>1, <3>3, <3>4
  <2>2. /\ S[p].own_rekey = FALSE /\ S[q].own_rekey = FALSE /\ Plain(net[q], S[q].dec, S[p].enc)
        /\ Turn(net[p], S[p].dec, S[q].enc, S[p].real_priv, S[q].real_priv)
    BY <1>w, <2>1 DEF Coming
  <2>3. /\ k.msg.t = "rekey" /\ k.msg.pk = S[q].real_priv
        /\ S[q].enc = Key({S[p].real_priv, S[q].real_priv}, k.msg.nonce)
        /\ Plain(Tail(net[p]), S[q].enc, S[q].enc)
    <3> DEFINE w == net[p]
               e == S[q].enc
               a == S[p].real_priv
               b == S[q].real_priv
    <3>1. w \in Seq(Packet) /\ Len(w) > 0 /\ Turn(w, S[p].dec, e, a, b) /\ k = w[1]
      BY <1>1, <1>2, <2>2
    <3> HIDE DEF w, e, a, b
    <3>2. /\ w[1].msg.t \in {"event", "rekey"}
          /\ w[1].msg.t = "rekey" => w[1].msg.pk = b /\ e = Key({a, b}, w[1].msg.nonce) /\ Plain(Tail(w), e, e)
      BY <3>1, TurnTail
    <3>3. k.msg.t = "rekey"
      BY <1>8, <3>1, <3>2
    <3> QED BY <3>1, <3>2, <3>3 DEF w, e, a, b
  <2>4. Rekeyed(c, k.msg, x)
    <3>1. Outcome(p, c, k.msg, x)
      BY <1>0, <1>8, TakesMoves
    <3>2. k.msg.t # "hello" /\ k.msg.t \in {"hello", "rekey"} /\ ~c.own_rekey
      BY <1>4, <2>2, <2>3
    <3> QED BY <1>4, <2>3, <3>1, <3>2 DEF Outcome
  <2>5. Steady(c, x)
    <3>1. c.fresh \in Nat /\ x.s.fresh = c.fresh
      BY <2>4, FieldTypes DEF Rekeyed
    <3>2. \A u \in Nat : u >= u
      OBVIOUS
    <3>3. x.s.fresh >= c.fresh
      BY <3>1, <3>2, ZenonT(30)
    <3> QED BY <2>4, <3>3 DEF Rekeyed, Steady
  <2>6. x.out = <<>> /\ x.s.authentic = "FULL_PK"
    <3>1. Len(x.out) = 0 /\ x.s.authentic = "FULL_PK"
      BY <1>4, <2>4 DEF Rekeyed
    <3> QED BY <1>1, <3>1
  <2>7. /\ S'[p].own_rekey = TRUE /\ S'[p].remote_pub = S[q].real_priv /\ x.s.enc = S[p].enc
        /\ x.s.dec = S[q].enc
    BY <1>1, <1>4, <2>3, <2>4, ZenonT(30) DEF Rekeyed, Unlatched
  <2>8. /\ Ways(p)' = Tail(net[p]) /\ Dec(p)' = S[q].enc /\ Enc(p)' = S[p].enc
        /\ Ways(q)' = net[q] /\ Dec(q)' = S[q].dec /\ Enc(q)' = S[q].enc
    BY <1>6, <2>6, <2>7
  <2>9. Pub(q)' = S[q].real_priv
    <3>1. S[q].real_priv # NoKey
      BY <1>0, <2>2, Peers DEF Alive, Side
    <3> QED BY <1>1, <3>1 DEF Pub
  <2>10. Has(p)'
    BY <1>1, <2>2, <2>3, <2>7, <2>8, <2>9 DEF Has
  <2> QED BY <1>5, <2>5, <2>6, <2>10
<1> QED BY <1>7, <1>8

\* The packet side p is to read next is under the key p is at.
LEMMA HeadOpens ==
  ASSUME OInv, \A s \in Side : Alive(s) /\ InLine(s), Shaking \/ Agreed, NEW p \in Side, Len(net[p]) > 0
  PROVE  Opens(S[p], net[p][1])
<1> DEFINE k == net[p][1]
<1>0. /\ Types /\ Shake(p) /\ (p = "cl" \/ p = "srv") /\ "cl" # "srv"
      /\ \A n : (n = 0 => ~(n > 0)) /\ (n = 1 => n > 0)
  <2>1. Types /\ Shake(p)
    BY DEF OInv
  <2>2. (p = "cl" \/ p = "srv") /\ "cl" # "srv"
    BY DEF Side
  <2>3. ASSUME NEW n PROVE (n = 0 => ~(n > 0)) /\ (n = 1 => n > 0)
    OBVIOUS
  <2> QED BY <2>1, <2>2, <2>3
<1>1. net[p] \in Seq(Packet) /\ S[p].in_seqnr \in Nat /\ k \in Packet /\ k.key \in Keys /\ net[p] # <<>>
  <2>1. net[p] \in Seq(Packet) /\ S[p] \in Endpoint
    BY <1>0 DEF Types
  <2>2. k \in Packet /\ net[p] # <<>>
    BY <2>1
  <2>3. k.key \in Keys
    BY <2>2 DEF Packet
  <2> QED BY <2>1, <2>2, <2>3, FieldTypes
<1>2. k.seq = S[p].in_seqnr
  <2>1. 1 \in 1 .. Len(net[p])
    BY <1>1
  <2>2. k.seq = S[p].in_seqnr + 1 - 1
    BY <2>1 DEF InLine
  <2> QED BY <1>1, <2>2
<1>3. S[p].state # "1STSRV" /\ k.key = S[p].dec => Opens(S[p], k)
  BY <1>2 DEF Opens
<1>4. CASE p = "srv" /\ Unread
  <2>1. S[p].state = "1STSRV" /\ S[p].dec.sec = {} /\ k.key.sec = {}
    <3>1. k = Fst /\ S[p] = S["srv"]
      BY <1>4 DEF Fst
    <3> HIDE DEF k
    <3> QED BY <1>4, <3>1 DEF Unread
  <2>2. k.key = Key({}, k.key.nonce)
    <3>1. \A y \in Keys : y.sec = {} => y = Key({}, y.nonce)
      BY DEF Keys, Key
    <3> QED BY <1>1, <2>1, <3>1
  <2> QED BY <1>2, <2>1, <2>2 DEF Opens
<1>5. CASE EphemSent
  <2>1. Unread /\ net["cl"] = <<>>
    BY <1>5 DEF EphemSent
  <2> QED BY <1>0, <1>1, <1>4, <2>1
<1>6. CASE EphemBack
  <2>1. net["srv"] = <<>> /\ net["cl"][1].key = S["cl"].dec
    BY <1>6 DEF EphemBack, IsHello
  <2>2. p = "cl"
    BY <1>0, <1>1, <2>1
  <2> QED BY <1>0, <1>3, <2>1, <2>2 DEF Shake
<1>7. CASE RealSent
  <2>1. /\ net["cl"] = <<>> /\ net["srv"][1].key = S["cl"].dec
        /\ Unread \/ (S["srv"].authentic = "EPHEMERAL_PK" /\ S["srv"].dec = S["cl"].dec)
    BY <1>7 DEF RealSent, IsHello, Fst
  <2>2. p = "srv"
    BY <1>0, <1>1, <2>1
  <2>3. "EPHEMERAL_PK" # "UNAUTHENTICATED"
    OBVIOUS
  <2> QED BY <1>0, <1>3, <1>4, <2>1, <2>2, <2>3 DEF Shake
<1>8. CASE Agreed /\ Early(p)
  <2>1. p = "cl" /\ k.key = S[p].dec
    BY <1>8 DEF Early, Agreed, IsHello
  <2> QED BY <1>0, <1>3, <2>1 DEF Shake
<1>9. CASE Agreed /\ ~Early(p)
  <2> DEFINE q == Peer(p)
  <2>0. q \in Side /\ Peer(q) = p /\ \A s \in Side : s = p \/ s = q
    BY Peers
  <2>1. S[p].state # "1STSRV"
    <3>1. S[p].authentic # "UNAUTHENTICATED"
      BY <1>0, <1>9 DEF Agreed
    <3> QED BY <1>0, <3>1 DEF Shake
  <2>2. PICK s \in Side : Has(s) \/ Coming(s)
    BY <1>9 DEF Agreed
  <2>3. Ways(p) = net[p] /\ Dec(p) = S[p].dec
    BY <1>9 DEF Ways, Dec
  <2>4. CASE Plain(Ways(p), Dec(p), Enc(q))
    <3>1. ASSUME NEW d, NEW e, Plain(net[p], d, e) PROVE k.key = d
      BY <1>1, <3>1, PlainTail
    <3> QED BY <1>3, <2>1, <2>3, <2>4, <3>1
  <2>5. CASE Turn(Ways(p), Dec(p), Enc(q), S[p].real_priv, S[q].real_priv)
    <3>1. ASSUME NEW d, NEW e, NEW a, NEW b, Turn(net[p], d, e, a, b) PROVE k.key = d
      BY <1>1, <3>1, TurnTail
    <3> QED BY <1>3, <2>1, <2>3, <2>5, <3>1
  <2> QED BY <2>0, <2>2, <2>4, <2>5 DEF Has, Coming
<1> QED BY <1>5, <1>6, <1>7, <1>8, <1>9 DEF Shaking

\* What channel enqueue leaves behind on the two sides
LEMMA SendsOn ==
  ASSUME OInv, \A s \in Side : Alive(s) /\ InLine(s), NEW p \in Side, NEW x, IsCall(x), Enqueues(p, x)
  PROVE  /\ \A s \in Side : Alive(s)' /\ InLine(s)'
         /\ Wrote(Call(S[p]), Event(sent[p] + 1), x) \/ WroteRekey(Call(S[p]), Event(sent[p] + 1), x)
         /\ Call(S[p]).s = S[p] /\ Event(sent[p] + 1).t = "event"
         /\ x.s = S'[p] /\ Kept(S[p], S'[p]) /\ S[p].own_rekey \in BOOLEAN /\ S'[p].own_rekey \in BOOLEAN
<1> DEFINE q == Peer(p)
           r == Call(S[p])
           ev == Event(sent[p] + 1)
<1>0. Types /\ q \in Side /\ Peer(q) = p /\ \A s \in Side : s = p \/ s = q
  BY Peers DEF OInv
<1>1. /\ Wrote(r, ev, x) \/ WroteRekey(r, ev, x)
      /\ S'[p] = x.s /\ S'[q] = S[q] /\ net'[p] = net[p] /\ net'[q] = net[q] \o x.out /\ x.out \in Seq(Packet)
      /\ S' \in [Side -> Endpoint]
  BY DEF Enqueues, IsCall
<1>2. S[p] \in Endpoint /\ r.s = S[p] /\ ev.t = "event" /\ S[p].fresh \in Nat /\ S[p].current_seqnr \in Nat
  <2>1. S[p] \in Endpoint /\ sent[p] + 1 \in Nat
    BY <1>0, SMTT(30), SMTT(31) DEF Types
  <2> QED BY <2>1, CallIs, EventTypes, FieldTypes
<1> HIDE DEF r, ev
<1>3. /\ Kept(S[p], S'[p]) /\ Len(x.out) \in {1, 2} /\ S'[p].current_seqnr = S[p].current_seqnr + Len(x.out)
      /\ x.out[1].seq = S[p].current_seqnr /\ (Len(x.out) = 2 => x.out[2].seq = S[p].current_seqnr + 1)
  BY <1>0, EnqueuesIs
<1>4. InLine(q)'
  <2>1. \A i \in 1 .. Len(x.out) : x.out[i].seq = S[p].current_seqnr + i - 1
    <3>0. PICK n \in {1, 2} : n = Len(x.out)
      BY <1>3
    <3>a. \A i \in 1 .. n : i = 1 \/ (i = 2 /\ n = 2)
      OBVIOUS
    <3>1. ASSUME NEW i \in 1 .. Len(x.out) PROVE i = 1 \/ (i = 2 /\ Len(x.out) = 2)
      BY <3>0, <3>a
    <3>2. S[p].current_seqnr + 1 - 1 = S[p].current_seqnr /\ S[p].current_seqnr + 2 - 1 = S[p].current_seqnr + 1
      BY <1>2
    <3> QED BY <1>3, <3>1, <3>2
  <2> QED BY <1>0, <1>1, <1>3, <2>1, LineSent
<1>5. InLine(p)'
  <2>1. S'[p].in_seqnr = S[p].in_seqnr
    BY <1>3 DEF Kept
  <2> QED BY <1>1, <2>1 DEF InLine
<1>6. Alive(q)'
  BY <1>0, <1>1 DEF Alive
<1>7. Alive(p)'
  <2>1. S'[p].state \in {"1STSRV", "NOPACKET"}
    BY <1>3 DEF Alive, Kept
  <2>2. S[p].fresh # NoKey /\ S[p].fresh + 4 # NoKey
    <3>1. S[p].fresh # NoKey
      BY DEF Alive
    <3> QED BY <1>2, <3>1 DEF NoKey
  <2>3. CASE Wrote(r, ev, x)
    <3>1. S'[p].fresh = S[p].fresh /\ S'[p].real_priv = S[p].real_priv /\ S'[p].own_rekey = S[p].own_rekey
      BY <1>1, <1>2, <2>3 DEF Wrote
    <3> QED BY <2>1, <2>2, <3>1 DEF Alive
  <2>4. CASE WroteRekey(r, ev, x)
    <3>1. S'[p].fresh = S[p].fresh + 4 /\ S'[p].real_priv = S[p].fresh
      BY <1>1, <1>2, <2>4 DEF WroteRekey
    <3> QED BY <2>1, <2>2, <3>1 DEF Alive
  <2> QED BY <1>1, <2>3, <2>4
<1>8. S[p].own_rekey \in BOOLEAN /\ S'[p].own_rekey \in BOOLEAN
  <2>1. S'[p] \in Endpoint
    BY <1>1
  <2> QED BY <1>2, <2>1, FieldTypes
<1> QED BY <1>0, <1>1, <1>2, <1>3, <1>4, <1>5, <1>6, <1>7, <1>8 DEF r, ev

\* Only a side that has authenticated enqueues, and then both are past the
\* handshake's last HELLO but one.
LEMMA EnqueuesLate ==
  ASSUME OInv, NEW p \in Side, NEW x, Enqueues(p, x), Shaking \/ Agreed
  PROVE  Agreed /\ S[p].authentic = "FULL_PK" /\ ~Early(p)
<1>1. S[p].authentic = "FULL_PK" /\ (p = "cl" \/ p = "srv") /\ Shake("srv")
  <2>1. (p = "cl" \/ p = "srv") /\ "srv" \in Side
    BY DEF Side
  <2>2. phase[p] = "serve" /\ Caller(p) /\ Shake("srv")
    BY <2>1 DEF Enqueues, OInv
  <2> QED BY <2>1, <2>2 DEF Caller
<1>2. "FULL_PK" \notin {"REAL_HELLO_SENT", "POLITE_HELLO_SENT", "EPHEMERAL_PK", "UNAUTHENTICATED"}
  OBVIOUS
<1>3. ~Early(p)
  BY <1>1, <1>2 DEF Early
<1>4. ~Shaking
  <2> SUFFICES ASSUME Shaking PROVE FALSE
    OBVIOUS
  <2>1. S["cl"].authentic = "POLITE_HELLO_SENT" \/ S["cl"].authentic = "REAL_HELLO_SENT"
    BY DEF Shaking, EphemSent, EphemBack, RealSent
  <2>2. S["srv"].authentic = "UNAUTHENTICATED" \/ S["srv"].authentic = "EPHEMERAL_PK"
    BY <1>1 DEF Shaking, EphemSent, EphemBack, RealSent, Unread, Shake
  <2> QED BY <1>1, <1>2, <2>1, <2>2
<1> QED BY <1>1, <1>3, <1>4

\* Side p enqueues an event, with or without a REKEY behind it.
LEMMA EnqueuesOn ==
  ASSUME OInv, \A s \in Side : Alive(s) /\ InLine(s), NEW p \in Side, NEW x, IsCall(x), Enqueues(p, x), Agreed,
         S[p].authentic = "FULL_PK", ~Early(p)
  PROVE  Agreed'
<1> DEFINE q == Peer(p)
           r == Call(S[p])
           ev == Event(sent[p] + 1)
           o == x.out
<1>0. /\ Types /\ q \in Side /\ Peer(q) = p /\ q # p /\ (\A s \in Side : s = p \/ s = q)
      /\ (p = "cl" /\ q = "srv") \/ (p = "srv" /\ q = "cl")
  <2>1. (p = "cl" /\ q = "srv") \/ (p = "srv" /\ q = "cl")
    BY DEF Peer, Side
  <2> QED BY <2>1, Peers DEF OInv
<1>1. /\ S'[q] = S[q] /\ net'[p] = net[p] /\ net'[q] = net[q] \o o /\ o \in Seq(Packet)
      /\ cf' = cf
  BY DEF Enqueues, IsCall
<1>2. /\ Wrote(r, ev, x) \/ WroteRekey(r, ev, x)
      /\ r.s = S[p] /\ ev.t = "event" /\ x.s = S'[p] /\ Kept(S[p], S'[p])
      /\ S[p].own_rekey \in BOOLEAN /\ S'[p].own_rekey \in BOOLEAN
  BY SendsOn
<1> HIDE DEF r, ev, o
<1>3. net[p] \in Seq(Packet) /\ net[q] \in Seq(Packet)
  BY <1>0 DEF Types
<1>4. /\ S'[p].authentic = "FULL_PK" /\ S'[p].dec = S[p].dec /\ S'[p].remote_pub = S[p].remote_pub
      /\ S'[p].key_session = S[p].key_session /\ ~Early(p)' /\ (Early(q)' <=> Early(q))
  <2>1. "FULL_PK" # "REAL_HELLO_SENT"
    OBVIOUS
  <2> QED BY <1>1, <1>2, <2>1 DEF Kept, Early
\* the HELLO that is still ahead
<1>5. ASSUME Early(q)
      PROVE  /\ q = "cl" /\ p = "srv" /\ net[q] # <<>> /\ net'[q] # <<>> /\ net'[q][1] = net[q][1]
             /\ net["srv"] = <<>> /\ S["cl"].own_rekey = FALSE /\ IsHello(net["cl"][1], "cl", "REALPK", S["cl"].dec)
  <2>1. q = "cl" /\ p = "srv" /\ net[q] # <<>>
    BY <1>0, <1>5 DEF Early, Agreed
  <2>2. Len(net[q]) > 0 /\ Joined(net[q], o, net'[q])
    <3>1. Joined(net[q], o, net[q] \o o)
      BY <1>1, <1>3, JoinedIs, ZenonT(30)
    <3> QED BY <1>1, <1>3, <2>1, <3>1
  <2>3. net'[q] # <<>> /\ net'[q][1] = net[q][1]
    BY <2>2, SMTT(30), SMTT(31) DEF Joined
  <2> QED BY <1>5, <2>1, <2>3 DEF Agreed
<1>6. /\ Ways(p)' = Ways(p) /\ Dec(p)' = Dec(p) /\ Enc(p) = S[p].enc /\ Enc(p)' = S'[p].enc
  BY <1>1, <1>4 DEF Ways, Dec, Enc
<1>7. Dec(q)' = Dec(q) /\ Enc(q)' = Enc(q) /\ Pub(q)' = Pub(q)
  <2>1. Pub(q)' = Pub(q)
    BY <1>1 DEF Pub
  <2>2. CASE Early(q)
    <3>1. Opened' = Opened
      BY <1>1, <1>5, <2>2 DEF Opened, Last
    <3> QED BY <1>4, <2>1, <2>2, <3>1 DEF Dec, Enc
  <2>3. CASE ~Early(q)
    BY <1>1, <1>4, <2>1, <2>3 DEF Dec, Enc
  <2> QED BY <2>2, <2>3
<1>8. Joined(Ways(q), o, Ways(q)')
  <2>1. Joined(net[q], o, net[q] \o o) /\ (net[q] # <<>> => Joined(Tail(net[q]), o, Tail(net[q] \o o)))
    BY <1>1, <1>3, JoinedIs
  <2>2. CASE Early(q)
    BY <1>1, <1>4, <1>5, <2>1, <2>2 DEF Ways
  <2>3. CASE ~Early(q)
    BY <1>1, <1>4, <2>1, <2>3 DEF Ways
  <2> QED BY <2>2, <2>3
\* what is left to show
<1>9. ASSUME NEW s \in Side, Has(s)' \/ Coming(s)' PROVE Agreed'
  <2>1. S'[q].authentic = S[q].authentic /\ S'[p].authentic = S[p].authentic
    BY <1>1, <1>4
  <2>2. S'["srv"].authentic = S["srv"].authentic /\ S'["cl"].authentic = S["cl"].authentic
    BY <1>0, <2>1
  <2>3. ASSUME Early("cl")'
        PROVE  /\ net'["srv"] = <<>> /\ net'["cl"] # <<>> /\ S'["cl"].own_rekey = FALSE
               /\ IsHello(net["cl"][1], "cl", "REALPK", S["cl"].dec)'
    <3>1. Early(q)
      BY <1>0, <1>4, <2>3
    <3>2. /\ q = "cl" /\ p = "srv" /\ net'["cl"] # <<>> /\ net'["cl"][1] = net["cl"][1]
          /\ net["srv"] = <<>> /\ S["cl"].own_rekey = FALSE /\ IsHello(net["cl"][1], "cl", "REALPK", S["cl"].dec)
      BY <1>5, <3>1
    <3>3. net'["srv"] = net["srv"] /\ S'["cl"] = S["cl"]
      BY <1>1, <3>2
    <3> QED BY <1>1, <3>2, <3>3 DEF IsHello
  <2> QED BY <1>9, <2>2, <2>3 DEF Agreed
<1>10. PICK s \in Side : Has(s) \/ Coming(s)
  BY DEF Agreed
<1>11. CASE Wrote(r, ev, x)
  <2>1. /\ S'[p].own_rekey = S[p].own_rekey /\ S'[p].real_priv = S[p].real_priv /\ S'[p].enc = S[p].enc
        /\ Len(o) = 1 /\ o[1] = Sealed(S[p], ev)
    BY <1>2, <1>11 DEF Wrote, o, Sealed
  <2>2. Enc(p)' = Enc(p) /\ Pub(p)' = Pub(p)
    BY <1>4, <1>6, <2>1 DEF Pub
  <2>3. \A i \in 1 .. Len(o) : o[i].msg.t = "event" /\ o[i].key = Enc(p)
    <3>1. o[1].msg.t = "event" /\ o[1].key = S[p].enc
      <4>1. o[1].msg = ev /\ o[1].key = S[p].enc
        <5>1. o[1] = [msg |-> ev, key |-> S[p].enc, seq |-> S[p].current_seqnr]
          BY <2>1 DEF Sealed
        <5> QED BY <5>1
      <4> QED BY <1>2, <4>1, ZenonT(30)
    <3>2. \A i \in 1 .. 1 : i = 1
      OBVIOUS
    <3> QED BY <1>6, <2>1, <3>1, <3>2
  <2>4. ASSUME NEW d, NEW e, Plain(Ways(q), d, e), e = Enc(p) PROVE Plain(Ways(q)', d, e)
    BY <1>8, <2>3, <2>4, PlainJoin
  <2>5. ASSUME NEW d, NEW e, NEW a, NEW b, Turn(Ways(q), d, e, a, b), e = Enc(p) PROVE Turn(Ways(q)', d, e, a, b)
    BY <1>8, <2>3, <2>5, TurnJoin
  <2>6. CASE s = p /\ Has(p)
    <3>1. Has(p)'
      BY <1>0, <1>1, <1>4, <1>6, <1>7, <2>1, <2>2, <2>4, <2>6 DEF Has
    <3> QED BY <1>9, <3>1
  <2>7. CASE s = q /\ Has(q)
    <3>1. Has(q)'
      BY <1>0, <1>1, <1>4, <1>6, <1>7, <2>1, <2>2, <2>4, <2>7 DEF Has
    <3> QED BY <1>0, <1>9, <3>1
  <2>8. CASE s = p /\ Coming(p)
    <3>1. Coming(p)'
      BY <1>0, <1>1, <1>4, <1>6, <1>7, <2>1, <2>2, <2>4, <2>8 DEF Coming
    <3> QED BY <1>9, <3>1
  <2>9. CASE s = q /\ Coming(q)
    <3>1. Coming(q)'
      BY <1>0, <1>1, <1>4, <1>6, <1>7, <2>1, <2>2, <2>5, <2>9 DEF Coming
    <3> QED BY <1>0, <1>9, <3>1
  <2> QED BY <1>0, <1>10, <2>6, <2>7, <2>8, <2>9
<1>12. CASE WroteRekey(r, ev, x)
  <2> DEFINE f == S[p].fresh
             a == S[q].real_priv
  <2>1. /\ S[p].own_rekey = TRUE /\ S'[p].own_rekey = FALSE /\ S'[p].real_priv = f
        /\ S'[p].enc = Key({f, S[p].remote_pub}, f + 2)
        /\ Len(o) = 2 /\ o[1] = Sealed(S[p], ev)
        /\ o[2] = [msg |-> Rekey(f, f + 2), key |-> S[p].enc, seq |-> S[p].current_seqnr + 1]
    BY <1>2, <1>12 DEF WroteRekey, o, Sealed
  <2>2. Has(p)
    <3>1. ~Coming(s) /\ ~Has(q)
      BY <1>0, <2>1 DEF Has, Coming
    <3> QED BY <1>0, <1>10, <3>1
  <2>3. /\ S[q].own_rekey = FALSE /\ S[p].remote_pub = Pub(q)
        /\ Plain(Ways(p), Dec(p), Enc(q)) /\ Plain(Ways(q), Dec(q), Enc(p))
    BY <1>0, <2>2 DEF Has
  <2>4. Pub(q) = a
    <3>1. a # NoKey
      BY <1>0, <2>3 DEF Alive
    <3> QED BY <3>1 DEF Pub
  <2>5. S'[p].enc = Key({a, f}, f + 2)
    <3>1. {f, S[p].remote_pub} = {a, f}
      BY <2>3, <2>4
    <3> QED BY <2>1, <3>1
  <2>6. /\ o[1].msg.t = "event" /\ o[1].key = Enc(p) /\ o[2].msg.t = "rekey" /\ o[2].key = Enc(p)
        /\ o[2].msg.pk = f /\ o[2].msg.nonce = f + 2
    <3> HIDE DEF f
    <3>a. PICK y, z : y = o[1] /\ z = o[2]
      OBVIOUS
    <3>b. y = Sealed(S[p], ev) /\ z = [msg |-> Rekey(f, f + 2), key |-> S[p].enc, seq |-> S[p].current_seqnr + 1]
      BY <2>1, <3>a
    <3>c. y.msg = ev /\ y.key = S[p].enc /\ z.msg = Rekey(f, f + 2) /\ z.key = S[p].enc
      BY <3>b DEF Sealed
    <3>1. o[1].msg = ev /\ o[1].key = S[p].enc
      BY <3>a, <3>c
    <3>2. o[2].msg = Rekey(f, f + 2) /\ o[2].key = S[p].enc
      BY <3>a, <3>c
    <3>3. o[2].msg.t = "rekey" /\ o[2].msg.pk = f /\ o[2].msg.nonce = f + 2
      BY <3>2 DEF Rekey
    <3> QED BY <1>2, <1>6, <3>1, <3>2, <3>3
  <2> HIDE DEF f, a
  <2>7. Turn(Ways(q)', Dec(q), S'[p].enc, a, f)
    <3>1. S'[p].enc = Key({a, f}, o[2].msg.nonce)
      BY <2>5, <2>6
    <3> QED BY <1>8, <2>1, <2>3, <2>6, <3>1, PlainTurn
  <2>8. Coming(q)'
    BY <1>0, <1>1, <1>6, <1>7, <2>1, <2>3, <2>7 DEF Coming, f, a
  <2> QED BY <1>0, <1>9, <2>8
<1> QED BY <1>2, <1>11, <1>12

LEMMA InitKeys == Init => KInv
<1> SUFFICES ASSUME Init, ~Reason PROVE (\A p \in Side : Alive(p) /\ InLine(p)) /\ Shaking
  BY DEF KInv
<1> DEFINE x == a12_client
           z == a12_server
           o == x.out[1]
<1>0. "cl" \in Side /\ "srv" \in Side /\ "cl" # "srv" /\ Peer("cl") = "srv" /\ Peer("srv") = "cl" /\ \A p \in Side : p = "cl" \/ p = "srv"
  BY DEF Side, Peer
<1>1. /\ cf \in Configs /\ faults \in Nat
      /\ S = [p \in Side |-> IF p = "srv" THEN z ELSE x.s]
      /\ net = [p \in Side |-> IF p = "srv" THEN x.out ELSE <<>>]
  <2>1. 0 \in Nat
    OBVIOUS
  <2> QED BY <2>1 DEF Init
<1>2. ServerStart(z) /\ ClientStart(x)
  BY <1>1, a12_serverIs, a12_clientIs
<1> HIDE DEF x, z
<1>3. S["srv"] = z /\ S["cl"] = x.s /\ net["srv"] = x.out /\ net["cl"] = <<>> /\ Len(net["srv"]) = 1 /\ Fst = o
  <2>1. S["srv"] = z /\ S["cl"] = x.s /\ net["srv"] = x.out /\ net["cl"] = <<>>
    BY <1>0, <1>1
  <2> QED BY <1>2, <2>1 DEF ClientStart, Fst
<1>4. /\ cf.samesecret /\ base("srv") = cf.rekey_bytes
      /\ base("srv") # 0 => base("srv") > 2 /\ (cf.ephemeral => base("srv") > 4)
  BY <1>0, <1>1, NoReason DEF base
<1>5. /\ z.state = "1STSRV" /\ z.enc.sec = {} /\ z.dec.sec = {} /\ z.current_seqnr = 0 /\ z.in_seqnr = 0
      /\ z.own_rekey = TRUE /\ z.rekey_count = base("srv") /\ z.fresh = 3
  <2>1. /\ z.state = "1STSRV" /\ z.enc = Key(Psk("srv"), 0) /\ z.dec = Key(Psk("srv"), 0)
        /\ z.current_seqnr = 0 /\ z.in_seqnr = 0
        /\ z.own_rekey = TRUE /\ z.rekey_count = base("srv") /\ z.fresh = 3
    BY <1>2, <1>4 DEF ServerStart
  <2>2. Key(Psk("srv"), 0).sec = {}
    BY <1>4 DEF Key, Psk
  <2> QED BY <2>1, <2>2
<1>6. /\ x.s.state = "NOPACKET" /\ x.s.current_seqnr = 1 /\ x.s.in_seqnr = 0 /\ x.s.dec = Key({}, 4)
      /\ x.s.real_priv = 2 /\ x.s.own_rekey = FALSE /\ x.s.fresh # NoKey
      /\ cf.ephemeral => x.s.authentic = "POLITE_HELLO_SENT" /\ x.s.ephem_priv = 6
      /\ ~cf.ephemeral => x.s.authentic = "REAL_HELLO_SENT"
  BY <1>2 DEF ClientStart, ClientOf
<1>7. /\ o.msg.t = "hello" /\ o.msg.role = cf.role["cl"] /\ o.key = Key({}, 4) /\ o.seq = 0 /\ o.key.sec = {}
      /\ cf.ephemeral => o.msg.mode = "EPHEMPK" /\ o.msg.pk = 6
      /\ ~cf.ephemeral => o.msg.mode = "REALPK" /\ o.msg.pk = 2
  <2>1. CASE cf.ephemeral
    <3>1. o = [msg |-> Hello("cl", "EPHEMPK", 6, 8), key |-> Key({}, 4), seq |-> 0]
      BY <1>2, <2>1 DEF ClientStart
    <3> HIDE DEF o
    <3> QED BY <2>1, <3>1 DEF Hello, Key
  <2>2. CASE ~cf.ephemeral
    <3>1. o = [msg |-> Hello("cl", "REALPK", 2, 6), key |-> Key({}, 4), seq |-> 0]
      BY <1>2, <2>2 DEF ClientStart
    <3> HIDE DEF o
    <3> QED BY <2>2, <3>1 DEF Hello, Key
  <2> QED BY <2>1, <2>2
<1>8. Alive("cl") /\ Alive("srv")
  <2>1. 2 # NoKey /\ 3 # NoKey /\ TRUE # FALSE
    BY DEF NoKey
  <2>2. Alive("cl")
    BY <1>0, <1>3, <1>6, <2>1 DEF Alive
  <2>3. Alive("srv")
    BY <1>0, <1>3, <1>5, <2>1 DEF Alive
  <2> QED BY <2>2, <2>3
<1>9. InLine("cl") /\ InLine("srv")
  <2>1. InLine("cl")
    <3>1. S["srv"].current_seqnr = 0 /\ S["cl"].in_seqnr = 0
      BY <1>3, <1>5, <1>6
    <3> QED BY <1>0, <1>3, <3>1 DEF InLine
  <2>2. InLine("srv")
    <3>1. S["cl"].current_seqnr = 1 /\ S["srv"].in_seqnr = 0 /\ net["srv"][1].seq = 0
      BY <1>3, <1>5, <1>6, <1>7
    <3>2. 1 = 0 + 1 /\ \A i \in 1 .. 1 : i = 1 /\ 0 = 0 + i - 1
      OBVIOUS
    <3> QED BY <1>0, <1>3, <3>1, <3>2 DEF InLine
  <2> QED BY <2>1, <2>2
<1>10. Unread /\ S["srv"].own_rekey = TRUE /\ S["cl"].own_rekey = FALSE
  BY <1>3, <1>5, <1>6, <1>7 DEF Unread
<1>11. Spare(1) /\ (cf.ephemeral => Spare(2))
  <2>1. 2 * 1 = 2 /\ 2 * 2 = 4
    OBVIOUS
  <2> QED BY <1>3, <1>4, <1>5, <2>1 DEF Spare
<1>12. Shaking
  <2>1. CASE cf.ephemeral
    <3>1. IsHello(Fst, "srv", "EPHEMPK", S["cl"].dec) /\ Fst.msg.pk = S["cl"].ephem_priv
      BY <1>0, <1>3, <1>6, <1>7, <2>1 DEF IsHello
    <3>2. EphemSent
      BY <1>3, <1>6, <1>10, <1>11, <2>1, <3>1 DEF EphemSent
    <3> QED BY <1>10, <3>2 DEF Shaking
  <2>2. CASE ~cf.ephemeral
    <3>1. IsHello(Fst, "srv", "REALPK", S["cl"].dec) /\ Fst.msg.pk = S["cl"].real_priv
      BY <1>0, <1>3, <1>6, <1>7, <2>2 DEF IsHello
    <3>2. RealSent
      BY <1>3, <1>6, <1>10, <1>11, <2>2, <3>1 DEF RealSent
    <3> QED BY <1>10, <3>2 DEF Shaking
  <2> QED BY <2>1, <2>2
<1> QED BY <1>0, <1>8, <1>9, <1>12

LEMMA NextKeys == OInv /\ KInv /\ [Next]_vars => KInv'
<1> SUFFICES ASSUME OInv, KInv, [Next]_vars, ~Reason'
             PROVE  (\A p \in Side : Alive(p)' /\ InLine(p)') /\ (Shaking' \/ Agreed')
  BY DEF KInv
<1>0. Types /\ faults \in Nat /\ ~(faults + 1 = faults) /\ faults + 1 > 0
  <2>1. Types /\ faults \in Nat
    BY DEF OInv, Types
  <2> QED BY <2>1
<1>1. ASSUME cf' = cf, faults' = faults
      PROVE  ~Reason /\ (\A p \in Side : Alive(p) /\ InLine(p)) /\ (Shaking \/ Agreed)
  BY <1>0, <1>1, ReasonStays DEF KInv
<1>2. ASSUME NEW p \in Side, Unpack_Step(p)
      PROVE  (\A s \in Side : Alive(s)' /\ InLine(s)') /\ (Shaking' \/ Agreed')
  <2>1. /\ take[p] + held[p] <= Len(net[p])
        /\ S[p].state # "1STSRV" => S[p].authentic \in AuthOf(p)
        /\ S[p].state = "1STSRV" => p = "srv"
    BY <1>2 DEF OInv, Buffers, Shake
  <2>2. PICK k \in Packet, c \in Endpoint : \E x : IsCall(x) /\ Takes(p, k, c, x)
    BY <1>0, <1>2, <2>1, Unpack_StepIs
  <2>3. PICK x : IsCall(x) /\ Takes(p, k, c, x)
    BY <2>2
  <2>4. ~Reason /\ (\A s \in Side : Alive(s) /\ InLine(s)) /\ (Shaking \/ Agreed)
    BY <1>1, <2>3 DEF Takes
  <2>5. Steady(c, x) /\ (Shaking' \/ Agreed')
    <3>1. CASE Shaking /\ EphemSent
      BY <1>2, <2>3, <2>4, <3>1, EphemSentOn DEF Shaking
    <3>2. CASE Shaking /\ EphemBack
      BY <1>2, <2>3, <2>4, <3>2, EphemBackOn DEF Shaking
    <3>3. CASE Shaking /\ RealSent
      BY <1>2, <2>3, <2>4, <3>3, RealSentOn DEF Shaking
    <3>4. CASE Agreed /\ Early(p)
      BY <1>2, <2>3, <2>4, <3>4, EarlyOn
    <3>5. CASE Agreed /\ ~Early(p)
      BY <1>2, <2>3, <2>4, <3>5, AgreedOn
    <3>6. Shaking => EphemSent \/ EphemBack \/ RealSent
      BY DEF Shaking
    <3> QED BY <2>4, <3>1, <3>2, <3>3, <3>4, <3>5, <3>6
  <2> QED BY <1>2, <2>3, <2>4, <2>5, TakesOn
<1>3. ASSUME NEW p \in Side, Unpack_Mismatch(p) PROVE FALSE
  <2>1. take[p] + held[p] <= Len(net[p])
    BY <1>3 DEF OInv, Buffers
  <2>2. PICK k \in Packet : \E x : IsCall(x) /\ Garbled(p, k, x)
    BY <1>0, <1>3, <2>1, Unpack_MismatchIs
  <2>3. PICK x : IsCall(x) /\ Garbled(p, k, x)
    BY <2>2
  <2>4. ~Reason /\ (\A s \in Side : Alive(s) /\ InLine(s)) /\ (Shaking \/ Agreed)
    BY <1>1, <2>3 DEF Garbled
  <2>5. Len(net[p]) > 0 /\ k = net[p][1] /\ (S[p].state = "DESYNC" \/ ~Opens(S[p], k))
    BY <2>3 DEF Garbled
  <2>6. Opens(S[p], net[p][1])
    BY <1>3, <2>4, <2>5, HeadOpens
  <2>7. S[p].state # "DESYNC"
    <3>1. S[p].state \in {"1STSRV", "NOPACKET"}
      BY <1>3, <2>4 DEF Alive
    <3> QED BY <3>1
  <2> QED BY <2>5, <2>6, <2>7
<1>4. ASSUME NEW p \in Side, Channel_Enqueue(p)
      PROVE  (\A s \in Side : Alive(s)' /\ InLine(s)') /\ (Shaking' \/ Agreed')
  <2>1. PICK x : IsCall(x) /\ Enqueues(p, x)
    BY <1>0, <1>4, Channel_EnqueueIs
  <2>2. ~Reason /\ (\A s \in Side : Alive(s) /\ InLine(s)) /\ (Shaking \/ Agreed)
    BY <1>1, <2>1 DEF Enqueues
  <2>3. Agreed /\ S[p].authentic = "FULL_PK" /\ ~Early(p)
    BY <1>4, <2>1, <2>2, EnqueuesLate
  <2>4. Agreed'
    BY <1>4, <2>1, <2>2, <2>3, EnqueuesOn
  <2>5. \A s \in Side : Alive(s)' /\ InLine(s)'
    BY <1>4, <2>1, <2>2, SendsOn
  <2> QED BY <2>4, <2>5
<1>5. ASSUME NEW p \in Side, Lose(p) \/ Double(p) \/ Swap(p) PROVE FALSE
  <2>1. faults' = faults + 1
    BY <1>0, <1>5, CarriedIs DEF Carried
  <2>2. faults' > 0
    BY <1>0, <2>1
  <2> QED BY <2>2 DEF Reason
<1>6. ASSUME UNCHANGED <<cf, S, net, faults>>
      PROVE  (\A s \in Side : Alive(s)' /\ InLine(s)') /\ (Shaking' \/ Agreed')
  <2>0. cf' = cf /\ S' = S /\ net' = net /\ faults' = faults
    BY <1>6
  <2>1. (\A p \in Side : Alive(p) /\ InLine(p)) /\ (Shaking \/ Agreed)
    BY <1>1, <2>0
  <2>2. \A s \in Side : Alive(s)' /\ InLine(s)'
    BY <2>0, <2>1 DEF Alive, InLine
  <2>3. Spare(1)' = Spare(1) /\ Spare(2)' = Spare(2) /\ Unread' = Unread
    BY <2>0 DEF Spare, base, Unread, Fst
  <2>4. Shaking => Shaking'
    BY <2>0, <2>3 DEF Shaking, EphemSent, EphemBack, RealSent, IsHello, Fst, Last
  <2>5. \A s \in Side : Early(s)' = Early(s) /\ Ways(s)' = Ways(s) /\ Dec(s)' = Dec(s) /\ Enc(s)' = Enc(s) /\ Pub(s)' = Pub(s)
    BY <2>0 DEF Early, Ways, Dec, Enc, Pub, Opened, Last
  <2>6. ASSUME NEW s \in Side PROVE (Has(s) => Has(s)') /\ (Coming(s) => Coming(s)')
    <3>1. Peer(s) \in Side
      BY Peers
    <3> QED BY <2>0, <2>5, <2>6, <3>1 DEF Has, Coming
  <2>7. Agreed => Agreed'
    <3>1. "cl" \in Side
      BY Peers
    <3>2. Early("cl")' = Early("cl")
      BY <2>5, <3>1
    <3> QED BY <2>0, <2>6, <3>2 DEF Agreed, IsHello
  <2> QED BY <2>1, <2>2, <2>4, <2>7
<1>7. ASSUME NEW p \in Side, Unpack_Begin(p) \/ Authenticated(p)
      PROVE  (\A s \in Side : Alive(s)' /\ InLine(s)') /\ (Shaking' \/ Agreed')
  BY <1>6, <1>7 DEF Unpack_Begin, Authenticated
<1>8. ASSUME UNCHANGED vars
      PROVE  (\A s \in Side : Alive(s)' /\ InLine(s)') /\ (Shaking' \/ Agreed')
  BY <1>6, <1>8 DEF vars
<1> QED BY <1>2, <1>3, <1>4, <1>5, <1>7, <1>8 DEF Next, Local

LEMMA KInvAlways == Spec => []KInv
<1>1. Init => OInv /\ KInv
  BY InitOrder, InitKeys
<1>2. (OInv /\ KInv) /\ [Next]_vars => (OInv /\ KInv)'
  BY NextOrder, NextKeys
<1> QED BY <1>1, <1>2, PTL DEF Spec

\* fail_state and the desynchronised state are only reached for one of the
\* reasons the peers can be blamed for: a fault of the carrier, another
\* secret, roles that do not go together, a key that is not accepted, or a
\* rekeying limit below what the handshake takes.
THEOREM BrokenForAReasonAlways == Spec => []BrokenForAReason
<1>1. KInv => BrokenForAReason
  <2> SUFFICES ASSUME KInv, NEW p \in Side, ~Reason PROVE S[p].state \notin {"BROKEN", "DESYNC"}
    BY DEF BrokenForAReason
  <2>1. S[p].state \in {"1STSRV", "NOPACKET"}
    BY DEF KInv, Alive
  <2> QED BY <2>1
<1> QED BY <1>1, KInvAlways, PTL

\* What is on the way to side s: the HELLO that ends the handshake, if it is
\* still ahead, and Ways(s).
LEMMA WaysAt ==
  ASSUME Types, Agreed, NEW s \in Side
  PROVE  \E d \in {0, 1} :
           /\ \A i \in 1 .. Len(net[s]) : \/ net[s][i].msg.t = "hello"
                                          \/ i - d \in 1 .. Len(Ways(s)) /\ net[s][i] = Ways(s)[i - d]
           /\ \A j \in 1 .. Len(Ways(s)) : j + d \in 1 .. Len(net[s]) /\ net[s][j + d] = Ways(s)[j]
<1>1. net[s] \in Seq(Packet)
  BY DEF Types
<1> DEFINE w == net[s]
           u == Ways(s)
<1>2. CASE Early(s)
  <2>1. w[1].msg.t = "hello" /\ w # <<>> /\ u = Tail(w)
    BY <1>2 DEF Early, Agreed, IsHello, Ways
  <2>2. Len(w) > 0
    BY <1>1, <2>1
  <2>3. /\ Len(u) = Len(w) - 1 /\ Len(w) \in Nat
        /\ \A i \in 1 .. Len(u) : i + 1 \in 1 .. Len(w) /\ u[i] = w[i + 1]
    BY <1>1, <2>1, <2>2, TailAt
  <2> HIDE DEF w, u
  <2>4. ASSUME NEW i \in 1 .. Len(w), i # 1 PROVE i - 1 \in 1 .. Len(u) /\ w[i] = u[i - 1]
    <3>1. i - 1 \in 1 .. Len(u) /\ (i - 1) + 1 = i
      BY <2>3, <2>4
    <3> QED BY <2>3, <3>1
  <2>5. 1 \in {0, 1}
    OBVIOUS
  <2> QED BY <2>1, <2>3, <2>4, <2>5 DEF w, u
<1>3. CASE ~Early(s)
  <2>1. u = w
    BY <1>3 DEF Ways
  <2> HIDE DEF w, u
  <2>2. \A i \in 1 .. Len(w) : i - 0 = i /\ i + 0 = i
    <3>1. w \in Seq(Packet)
      BY <1>1 DEF w
    <3> QED BY <3>1
  <2>3. 0 \in {0, 1}
    OBVIOUS
  <2> QED BY <2>1, <2>2, <2>3 DEF w, u
<1> QED BY <1>2, <1>3

\* Who has the initiative, and where
LEMMA InitiativeIs ==
  ASSUME NEW y
  PROVE  y \in Initiative <=>
           \/ \E s \in Side : S[s].own_rekey /\ y = <<s, 0>>
           \/ \E s \in Side : \E i \in 1 .. Len(net[s]) : net[s][i].msg.t = "rekey" /\ y = <<s, i>>
<1> DEFINE A == {<<p, 0>> : p \in {q \in Side : S[q].own_rekey}}
           R(p) == {<<p, i>> : i \in {j \in 1 .. Len(net[p]) : net[p][j].msg.t = "rekey"}}
<1>1. y \in A <=> \E s \in Side : S[s].own_rekey /\ y = <<s, 0>>
  OBVIOUS
<1>2. ASSUME NEW s \in Side
      PROVE  y \in R(s) <=> \E i \in 1 .. Len(net[s]) : net[s][i].msg.t = "rekey" /\ y = <<s, i>>
  OBVIOUS
<1>3. Initiative = A \cup UNION {R(p) : p \in Side}
  BY DEF Initiative
<1> HIDE DEF A, R
<1>4. y \in Initiative <=> y \in A \/ \E s \in Side : y \in R(s)
  BY <1>3
<1> QED BY <1>1, <1>2, <1>4

LEMMA OneInitiative == ASSUME OInv, Shaking \/ Agreed PROVE \E y \in Initiative : Initiative = {y}
<1>0. /\ Types /\ "hello" # "rekey" /\ "event" # "rekey" /\ TRUE # FALSE /\ "srv" \in Side /\ "cl" \in Side
      /\ Peer("srv") = "cl"
  <2>1. Types
    BY DEF OInv
  <2>2. "hello" # "rekey" /\ "event" # "rekey" /\ TRUE # FALSE /\ "srv" \in Side /\ "cl" \in Side /\ Peer("srv") = "cl"
    BY DEF Side, Peer
  <2> QED BY <2>1, <2>2
<1>1. ASSUME NEW p \in Side, S[p].own_rekey = TRUE, S[Peer(p)].own_rekey = FALSE,
             \A s \in Side : \A i \in 1 .. Len(net[s]) : net[s][i].msg.t # "rekey"
      PROVE  \E y \in Initiative : Initiative = {y}
  <2>1. <<p, 0>> \in Initiative
    BY <1>1, InitiativeIs
  <2>2. ASSUME NEW y \in Initiative PROVE y = <<p, 0>>
    <3>1. PICK s \in Side : S[s].own_rekey /\ y = <<s, 0>>
      BY <1>1, InitiativeIs
    <3>2. s = p
      BY <1>1, <3>1, Peers
    <3> QED BY <3>1, <3>2
  <2>3. Initiative = {<<p, 0>>}
    BY <2>1, <2>2
  <2> QED BY <2>1, <2>3
<1>2. CASE Shaking
  <2>1. /\ S["srv"].own_rekey = TRUE /\ S["cl"].own_rekey = FALSE
        /\ (net["cl"] = <<>> /\ Len(net["srv"]) = 1 /\ net["srv"][1].msg.t = "hello")
           \/ (net["srv"] = <<>> /\ Len(net["cl"]) = 1 /\ net["cl"][1].msg.t = "hello")
    BY <1>2 DEF Shaking, EphemSent, EphemBack, RealSent, IsHello, Fst
  <2>2. ASSUME NEW s \in Side, NEW i \in 1 .. Len(net[s]) PROVE net[s][i].msg.t = "hello"
    <3>1. s = "cl" \/ s = "srv"
      BY DEF Side
    <3>2. net[s] # <<>>
      <4>1. Len(<<>>) = 0 /\ \A j : j \notin 1 .. 0
        OBVIOUS
      <4> QED BY <2>2, <4>1
    <3>3. Len(net[s]) = 1 /\ net[s][1].msg.t = "hello"
      BY <2>1, <3>1, <3>2
    <3>4. \A j \in 1 .. 1 : j = 1
      OBVIOUS
    <3>5. i = 1
      BY <3>3, <3>4
    <3> QED BY <3>3, <3>5
  <2> QED BY <1>0, <1>1, <2>1, <2>2
<1>3. CASE Agreed
  <2>1. PICK p \in Side : Has(p) \/ Coming(p)
    BY <1>3 DEF Agreed
  <2> DEFINE q == Peer(p)
  <2>2. q \in Side /\ Peer(q) = p /\ q # p /\ \A s \in Side : s = p \/ s = q
    BY Peers
  <2>3. ASSUME NEW s \in Side, NEW d, NEW e, Plain(Ways(s), d, e), NEW i \in 1 .. Len(net[s])
        PROVE  net[s][i].msg.t # "rekey"
    <3>1. PICK n \in {0, 1} :
             \A j \in 1 .. Len(net[s]) : \/ net[s][j].msg.t = "hello"
                                         \/ j - n \in 1 .. Len(Ways(s)) /\ net[s][j] = Ways(s)[j - n]
      BY <1>0, <1>3, WaysAt
    <3>2. \A j \in 1 .. Len(Ways(s)) : Ways(s)[j].msg.t = "event"
      BY <2>3 DEF Plain
    <3>3. net[s][i].msg.t = "hello" \/ net[s][i].msg.t = "event"
      BY <2>3, <3>1, <3>2
    <3> QED BY <1>0, <3>3
  <2>4. CASE Has(p)
    BY <1>1, <2>2, <2>3, <2>4 DEF Has
  <2>5. CASE Coming(p)
    <3>1. /\ S[p].own_rekey = FALSE /\ S[q].own_rekey = FALSE /\ Plain(Ways(q), Dec(q), Enc(p))
          /\ Turn(Ways(p), Dec(p), Enc(q), S[p].real_priv, S[q].real_priv)
      BY <2>5 DEF Coming
    <3>2. PICK j \in 1 .. Len(Ways(p)) :
             /\ Ways(p)[j].msg.t = "rekey"
             /\ \A i \in 1 .. Len(Ways(p)) : i # j => Ways(p)[i].msg.t = "event"
      BY <3>1 DEF Turn, TurnAt
    <3>3. PICK n \in {0, 1} :
             /\ \A i \in 1 .. Len(net[p]) : \/ net[p][i].msg.t = "hello"
                                            \/ i - n \in 1 .. Len(Ways(p)) /\ net[p][i] = Ways(p)[i - n]
             /\ \A i \in 1 .. Len(Ways(p)) : i + n \in 1 .. Len(net[p]) /\ net[p][i + n] = Ways(p)[i]
      BY <1>0, <1>3, WaysAt
    <3> DEFINE y == <<p, j + n>>
    <3>4. y \in Initiative
      BY <3>2, <3>3, InitiativeIs
    <3>5. ASSUME NEW t \in Initiative PROVE t = y
      <4>0. PICK s \in Side : \E i \in 1 .. Len(net[s]) : net[s][i].msg.t = "rekey" /\ t = <<s, i>>
        <5>1. ~\E r \in Side : S[r].own_rekey /\ t = <<r, 0>>
          BY <2>2, <3>1
        <5> QED BY <5>1, InitiativeIs
      <4>1. PICK i \in 1 .. Len(net[s]) : net[s][i].msg.t = "rekey" /\ t = <<s, i>>
        BY <4>0
      <4>2. s = p
        BY <2>2, <2>3, <3>1, <4>1
      <4>3. i - n \in 1 .. Len(Ways(p)) /\ net[p][i] = Ways(p)[i - n]
        BY <1>0, <3>3, <4>1, <4>2
      <4>4. i - n = j
        BY <1>0, <3>2, <4>1, <4>2, <4>3
      <4>5. i = j + n
        <5>1. i \in Int /\ n \in Int
          BY <4>1
        <5>2. \A u, v \in Int : u = (u - v) + v
          OBVIOUS
        <5> QED BY <4>4, <5>1, <5>2
      <4> QED BY <4>1, <4>2, <4>5
    <3>6. Initiative = {y}
      BY <3>4, <3>5
    <3> QED BY <3>4, <3>6
  <2> QED BY <2>1, <2>4, <2>5
<1> QED BY <1>2, <1>3

\* Unless the session has one of those reasons to end: the initiative to
\* rekey is with exactly one side or in exactly one REKEY on the way, and when
\* both sides have authenticated and nothing is on the way each decrypts with
\* what the other encrypts with, and the side that is to rekey next has the
\* other's current public key (issue_rekey, command_rekey, the HELLO handlers).
THEOREM KeysAgreeAlways == Spec => []KeysAgree
<1>1. OInv /\ KInv => KeysAgree
  <2> SUFFICES ASSUME OInv, KInv, ~Reason
               PROVE  /\ \E y \in Initiative : Initiative = {y}
                      /\ (\A p \in Side : S[p].authentic = "FULL_PK" /\ net[p] = <<>>) =>
                           \A p \in Side :
                             /\ S[p].dec = S[Peer(p)].enc
                             /\ S[p].own_rekey =>
                                  S[p].remote_pub = IF S[Peer(p)].real_priv = NoKey THEN S[Peer(p)].key_session
                                                    ELSE S[Peer(p)].real_priv
    BY DEF KeysAgree
  <2>1. Shaking \/ Agreed
    BY DEF KInv
  <2>2. \E y \in Initiative : Initiative = {y}
    BY <2>1, OneInitiative
  <2>3. ASSUME \A s \in Side : S[s].authentic = "FULL_PK" /\ net[s] = <<>>, NEW p \in Side
        PROVE  S[p].dec = S[Peer(p)].enc /\ (S[p].own_rekey => S[p].remote_pub = Pub(Peer(p)))
    <3>1. \A s \in Side : ~Early(s)
      <4>1. "FULL_PK" # "REAL_HELLO_SENT"
        OBVIOUS
      <4> QED BY <2>3, <4>1 DEF Early
    <3>2. Agreed
      <4>1. Len(<<>>) # 1 /\ "cl" \in Side /\ "srv" \in Side
        BY DEF Side
      <4>2. ~Shaking
        BY <2>3, <4>1 DEF Shaking, EphemSent, EphemBack, RealSent
      <4> QED BY <2>1, <4>2
    <3>3. \A s \in Side : Ways(s) = <<>> /\ Dec(s) = S[s].dec /\ Enc(s) = S[s].enc
      BY <2>3, <3>1 DEF Ways, Dec, Enc
    <3>4. PICK s \in Side : Has(s) \/ Coming(s)
      BY <3>2 DEF Agreed
    <3>5. ~Coming(s)
      <4>1. \A j : j \notin 1 .. Len(<<>>)
        OBVIOUS
      <4> QED BY <3>3, <4>1 DEF Coming, Turn
    <3>6. /\ S[Peer(s)].own_rekey = FALSE /\ S[s].remote_pub = Pub(Peer(s))
          /\ S[s].dec = S[Peer(s)].enc /\ S[Peer(s)].dec = S[s].enc
      <4>1. Has(s) /\ Peer(s) \in Side /\ Peer(Peer(s)) = s
        BY <3>4, <3>5, Peers
      <4>2. Enc(Peer(s)) = Dec(s) /\ Enc(s) = Dec(Peer(s))
        BY <4>1 DEF Has, Plain
      <4>3. S[s].dec = S[Peer(s)].enc /\ S[Peer(s)].dec = S[s].enc
        BY <3>3, <4>1, <4>2
      <4> QED BY <4>1, <4>3 DEF Has
    <3>7. CASE p = s
      BY <3>6, <3>7
    <3>8. CASE p = Peer(s)
      BY <3>6, <3>8, Peers
    <3> QED BY <3>7, <3>8, Peers
  <2> QED BY <2>2, <2>3 DEF Pub
<1> QED BY <1>1, InitOrder, NextOrder, KInvAlways, PTL DEF Spec
==============================================================================

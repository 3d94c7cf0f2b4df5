-------------------------- MODULE TcpTunnelAnswers --------------------------
(***************************************************************************)
(* Proofs about the answers that the application's connections wait for,   *)
(* for every value of the constants: on an open session the connections of *)
(* a port that wait are counted against what is under way for them.        *)
(*                                                                         *)
(* The agent keeps no id for a connection that waits; an answer is for the *)
(* oldest one of its port.  What keeps the two ends right is therefore a   *)
(* count: the requests, the unconfirmed streams and the answers of a port, *)
(* against the connections that wait.  A step of the tunnel moves both by  *)
(* the same amount, but for the steps that the state itself announces: an  *)
(* application that leaves while it waits (Deserting), and a request or an *)
(* unconfirmed stream that ends without an answer (Forfeiting).            *)
(*                                                                         *)
(* Each inequality is an invariant where one of the two is ruled out.  No  *)
(* more answers than waiting connections: every confirmed stream comes to  *)
(* be bridged (StreamsBridged).  No more waiting connections than answers  *)
(* to come: none is forgotten (AnswersComing).  The second needs to know   *)
(* that no request is refused, hence that the server's counts are exact in *)
(* the whole tunnel (SlotsAccountedInTunnel).                              *)
(***************************************************************************)
EXTENDS TcpTunnelProofs, WellFoundedInduction

-----------------------------------------------------------------------------
(* How many elements of a sequence are in a set.                            *)
Tally(q, F) == Cardinality({k \in DOMAIN q : q[k] \in F})

LEMMA TallyType ==
  ASSUME NEW T, NEW q \in Seq(T), NEW F
  PROVE  IsFiniteSet({k \in DOMAIN q : q[k] \in F}) /\ Tally(q, F) \in Nat
<1>1. Len(q) \in Nat /\ DOMAIN q = 1 .. Len(q)
  OBVIOUS
<1>2. IsFiniteSet(1 .. Len(q))
  BY <1>1, FS_Interval
<1>3. {k \in DOMAIN q : q[k] \in F} \in SUBSET (1 .. Len(q))
  BY <1>1
<1> QED
  BY <1>2, <1>3, FS_Subset, FS_CardinalityType DEF Tally

LEMMA TallyNone ==
  ASSUME NEW q, NEW F, \A k \in DOMAIN q : q[k] \notin F
  PROVE  Tally(q, F) = 0
<1>1. {k \in DOMAIN q : q[k] \in F} = {}
  OBVIOUS
<1> QED
  BY <1>1, FS_EmptySet DEF Tally

LEMMA TallyOne ==
  ASSUME NEW f, NEW F
  PROVE  Tally(<<f>>, F) = IF f \in F THEN 1 ELSE 0
<1>1. DOMAIN <<f>> = {1} /\ <<f>>[1] = f
  OBVIOUS
<1>2. CASE f \in F
  <2>1. {k \in DOMAIN <<f>> : <<f>>[k] \in F} = {1}
    BY <1>1, <1>2
  <2> QED
    BY <1>2, <2>1, FS_Singleton DEF Tally
<1>3. CASE f \notin F
  BY <1>1, <1>3, TallyNone
<1> QED
  BY <1>2, <1>3

(* Two sequences, one after the other. *)
LEMMA TallyConcat ==
  ASSUME NEW T, NEW q \in Seq(T), NEW r \in Seq(T), NEW F
  PROVE  Tally(q \o r, F) = Tally(q, F) + Tally(r, F)
<1> DEFINE m == Len(q)
           n == Len(r)
           A == {k \in DOMAIN q : q[k] \in F}
           B == {k \in DOMAIN r : r[k] \in F}
           C == {m + k : k \in B}
           S == {k \in DOMAIN (q \o r) : (q \o r)[k] \in F}
<1>1. /\ m \in Nat /\ n \in Nat /\ DOMAIN q = 1 .. m /\ DOMAIN r = 1 .. n
      /\ DOMAIN (q \o r) = 1 .. m + n
      /\ \A k \in 1 .. m : (q \o r)[k] = q[k]
      /\ \A k \in 1 .. n : (q \o r)[m + k] = r[k]
  OBVIOUS
<1>2. IsFiniteSet(A) /\ IsFiniteSet(B) /\ Tally(q, F) = Cardinality(A) /\ Tally(r, F) = Cardinality(B)
      /\ Tally(q \o r, F) = Cardinality(S)
  BY TallyType DEF Tally
<1>3. S = A \cup C
  <2>1. ASSUME NEW k \in S PROVE k \in A \cup C
    <3>1. k \in 1 .. m + n /\ (q \o r)[k] \in F
      BY <1>1
    <3>2. CASE k <= m
      BY <1>1, <3>1, <3>2
    <3>3. CASE ~(k <= m)
      <4>1. k - m \in 1 .. n /\ m + (k - m) = k
        BY <1>1, <3>1, <3>3
      <4>2. r[k - m] \in F
        BY <1>1, <3>1, <4>1
      <4> QED
        BY <1>1, <4>1, <4>2
    <3> QED
      BY <3>2, <3>3
  <2>2. ASSUME NEW k \in A PROVE k \in S
    BY <1>1, <2>2
  <2>3. ASSUME NEW k \in C PROVE k \in S
    <3>1. PICK j \in B : k = m + j
      OBVIOUS
    <3>2. j \in 1 .. n /\ k \in 1 .. m + n /\ (q \o r)[k] = r[j]
      BY <1>1, <3>1
    <3> QED
      BY <1>1, <3>1, <3>2
  <2> QED
    BY <2>1, <2>2, <2>3
<1>4. A \cap C = {}
  BY <1>1
<1>5. IsFiniteSet(C) /\ Cardinality(C) = Cardinality(B)
  <2> DEFINE h == [k \in B |-> m + k]
  <2>1. B \subseteq Nat
    BY <1>1
  <2>2. h \in Bijection(B, C)
    BY <1>1, <2>1 DEF Bijection, Injection, Surjection, IsInjective
  <2>3. ExistsBijection(B, C)
    BY <2>2 DEF ExistsBijection
  <2> HIDE DEF h, B, C
  <2> QED
    BY <1>2, <2>3, FS_Bijection
<1> HIDE DEF A, B, C, S
<1>6. Cardinality(A \cup C) = Cardinality(A) + Cardinality(C) - Cardinality(A \cap C)
  BY <1>2, <1>5, FS_Union
<1>7. Cardinality(A) \in Nat /\ Cardinality(C) \in Nat /\ Cardinality(A \cap C) = 0
  BY <1>2, <1>4, <1>5, FS_CardinalityType, FS_EmptySet
<1> QED
  BY <1>2, <1>3, <1>5, <1>6, <1>7

LEMMA TallyTwo ==
  ASSUME NEW T, NEW f \in T, NEW g \in T, NEW F
  PROVE  Tally(<<f, g>>, F) = (IF f \in F THEN 1 ELSE 0) + (IF g \in F THEN 1 ELSE 0)
<1>1. <<f>> \in Seq(T) /\ <<g>> \in Seq(T) /\ <<f, g>> \in Seq(T)
  OBVIOUS
<1>2. <<f>> \o <<g>> \in Seq(T) /\ Len(<<f>> \o <<g>>) = 2 /\ Len(<<f, g>>) = 2
  OBVIOUS
<1>3. \A k \in 1 .. 2 : (<<f>> \o <<g>>)[k] = <<f, g>>[k]
  <2>1. (<<f>> \o <<g>>)[1] = f /\ (<<f>> \o <<g>>)[2] = g
    OBVIOUS
  <2>2. <<f, g>>[1] = f /\ <<f, g>>[2] = g
    OBVIOUS
  <2>3. \A k \in 1 .. 2 : k = 1 \/ k = 2
    OBVIOUS
  <2> QED
    BY <2>1, <2>2, <2>3
<1>4. <<f>> \o <<g>> = <<f, g>>
  BY <1>1, <1>2, <1>3, SeqEqual
<1>5. Tally(<<f>> \o <<g>>, F) = Tally(<<f>>, F) + Tally(<<g>>, F)
  BY <1>1, TallyConcat
<1> QED
  BY <1>4, <1>5, TallyOne

(* The head is taken. *)
LEMMA TallyTail ==
  ASSUME NEW T, NEW q \in Seq(T), q # <<>>, NEW F
  PROVE  Tally(q, F) = Tally(Tail(q), F) + (IF Head(q) \in F THEN 1 ELSE 0)
<1>1. q = <<Head(q)>> \o Tail(q) /\ Tail(q) \in Seq(T) /\ <<Head(q)>> \in Seq(T)
  OBVIOUS
<1>2. Tally(q, F) = Tally(<<Head(q)>>, F) + Tally(Tail(q), F)
  <2>1. Tally(<<Head(q)>> \o Tail(q), F) = Tally(<<Head(q)>>, F) + Tally(Tail(q), F)
    BY <1>1, TallyConcat
  <2> QED
    BY <1>1, <2>1
<1>3. Tally(<<Head(q)>>, F) = IF Head(q) \in F THEN 1 ELSE 0
  BY TallyOne
<1>4. Tally(Tail(q), F) \in Nat
  BY <1>1, TallyType
<1> QED
  BY <1>2, <1>3, <1>4

(* The place of an element of a concatenation: in the first sequence, or in the second. *)
LEMMA ConcatAt ==
  ASSUME NEW T, NEW s \in Seq(T), NEW r \in Seq(T), NEW j \in 1 .. Len(s \o r)
  PROVE  (s \o r)[j] = IF j <= Len(s) THEN s[j] ELSE r[j - Len(s)]
  OBVIOUS

(* Any element is taken. *)
LEMMA TallyRemove ==
  ASSUME NEW T, NEW q \in Seq(T), NEW k \in DOMAIN q, NEW F
  PROVE  Tally(q, F) = Tally(RemoveAt(q, k), F) + (IF q[k] \in F THEN 1 ELSE 0)
<1> DEFINE u == SubSeq(q, 1, k - 1)
           v == SubSeq(q, k + 1, Len(q))
<1>1. k \in 1 .. Len(q) /\ Len(q) \in Nat /\ \A j \in 1 .. Len(q) : q[j] \in T
  OBVIOUS
<1>2. u \in Seq(T) /\ Len(u) = k - 1 /\ \A j \in 1 .. k - 1 : u[j] = q[j]
  BY <1>1, SubSeqProperties, 0 \in Int
<1>3. v \in Seq(T) /\ Len(v) = Len(q) - k /\ \A j \in 1 .. Len(q) - k : v[j] = q[k + j]
  BY <1>1, SubSeqProperties
<1>4. RemoveAt(q, k) = u \o v
  BY DEF RemoveAt
<1> HIDE DEF u, v
<1>5. q = u \o (<<q[k]>> \o v)
  <2> DEFINE w == <<q[k]>> \o v
  <2>1. /\ w \in Seq(T) /\ Len(w) = Len(q) - k + 1 /\ w[1] = q[k]
        /\ \A j \in 1 .. Len(q) - k : w[j + 1] = v[j]
    BY <1>1, <1>3
  <2>2. \A j \in 1 .. Len(q) - k + 1 : w[j] = q[k + j - 1]
    <3> SUFFICES ASSUME NEW j \in 1 .. Len(q) - k + 1 PROVE w[j] = q[k + j - 1]
      OBVIOUS
    <3>1. CASE j = 1
      BY <1>1, <2>1, <3>1
    <3>2. CASE j # 1
      <4>1. j - 1 \in 1 .. Len(q) - k /\ (j - 1) + 1 = j /\ k + (j - 1) = k + j - 1
        BY <1>1, <3>2
      <4>2. w[(j - 1) + 1] = v[j - 1] /\ v[j - 1] = q[k + (j - 1)]
        BY <1>3, <2>1, <4>1
      <4> QED
        BY <4>1, <4>2
    <3> QED
      BY <3>1, <3>2
  <2> HIDE DEF w
  <2>3. u \o w \in Seq(T) /\ Len(u \o w) = Len(q)
    BY <1>1, <1>2, <2>1
  <2>4. \A j \in 1 .. Len(q) : (u \o w)[j] = q[j]
    <3> SUFFICES ASSUME NEW j \in 1 .. Len(q) PROVE (u \o w)[j] = q[j]
      OBVIOUS
    <3>1. (u \o w)[j] = IF j <= Len(u) THEN u[j] ELSE w[j - Len(u)]
      <4>1. u \in Seq(T) /\ w \in Seq(T) /\ Len(u \o w) = Len(q)
        BY <1>2, <2>1, <2>3
      <4>2. j \in 1 .. Len(u \o w)
        BY <4>1
      <4> QED
        BY <4>1, <4>2, ConcatAt
    <3>2. CASE j <= k - 1
      BY <1>1, <1>2, <3>1, <3>2
    <3>3. CASE ~(j <= k - 1)
      <4>1. j - (k - 1) \in 1 .. Len(q) - k + 1 /\ k + (j - (k - 1)) - 1 = j
        BY <1>1, <3>3
      <4>2. w[j - (k - 1)] = q[k + (j - (k - 1)) - 1]
        BY <2>2, <4>1
      <4> QED
        BY <1>2, <3>1, <3>3, <4>1, <4>2
    <3> QED
      BY <3>2, <3>3
  <2> QED
    <3>1. \A j \in 1 .. Len(u \o w) : (u \o w)[j] = q[j]
      BY <2>3, <2>4
    <3>2. u \o w = q
      BY <2>3, <3>1, SeqEqual
    <3> QED
      BY <3>2 DEF w
<1>6. <<q[k]>> \in Seq(T) /\ <<q[k]>> \o v \in Seq(T)
  BY <1>1, <1>3
<1>7. /\ Tally(q, F) = Tally(u, F) + Tally(<<q[k]>> \o v, F)
      /\ Tally(<<q[k]>> \o v, F) = Tally(<<q[k]>>, F) + Tally(v, F)
      /\ Tally(u \o v, F) = Tally(u, F) + Tally(v, F)
  <2>1. Tally(u \o (<<q[k]>> \o v), F) = Tally(u, F) + Tally(<<q[k]>> \o v, F)
    BY <1>2, <1>6, TallyConcat
  <2>2. Tally(<<q[k]>> \o v, F) = Tally(<<q[k]>>, F) + Tally(v, F)
    BY <1>3, <1>6, TallyConcat
  <2>3. Tally(u \o v, F) = Tally(u, F) + Tally(v, F)
    BY <1>2, <1>3, TallyConcat
  <2> QED
    BY <1>5, <2>1, <2>2, <2>3
<1>8. Tally(<<q[k]>>, F) = IF q[k] \in F THEN 1 ELSE 0
  BY TallyOne
<1>9. Tally(u, F) \in Nat /\ Tally(v, F) \in Nat
  BY <1>2, <1>3, TallyType
<1> QED
  BY <1>4, <1>7, <1>8, <1>9

-----------------------------------------------------------------------------
(* The account of a port on a session: what is under way for it, and who    *)
(* waits.                                                                   *)
RequestsFor(p) == {f \in FrameSet : f.type = "TCP_CONNECT" /\ f.port = p}
AnswersTo(p)   == {f \in FrameSet : /\ f.port = p
                                    /\ f.type = "TCP_CONNECT_ACK" \/ (f.type = "TCP_ABORT" /\ f.id = 0)}
WaitersOf(p)   == {s \in Socks : SockPort[s] = p}

Asked(a, p)    == Tally(fromAgent[a], RequestsFor(p))
Opening(a, p)  == Cardinality(Unconfirmed(a, p))
Answered(a, p) == Tally(toAgent[a], AnswersTo(p))
Debt(a, p)     == Asked(a, p) + Opening(a, p) + Answered(a, p)
Waits(p)       == Tally(pending, WaitersOf(p))

Talking(a) == agentLinks[a] = "open" /\ agents[a] = "open"

LEMMA UnconfirmedIs ==
  ASSUME NEW a, NEW p, NEW i
  PROVE  i \in Unconfirmed(a, p) <=>
           i \in Ids /\ streams[i].kind = "agent" /\ streams[i].port = p /\ streams[i].agent = a /\ streams[i].awaiting
  BY DEF Unconfirmed, On

LEMMA UnconfirmedFinite ==
  ASSUME NEW a, NEW p
  PROVE  IsFiniteSet(Unconfirmed(a, p)) /\ Opening(a, p) \in Nat
<1>1. Unconfirmed(a, p) \in SUBSET Ids
  BY UnconfirmedIs
<1> QED
  BY <1>1, IdsFinite DEF Opening

LEMMA AccountType ==
  ASSUME Typed, NEW a \in AgentWs, NEW p
  PROVE  /\ Asked(a, p) \in Nat /\ Opening(a, p) \in Nat /\ Answered(a, p) \in Nat
         /\ Debt(a, p) \in Nat /\ Waits(p) \in Nat
<1>1. toAgent[a] \in Seq(FrameSet) /\ fromAgent[a] \in Seq(AgentFrames) /\ pending \in Seq(Socks)
  BY TypedParts DEF TypeOK, AgentTyped
<1>2. Asked(a, p) \in Nat /\ Answered(a, p) \in Nat /\ Waits(p) \in Nat
  BY <1>1, TallyType DEF Asked, Answered, Waits
<1> QED
  BY <1>2, UnconfirmedFinite DEF Debt

(* It is the account that AnswersDue states. *)
LEMMA AccountIs ==
  ASSUME Typed, NEW a \in AgentWs, NEW p
  PROVE  /\ Waits(p) = Cardinality({k \in DOMAIN pending : SockPort[pending[k]] = p})
         /\ Debt(a, p) = Cardinality(Requests(fromAgent[a], p)) + Cardinality(Unconfirmed(a, p))
                           + Cardinality(Answers(toAgent[a], p))
<1>1. toAgent[a] \in Seq(FrameSet) /\ fromAgent[a] \in Seq(FrameSet) /\ pending \in Seq(Socks)
  <2>1. \A q \in Seq(AgentFrames) : q \in Seq(FrameSet)
    BY SentFrames
  <2> QED
    BY <2>1, TypedParts DEF TypeOK, AgentTyped
<1>2. \A k \in DOMAIN toAgent[a] : toAgent[a][k] \in FrameSet
  BY <1>1
<1>3. \A k \in DOMAIN fromAgent[a] : fromAgent[a][k] \in FrameSet
  BY <1>1
<1>4. \A k \in DOMAIN pending : pending[k] \in Socks
  BY <1>1
<1>5. {k \in DOMAIN pending : pending[k] \in WaitersOf(p)} = {k \in DOMAIN pending : SockPort[pending[k]] = p}
  BY <1>4 DEF WaitersOf
<1>6. {k \in DOMAIN fromAgent[a] : fromAgent[a][k] \in RequestsFor(p)} = Requests(fromAgent[a], p)
  BY <1>3 DEF RequestsFor, Requests
<1>7. {k \in DOMAIN toAgent[a] : toAgent[a][k] \in AnswersTo(p)} = Answers(toAgent[a], p)
  BY <1>2 DEF AnswersTo, Answers
<1> QED
  BY <1>5, <1>6, <1>7 DEF Waits, Debt, Asked, Opening, Answered, Tally

(* What sendFrame adds to it. *)
LEMMA PostTally ==
  ASSUME TypeOK, NEW v, NEW fs \in Seq(FrameSet), NEW a \in AgentWs, NEW F
  PROVE  Tally(PostAll(toAgent, agents, v, fs)[a], F)
           = Tally(toAgent[a], F) + (IF v = a /\ agents[v] = "open" THEN Tally(fs, F) ELSE 0)
<1>1. toAgent \in [AgentWs -> Seq(FrameSet)] /\ toAgent[a] \in Seq(FrameSet) /\ Tally(toAgent[a], F) \in Nat
  BY TallyType DEF TypeOK
<1>2. CASE v = a /\ agents[v] = "open"
  <2>1. PostAll(toAgent, agents, v, fs)[a] = toAgent[a] \o fs
    BY <1>1, <1>2 DEF PostAll
  <2>2. Tally(toAgent[a] \o fs, F) = Tally(toAgent[a], F) + Tally(fs, F)
    BY <1>1, TallyConcat
  <2> QED
    BY <1>2, <2>1, <2>2
<1>3. CASE ~(v = a /\ agents[v] = "open")
  <2>1. PostAll(toAgent, agents, v, fs)[a] = toAgent[a]
    BY <1>1, <1>3 DEF PostAll
  <2> QED
    BY <1>1, <1>3, <2>1
<1> QED
  BY <1>2, <1>3

(* Frames that name no port answer nobody. *)
Portless(fs) == \A k \in DOMAIN fs : fs[k].port = NoPort

LEMMA PortlessTally ==
  ASSUME NEW fs, Portless(fs), NEW p \in Ports
  PROVE  Tally(fs, AnswersTo(p)) = 0
<1>1. \A k \in DOMAIN fs : fs[k] \notin AnswersTo(p)
  BY ServerAssumption DEF Portless, AnswersTo
<1> QED
  BY <1>1, TallyNone

LEMMA PortlessOnes ==
  /\ Portless(<<>>) /\ \A i : Portless(<<AbortOf(i)>>) /\ Portless(<<CloseOf(i)>>)
  /\ \A t, i : Portless(<<Msg(t, i)>>)
<1>1. \A t, i : DOMAIN <<Msg(t, i)>> = {1} /\ <<Msg(t, i)>>[1] = Msg(t, i)
  OBVIOUS
<1>2. \A t, i : Msg(t, i).port = NoPort
  BY DEF Msg, Frame
<1>3. \A t, i : Portless(<<Msg(t, i)>>)
  BY <1>1, <1>2 DEF Portless
<1>4. Portless(<<>>)
  BY DEF Portless
<1> QED
  BY <1>3, <1>4 DEF AbortOf, CloseOf

-----------------------------------------------------------------------------
(* What a turn of the server does to the account of an open session: it     *)
(* leaves the account alone, drops unconfirmed streams without a word,      *)
(* answers for one, or opens one for a request.                             *)
Level(a, p) == Answered(a, p)' = Answered(a, p) /\ Unconfirmed(a, p)' = Unconfirmed(a, p)
Drops(a, p) == Answered(a, p)' = Answered(a, p) /\ Unconfirmed(a, p)' \subseteq Unconfirmed(a, p)
Pays(a, p)  == /\ Answered(a, p)' = Answered(a, p) + 1
               /\ \E j \in Unconfirmed(a, p) : Unconfirmed(a, p)' = Unconfirmed(a, p) \ {j}
Takes(a, p) == /\ Answered(a, p)' = Answered(a, p)
               /\ \E j \in Ids : j \notin Unconfirmed(a, p) /\ Unconfirmed(a, p)' = Unconfirmed(a, p) \cup {j}

LEMMA SameLevel ==
  ASSUME NEW a, NEW p, streams' = streams, toAgent' = toAgent
  PROVE  Level(a, p)
  BY DEF Level, Answered, Unconfirmed, On

(* Frames without a port are sent to agents. *)
LEMMA PortlessKeeps ==
  ASSUME TypeOK, NEW a \in AgentWs, NEW p \in Ports, NEW b, NEW fs \in Seq(FrameSet), Portless(fs),
         toAgent' = PostAll(toAgent, agents, b, fs) \/ toAgent' = toAgent
  PROVE  Answered(a, p)' = Answered(a, p)
<1>1. toAgent \in [AgentWs -> Seq(FrameSet)] /\ toAgent[a] \in Seq(FrameSet)
  BY DEF TypeOK
<1>2. Tally(PostAll(toAgent, agents, b, fs)[a], AnswersTo(p))
        = Tally(toAgent[a], AnswersTo(p)) + (IF b = a /\ agents[b] = "open" THEN Tally(fs, AnswersTo(p)) ELSE 0)
  BY PostTally
<1>3. Tally(fs, AnswersTo(p)) = 0 /\ Tally(toAgent[a], AnswersTo(p)) \in Nat
  BY <1>1, PortlessTally, TallyType
<1> QED
  BY <1>2, <1>3 DEF Answered

(* Streams are freed. *)
LEMMA FreedUnconfirmed ==
  ASSUME NEW a, NEW p, NEW S, Freed(S)
  PROVE  Unconfirmed(a, p)' = Unconfirmed(a, p) \ S
<1>1. streams' = [i \in Ids |-> IF i \in S THEN Free ELSE streams[i]]
  BY DEF Freed
<1>2. \A i \in Ids : streams'[i] = IF i \in S THEN Free ELSE streams[i]
  BY <1>1
<1> QED
  BY <1>2 DEF Unconfirmed, On, Free

LEMMA EndAccount ==
  ASSUME TypeOK, NEW a \in AgentWs, NEW p \in Ports, NEW i \in Ids,
         NEW toA \in Seq(FrameSet), NEW toC, Portless(toA), EndStream(i, toA, toC)
  PROVE  Drops(a, p) /\ (~streams[i].awaiting => Level(a, p))
<1>1. Freed({i}) /\ (toAgent' = PostAll(toAgent, agents, streams[i].agent, toA) \/ toAgent' = toAgent)
  BY DEF EndStream
<1>2. Answered(a, p)' = Answered(a, p)
  BY <1>1, PortlessKeeps
<1>3. Unconfirmed(a, p)' = Unconfirmed(a, p) \ {i}
  BY <1>1, FreedUnconfirmed
<1>4. ~streams[i].awaiting => i \notin Unconfirmed(a, p)
  BY UnconfirmedIs
<1> QED
  BY <1>2, <1>3, <1>4 DEF Drops, Level

LEMMA AbortAccount ==
  ASSUME TypeOK, NEW a \in AgentWs, NEW p \in Ports, NEW i \in Ids, NEW notify, Abort(i, notify)
  PROVE  Drops(a, p) /\ (~streams[i].awaiting => Level(a, p))
<1>1. EndStream(i, <<AbortOf(i)>>, IF notify THEN <<AbortOf(i)>> ELSE <<>>)
  BY DEF Abort
<1>2. <<AbortOf(i)>> \in Seq(FrameSet) /\ Portless(<<AbortOf(i)>>)
  BY EndFrames, PortlessOnes
<1> QED
  BY <1>1, <1>2, EndAccount

LEMMA RelayAccount ==
  ASSUME TypeOK, NEW a \in AgentWs, NEW p \in Ports, NEW i \in Ids, ~streams[i].awaiting, Relay(i)
  PROVE  Level(a, p)
<1>1. CASE clients[streams[i].ws] = "open"
  BY <1>1, SameLevel DEF Relay, streamVars
<1>2. CASE clients[streams[i].ws] # "open"
  BY <1>2, AbortAccount DEF Relay
<1> QED
  BY <1>1, <1>2

(* A stream of another agent, port or kind is opened, or one of this.       *)
LEMMA OpenAccount ==
  ASSUME TypeOK, NEW a \in AgentWs, NEW p \in Ports, NEW i \in Ids, NEW s, Open(i, s), toAgent' = toAgent
  PROVE  /\ ~(s.kind = "agent" /\ s.agent = a /\ s.port = p /\ s.awaiting) => Level(a, p)
         /\ s.kind = "agent" /\ s.agent = a /\ s.port = p /\ s.awaiting => Takes(a, p)
<1>1. streams' = [streams EXCEPT ![i] = s] /\ i \notin LiveIds
  BY DEF Open, Allocates
<1>2. streams'[i] = s /\ \A j \in Ids : j # i => streams'[j] = streams[j]
  BY <1>1 DEF TypeOK
<1>3. i \notin Unconfirmed(a, p)
  BY <1>1, UnconfirmedIs DEF LiveIds
<1>4. Answered(a, p)' = Answered(a, p)
  BY DEF Answered
<1>5. ASSUME NEW j
      PROVE  j \in Unconfirmed(a, p)' <=>
               j \in Ids /\ streams'[j].kind = "agent" /\ streams'[j].port = p /\ streams'[j].agent = a
                 /\ streams'[j].awaiting
  BY DEF Unconfirmed, On
<1>6. \A j : j # i => (j \in Unconfirmed(a, p)' <=> j \in Unconfirmed(a, p))
  BY <1>2, <1>5, UnconfirmedIs
<1>7. i \in Unconfirmed(a, p)' <=> s.kind = "agent" /\ s.port = p /\ s.agent = a /\ s.awaiting
  BY <1>2, <1>5
<1>8. CASE s.kind = "agent" /\ s.agent = a /\ s.port = p /\ s.awaiting
  <2>1. Unconfirmed(a, p)' = Unconfirmed(a, p) \cup {i}
    BY <1>6, <1>7, <1>8
  <2> QED
    BY <1>3, <1>4, <1>8, <2>1 DEF Takes
<1>9. CASE ~(s.kind = "agent" /\ s.agent = a /\ s.port = p /\ s.awaiting)
  <2>1. Unconfirmed(a, p)' = Unconfirmed(a, p)
    BY <1>3, <1>6, <1>7, <1>9
  <2> QED
    BY <1>4, <1>9, <2>1 DEF Level
<1> QED
  BY <1>8, <1>9

(* An answer for a stream of the session and port. *)
LEMMA AnswerTally ==
  ASSUME NEW q \in Ports \cup {NoPort}, NEW j \in Ids, NEW p \in Ports
  PROVE  /\ Tally(<<Frame("TCP_CONNECT_ACK", j, q)>>, AnswersTo(p)) = (IF q = p THEN 1 ELSE 0)
         /\ Tally(<<Frame("TCP_ABORT", 0, q), AbortOf(j)>>, AnswersTo(p)) = (IF q = p THEN 1 ELSE 0)
<1> DEFINE f == Frame("TCP_CONNECT_ACK", j, q)
           g == Frame("TCP_ABORT", 0, q)
           h == AbortOf(j)
<1>1. f \in FrameSet /\ g \in FrameSet /\ h \in FrameSet
  BY FrameType, EndFrames DEF TcpTypes
<1>2. f \in AnswersTo(p) <=> q = p
  BY <1>1 DEF AnswersTo, Frame
<1>3. g \in AnswersTo(p) <=> q = p
  BY <1>1 DEF AnswersTo, Frame
<1>4. h \notin AnswersTo(p)
  BY ServerAssumption DEF AnswersTo, AbortOf, Msg, Frame
<1> HIDE DEF f, g, h
<1>5. Tally(<<f>>, AnswersTo(p)) = (IF q = p THEN 1 ELSE 0)
  BY <1>2, TallyOne
<1>6. Tally(<<g, h>>, AnswersTo(p)) = (IF q = p THEN 1 ELSE 0)
  BY <1>1, <1>3, <1>4, TallyTwo
<1> QED
  BY <1>5, <1>6 DEF f, g, h

LEMMA PaidAccount ==
  ASSUME TypeOK, NEW a \in AgentWs, agents[a] = "open", NEW p \in Ports, NEW j \in Ids,
         IsAgent(j), streams[j].awaiting, NEW fs \in Seq(FrameSet),
         Tally(fs, AnswersTo(p)) = (IF streams[j].port = p THEN 1 ELSE 0),
         toAgent' = PostAll(toAgent, agents, streams[j].agent, fs),
         Unconfirmed(a, p)' = Unconfirmed(a, p) \ {j}
  PROVE  Level(a, p) \/ Pays(a, p)
<1>1. Answered(a, p)' = Answered(a, p) + (IF streams[j].agent = a THEN Tally(fs, AnswersTo(p)) ELSE 0)
  BY PostTally DEF Answered
<1>2. Answered(a, p) \in Nat
  BY TallyType DEF Answered, TypeOK
<1>3. j \in Unconfirmed(a, p) <=> streams[j].agent = a /\ streams[j].port = p
  BY UnconfirmedIs DEF IsAgent
<1>4. CASE streams[j].agent = a /\ streams[j].port = p
  BY <1>1, <1>3, <1>4 DEF Pays
<1>5. CASE ~(streams[j].agent = a /\ streams[j].port = p)
  BY <1>1, <1>2, <1>3, <1>5 DEF Level
<1> QED
  BY <1>4, <1>5

(* A frame that ends an unconfirmed stream of the client's, and is not the  *)
(* TCP_ABORT that the agent is told of.                                     *)
Unheeded(w, f) ==
  /\ f.id \in Ids /\ Live(f.id) /\ streams[f.id].ws = w /\ streams[f.id].awaiting
  /\ f.type \in {"TCP_CLOSE", "RES_ABORT"}

LEMMA ClientFrameAccount ==
  ASSUME TypeOK, NEW a \in AgentWs, agents[a] = "open", NEW p \in Ports,
         NEW w \in ClientWs, NEW f \in ClientFrames, OnClientFrame(w, f),
         \A i \in Ids : streams[i].awaiting => IsAgent(i)
  PROVE  Level(a, p) \/ Pays(a, p) \/ (Drops(a, p) /\ Unheeded(w, f))
<1> DEFINE j == f.id
<1>0. j \in Ids
  BY DEF ClientFrames, Msg, Frame
<1>1. CASE ~(j \in LiveIds /\ streams[j].ws = w)
  BY <1>1, SameLevel DEF OnClientFrame, vars, streamVars, channels
<1>2. CASE j \in LiveIds /\ streams[j].ws = w
  <2>0. Live(j) /\ streams[j].port \in Ports \cup {NoPort}
    BY <1>0, <1>2 DEF LiveIds, Live, TypeOK, Stream
  <2>1. CASE f.type = "TCP_DATA" /\ ClientData(j)
    <3>1. <<Msg("TCP_DATA", j)>> \in Seq(FrameSet) /\ Portless(<<Msg("TCP_DATA", j)>>)
      <4>1. Msg("TCP_DATA", j) \in FrameSet
        BY <1>0, FrameType DEF TcpTypes
      <4> QED
        BY <4>1, PortlessOnes
    <3>2. /\ toAgent' = toAgent \/ toAgent' = PostAll(toAgent, agents, streams[j].agent, <<Msg("TCP_DATA", j)>>)
          /\ streams' = streams
      BY <2>1 DEF ClientData, Post, streamVars
    <3>3. Answered(a, p)' = Answered(a, p)
      BY <3>1, <3>2, PortlessKeeps
    <3> QED
      BY <3>2, <3>3 DEF Level, Unconfirmed, On
  <2>2. CASE f.type = "TCP_CLOSE" /\ EndStream(j, <<CloseOf(j)>>, <<>>)
    <3>1. <<CloseOf(j)>> \in Seq(FrameSet) /\ Portless(<<CloseOf(j)>>)
      BY <1>0, EndFrames, PortlessOnes
    <3>2. Drops(a, p) /\ (~streams[j].awaiting => Level(a, p))
      BY <1>0, <2>2, <3>1, EndAccount
    <3> QED
      BY <1>0, <1>2, <2>0, <2>2, <3>2 DEF Unheeded
  <2>3. CASE f.type = "TCP_OPEN_ACK" /\ ClientOpenAck(j)
    <3>1. CASE streams[j].awaiting
      <4> DEFINE g == Frame("TCP_CONNECT_ACK", j, streams[j].port)
      <4>1. /\ streams' = [streams EXCEPT ![j].awaiting = FALSE]
            /\ toAgent' = PostAll(toAgent, agents, streams[j].agent, <<g>>)
        BY <2>3, <3>1 DEF ClientOpenAck, Post
      <4>2. g \in FrameSet /\ Tally(<<g>>, AnswersTo(p)) = (IF streams[j].port = p THEN 1 ELSE 0)
        BY <1>0, <2>0, FrameType, AnswerTally DEF TcpTypes
      <4> HIDE DEF g
      <4>3. <<g>> \in Seq(FrameSet)
        BY <4>2
      <4>4. ~streams'[j].awaiting /\ \A i \in Ids : i # j => streams'[i] = streams[i]
        BY <1>0, <4>1 DEF TypeOK, Stream
      <4>5. ASSUME NEW i
            PROVE  i \in Unconfirmed(a, p)' <=>
                     i \in Ids /\ streams'[i].kind = "agent" /\ streams'[i].port = p /\ streams'[i].agent = a
                       /\ streams'[i].awaiting
        BY DEF Unconfirmed, On
      <4>6. Unconfirmed(a, p)' = Unconfirmed(a, p) \ {j}
        BY <4>4, <4>5, UnconfirmedIs
      <4> QED
        BY <1>0, <3>1, <4>1, <4>2, <4>3, <4>6, PaidAccount
    <3>2. CASE ~streams[j].awaiting
      BY <2>3, <3>2, SameLevel DEF ClientOpenAck, vars, streamVars, channels
    <3> QED
      BY <3>1, <3>2
  <2>4. CASE f.type = "TCP_ABORT" /\ ClientAbort(j)
    <3>1. CASE streams[j].awaiting
      <4> DEFINE fs == <<Frame("TCP_ABORT", 0, streams[j].port), AbortOf(j)>>
      <4>1. EndStream(j, fs, <<>>) /\ IsAgent(j)
        BY <1>0, <2>4, <3>1 DEF ClientAbort
      <4>2. Tally(fs, AnswersTo(p)) = (IF streams[j].port = p THEN 1 ELSE 0)
        BY <1>0, <2>0, AnswerTally
      <4>3. fs \in Seq(FrameSet)
        <5>1. Frame("TCP_ABORT", 0, streams[j].port) \in FrameSet /\ AbortOf(j) \in FrameSet
          BY <1>0, <2>0, FrameType, EndFrames DEF TcpTypes
        <5> QED
          BY <5>1
      <4> HIDE DEF fs
      <4>4. Freed({j}) /\ toAgent' = PostAll(toAgent, agents, streams[j].agent, fs)
        BY <4>1 DEF EndStream
      <4>5. Unconfirmed(a, p)' = Unconfirmed(a, p) \ {j}
        BY <4>4, FreedUnconfirmed
      <4> QED
        BY <1>0, <3>1, <4>1, <4>2, <4>3, <4>4, <4>5, PaidAccount
    <3>2. CASE ~streams[j].awaiting
      <4>1. EndStream(j, <<AbortOf(j)>>, <<>>)
        BY <2>4, <3>2 DEF ClientAbort
      <4>2. <<AbortOf(j)>> \in Seq(FrameSet) /\ Portless(<<AbortOf(j)>>)
        BY <1>0, EndFrames, PortlessOnes
      <4> QED
        BY <1>0, <3>2, <4>1, <4>2, EndAccount
    <3> QED
      BY <3>1, <3>2
  <2>5. CASE f.type = "RESUME" /\ ClientResume(j)
    <3>1. CASE UNCHANGED vars
      BY <3>1, SameLevel DEF vars, streamVars, channels
    <3>2. CASE ~streams[j].awaiting /\ Relay(j)
      BY <1>0, <3>2, RelayAccount
    <3> QED
      BY <2>5, <3>1, <3>2 DEF ClientResume
  <2>6. CASE f.type = "RES_ABORT" /\ ClientResAbort(j)
    <3>1. streams' = [streams EXCEPT ![j] = Free] /\ toAgent' = toAgent
      BY <2>6 DEF ClientResAbort, channels
    <3>2. streams'[j] = Free /\ \A i \in Ids : i # j => streams'[i] = streams[i]
      BY <1>0, <3>1 DEF TypeOK
    <3>3. Answered(a, p)' = Answered(a, p)
      BY <3>1 DEF Answered
    <3>4. ASSUME NEW i
          PROVE  i \in Unconfirmed(a, p)' <=>
                   i \in Ids /\ streams'[i].kind = "agent" /\ streams'[i].port = p /\ streams'[i].agent = a
                     /\ streams'[i].awaiting
      BY DEF Unconfirmed, On
    <3>5. Unconfirmed(a, p)' = Unconfirmed(a, p) \ {j}
      BY <3>2, <3>4, UnconfirmedIs DEF Free
    <3>6. ~streams[j].awaiting => j \notin Unconfirmed(a, p)
      BY UnconfirmedIs
    <3> QED
      BY <1>0, <1>2, <2>0, <2>6, <3>3, <3>5, <3>6 DEF Level, Drops, Unheeded
  <2> QED
    BY <1>2, <2>1, <2>2, <2>3, <2>4, <2>5, <2>6 DEF OnClientFrame
<1> QED
  BY <1>1, <1>2

(* A frame of an agent: only TCP_CONNECT changes the account, of its own    *)
(* session and port, unless it is refused.                                  *)
LEMMA AgentFrameAccount ==
  ASSUME TypeOK, NEW a \in AgentWs, NEW p \in Ports, NEW b \in AgentWs, NEW f \in AgentFrames, OnAgentFrame(b, f)
  PROVE  \/ Level(a, p) /\ (b = a /\ f \in RequestsFor(p) => Refused(a, p))
         \/ Takes(a, p) /\ b = a /\ f \in RequestsFor(p)
<1> DEFINE j == f.id
<1>0. f \in RequestsFor(p) <=> f.type = "TCP_CONNECT" /\ f.port = p
  BY SentFrames DEF RequestsFor
<1>1. CASE f.type = "TCP_CONNECT"
  <2>0. AgentConnect(b, f.port) /\ f.port \in Ports
    BY <1>1 DEF OnAgentFrame, AgentFrames, Msg, Frame
  <2>1. CASE /\ Refused(b, f.port)
             /\ toAgent' = Post(toAgent, agents, b, Msg("TCP_ABORT", 0))
             /\ UNCHANGED <<wsVars, streamVars, nextId, toClient>>
    <3>1. <<Msg("TCP_ABORT", 0)>> \in Seq(FrameSet) /\ Portless(<<Msg("TCP_ABORT", 0)>>)
      <4>1. Msg("TCP_ABORT", 0) \in FrameSet
        BY FrameType DEF TcpTypes
      <4> QED
        BY <4>1, PortlessOnes
    <3>2. Answered(a, p)' = Answered(a, p)
      BY <2>1, <3>1, PortlessKeeps DEF Post
    <3>3. Unconfirmed(a, p)' = Unconfirmed(a, p)
      BY <2>1 DEF Unconfirmed, On, streamVars
    <3> QED
      BY <1>0, <2>1, <3>2, <3>3 DEF Level
  <2>2. ASSUME NEW w \in ActiveClients, NEW i \in Ids, toAgent' = toAgent,
               Open(i, [kind |-> "agent", ws |-> w, agent |-> b, port |-> f.port, awaiting |-> TRUE])
        PROVE  \/ Level(a, p) /\ (b = a /\ f \in RequestsFor(p) => Refused(a, p))
               \/ Takes(a, p) /\ b = a /\ f \in RequestsFor(p)
    <3> DEFINE s == [kind |-> "agent", ws |-> w, agent |-> b, port |-> f.port, awaiting |-> TRUE]
    <3>1. s.kind = "agent" /\ s.agent = b /\ s.port = f.port /\ s.awaiting /\ Open(i, s)
      BY <2>2
    <3> HIDE DEF s
    <3>2. /\ ~(b = a /\ f.port = p) => Level(a, p)
          /\ b = a /\ f.port = p => Takes(a, p)
      BY <2>2, <3>1, OpenAccount
    <3> QED
      BY <1>0, <1>1, <3>2
  <2> QED
    BY <2>0, <2>1, <2>2 DEF AgentConnect
<1>2. CASE f.type # "TCP_CONNECT"
  <2>0. j \in Ids /\ f \notin RequestsFor(p)
    BY <1>0, <1>2 DEF AgentFrames, Msg, Frame
  <2>1. CASE j \notin LiveIds \/ ~IsAgent(j)
    <3>1. StreamNotFound(b, f)
      BY <1>2, <2>1 DEF OnAgentFrame
    <3>2. <<AbortOf(j)>> \in Seq(FrameSet) /\ Portless(<<AbortOf(j)>>)
      BY <2>0, EndFrames, PortlessOnes
    <3>3. (toAgent' = PostAll(toAgent, agents, b, <<AbortOf(j)>>) \/ toAgent' = toAgent) /\ streams' = streams
      BY <3>1 DEF StreamNotFound, Post, streamVars
    <3>4. Answered(a, p)' = Answered(a, p)
      BY <3>2, <3>3, PortlessKeeps
    <3> QED
      BY <2>0, <3>3, <3>4 DEF Level, Unconfirmed, On
  <2>2. CASE j \in LiveIds /\ IsAgent(j) /\ (streams[j].agent # b \/ streams[j].awaiting)
    <3>1. UNCHANGED vars
      BY <1>2, <2>2 DEF OnAgentFrame
    <3> QED
      BY <2>0, <3>1, SameLevel DEF vars, streamVars, channels
  <2>3. CASE j \in LiveIds /\ IsAgent(j) /\ streams[j].agent = b /\ ~streams[j].awaiting
    <3>1. \/ AgentData(j)
          \/ EndStream(j, <<>>, <<CloseOf(j)>>)
          \/ EndStream(j, <<>>, <<AbortOf(j)>>)
      BY <1>2, <2>3 DEF OnAgentFrame
    <3>2. /\ <<>> \in Seq(FrameSet) /\ Portless(<<>>)
          /\ <<AbortOf(j)>> \in Seq(FrameSet) /\ Portless(<<AbortOf(j)>>)
      BY <2>0, EndFrames, PortlessOnes
    <3>3. ASSUME NEW toA \in {<<>>, <<AbortOf(j)>>}, NEW toC, EndStream(j, toA, toC) PROVE Level(a, p)
      <4>1. toA \in Seq(FrameSet) /\ Portless(toA)
        BY <3>2
      <4> QED
        BY <2>0, <2>3, <3>3, <4>1, EndAccount
    <3>4. Relay(j) => Level(a, p)
      BY <2>0, <2>3, RelayAccount
    <3>5. UNCHANGED vars => Level(a, p)
      BY SameLevel DEF vars, streamVars, channels
    <3>6. Level(a, p)
      BY <3>1, <3>3, <3>4, <3>5 DEF AgentData
    <3> QED
      BY <2>0, <3>6
  <2> QED
    BY <2>1, <2>2, <2>3
<1> QED
  BY <1>1, <1>2

(* Notices name no port. *)
LEMMA NotifyKeeps ==
  ASSUME TypeOK, NEW a \in AgentWs, NEW p \in Ports, NEW S \in SUBSET Ids, NotifyAgents(S)
  PROVE  Answered(a, p)' = Answered(a, p)
<1> DEFINE T(b) == {k \in S : IsAgent(k) /\ streams[k].agent = b}
<1>1. PICK q \in Notifications(AgentWs, T) :
        toAgent' = [b \in AgentWs |->
                      IF agents[b] = "open" THEN toAgent[b] \o Aborts(q[b]) ELSE toAgent[b]]
  BY DEF NotifyAgents
<1>2. q[a] \in Orders(T(a)) /\ T(a) \in SUBSET Ids
  BY DEF Notifications
<1> HIDE DEF T
<1>3. Aborts(q[a]) \in Seq(FrameSet)
  BY <1>2, AbortsType
<1>4. Portless(Aborts(q[a]))
  <2>1. DOMAIN Aborts(q[a]) = DOMAIN q[a] /\ \A k \in DOMAIN q[a] : Aborts(q[a])[k] = AbortOf(q[a][k])
    BY DEF Aborts
  <2>2. \A k : AbortOf(k).port = NoPort
    BY DEF AbortOf, Msg, Frame
  <2>3. \A k \in DOMAIN Aborts(q[a]) : Aborts(q[a])[k].port = NoPort
    BY <2>1, <2>2
  <2> QED
    BY <2>3 DEF Portless
<1>5. toAgent[a] \in Seq(FrameSet)
  BY DEF TypeOK
<1>6. Tally(toAgent[a] \o Aborts(q[a]), AnswersTo(p)) = Tally(toAgent[a], AnswersTo(p)) + Tally(Aborts(q[a]), AnswersTo(p))
  BY <1>3, <1>5, TallyConcat
<1>7. Tally(Aborts(q[a]), AnswersTo(p)) = 0 /\ Tally(toAgent[a], AnswersTo(p)) \in Nat
  BY <1>4, <1>5, PortlessTally, TallyType
<1>8. toAgent'[a] = (IF agents[a] = "open" THEN toAgent[a] \o Aborts(q[a]) ELSE toAgent[a])
  BY <1>1
<1> QED
  BY <1>6, <1>7, <1>8 DEF Answered

(* The server's own sockets and connections: an unconfirmed stream ends     *)
(* only with its client.  (The idle timer's step is AbortAccount's.)        *)
Events ==
  \/ \E q \in Ports : DirectConnect(q)
  \/ \E i \in Ids : DirectData(i) \/ DirectClose(i) \/ DirectError(i)
  \/ \E w \in ClientWs : ClientClosing(w) \/ ClientClosed(w)
  \/ \E b \in AgentWs : AgentClosing(b) \/ AgentClosed(b)
  \/ Shutdown

LEMMA EventAccount ==
  ASSUME TypeOK, NEW a \in AgentWs, NEW p \in Ports, agents[a] = "open", agents'[a] = "open", Events,
         \A b \in AgentWs, i \in Ids : i \in agentStreams[b] /\ Live(i) => streams[i].agent = b,
         \A i \in Ids : streams[i].awaiting => IsAgent(i)
  PROVE  Level(a, p) \/ (Drops(a, p) /\ \E w \in ClientWs : clients[w] = "closing")
<1>1. ASSUME NEW q \in Ports, DirectConnect(q) PROVE Level(a, p)
  <2> DEFINE s(w) == [kind |-> "direct", ws |-> w, agent |-> NoWs, port |-> q, awaiting |-> FALSE]
  <2>1. PICK w \in ActiveClients, i \in Ids : Open(i, s(w))
    BY <1>1 DEF DirectConnect
  <2>2. s(w).kind = "direct" /\ toAgent' = toAgent
    BY <1>1 DEF DirectConnect
  <2> HIDE DEF s
  <2> QED
    BY <2>1, <2>2, OpenAccount
<1>2. ASSUME NEW i \in Ids, DirectData(i) \/ DirectClose(i) \/ DirectError(i) PROVE Level(a, p)
  <2>1. ~streams[i].awaiting
    BY <1>2 DEF DirectData, DirectClose, DirectError, IsDirect, IsAgent
  <2>2. <<>> \in Seq(FrameSet) /\ Portless(<<>>)
    BY EndFrames, PortlessOnes
  <2>3. ASSUME NEW toC, EndStream(i, <<>>, toC) PROVE Level(a, p)
    BY <2>1, <2>2, <2>3, EndAccount
  <2> QED
    BY <1>2, <2>1, <2>3, RelayAccount DEF DirectData, DirectClose, DirectError
<1>3. ASSUME NEW w \in ClientWs, ClientClosing(w) PROVE Level(a, p)
  BY <1>3, SameLevel DEF ClientClosing, streamVars, channels
<1>4. ASSUME NEW b \in AgentWs, AgentClosing(b) PROVE Level(a, p)
  BY <1>4, SameLevel DEF AgentClosing, streamVars, channels
<1>5. ASSUME NEW w \in ClientWs, ClientClosed(w) PROVE Drops(a, p) /\ clients[w] = "closing"
  <2>1. StreamsOn(w) \in SUBSET Ids /\ Freed(StreamsOn(w)) /\ NotifyAgents(StreamsOn(w)) /\ clients[w] = "closing"
    BY <1>5 DEF ClientClosed, StreamsOn, LiveIds
  <2> QED
    BY <2>1, NotifyKeeps, FreedUnconfirmed DEF Drops
<1>6. ASSUME NEW b \in AgentWs, AgentClosed(b) PROVE Level(a, p)
  <2> DEFINE gone == agentStreams[b] \cap LiveIds
  <2>1. b # a /\ Freed(gone) /\ toAgent' = [toAgent EXCEPT ![b] = <<>>]
    BY <1>6 DEF AgentClosed
  <2>2. Answered(a, p)' = Answered(a, p)
    BY <2>1 DEF Answered, TypeOK
  <2>3. \A i \in gone : i \notin Unconfirmed(a, p)
    BY <2>1, UnconfirmedIs DEF LiveIds, Live
  <2> HIDE DEF gone
  <2>4. Unconfirmed(a, p)' = Unconfirmed(a, p)
    <3>1. Unconfirmed(a, p)' = Unconfirmed(a, p) \ gone
      BY <2>1, FreedUnconfirmed
    <3> QED
      BY <2>3, <3>1
  <2> QED
    BY <2>2, <2>4 DEF Level
<1>7. ~Shutdown
  BY DEF Shutdown, TypeOK
<1> QED
  BY <1>1, <1>2, <1>3, <1>4, <1>5, <1>6, <1>7 DEF Events

-----------------------------------------------------------------------------
(* A step of the tunnel, as the account of a port on an open session sees   *)
(* it.  Debt and waiters move together, but for what the state announces.   *)
Steady    == \A k \in DOMAIN pending : sock[pending[k]] = "open"
Deserting == "app_leaves" \in Faults \/ ~Steady

Forfeiting(a) ==
  \/ "server_idle" \in Faults
  \/ \E w \in ClientWs : clients[w] = "closing"
  \/ \E w \in ClientWs : fromClient[w] # <<>> /\ Unheeded(w, Head(fromClient[w]))
  \/ /\ fromAgent[a] # <<>>
     /\ Head(fromAgent[a]).type = "TCP_CONNECT" /\ Refused(a, Head(fromAgent[a]).port)

Even(a, p)    == Debt(a, p)' + Waits(p) = Debt(a, p) + Waits(p)'
Writeoff(a, p) == Debt(a, p)' <= Debt(a, p) /\ Waits(p)' = Waits(p)
Desertion(a, p) == Debt(a, p)' = Debt(a, p) /\ Waits(p)' <= Waits(p)

Balance(a, p) ==
  \/ Even(a, p)
  \/ Writeoff(a, p) /\ (Forfeiting(a) \/ Waits(p) = 0)
  \/ Desertion(a, p) /\ Deserting

Settles(a, p) == Talking(a)' => Talking(a) /\ Balance(a, p)

(* What the server's turn makes of the unconfirmed streams and the answers. *)
LEMMA OutcomeCounts ==
  ASSUME Typed, NEW a \in AgentWs, NEW p
  PROVE  /\ Level(a, p) => Opening(a, p)' = Opening(a, p) /\ Answered(a, p)' = Answered(a, p)
         /\ Drops(a, p) => Opening(a, p)' \in Nat /\ Opening(a, p)' <= Opening(a, p) /\ Answered(a, p)' = Answered(a, p)
         /\ Pays(a, p) => Opening(a, p)' + 1 = Opening(a, p) /\ Opening(a, p)' \in Nat /\ Answered(a, p)' = Answered(a, p) + 1
         /\ Takes(a, p) => Opening(a, p)' = Opening(a, p) + 1 /\ Answered(a, p)' = Answered(a, p)
<1> DEFINE U == Unconfirmed(a, p)
           V == Unconfirmed(a, p)'
<1>1. IsFiniteSet(U) /\ Opening(a, p) = Cardinality(U) /\ Cardinality(U) \in Nat /\ Opening(a, p)' = Cardinality(V)
  BY UnconfirmedFinite DEF Opening
<1>2. /\ Level(a, p) <=> Answered(a, p)' = Answered(a, p) /\ V = U
      /\ Drops(a, p) <=> Answered(a, p)' = Answered(a, p) /\ V \subseteq U
      /\ Pays(a, p) <=> Answered(a, p)' = Answered(a, p) + 1 /\ \E j \in U : V = U \ {j}
      /\ Takes(a, p) <=> Answered(a, p)' = Answered(a, p) /\ \E j \in Ids : j \notin U /\ V = U \cup {j}
  BY DEF Level, Drops, Pays, Takes
<1> HIDE DEF U, V
<1>3. V \subseteq U => Cardinality(V) \in Nat /\ Cardinality(V) <= Cardinality(U)
  BY <1>1, FS_Subset, FS_CardinalityType
<1>4. ASSUME NEW j \in U, V = U \ {j} PROVE Cardinality(V) = Cardinality(U) - 1 /\ Cardinality(V) \in Nat
  BY <1>1, <1>3, <1>4, FS_RemoveElement
<1>5. ASSUME NEW j, j \notin U, V = U \cup {j} PROVE Cardinality(V) = Cardinality(U) + 1
  BY <1>1, <1>5, FS_AddElement
<1> QED
  BY <1>1, <1>2, <1>3, <1>4, <1>5

(* Neither the streams nor what is under way changes. *)
LEMMA StillAccount ==
  ASSUME NEW a, NEW p, UNCHANGED <<streams, toAgent, fromAgent, pending>>
  PROVE  Debt(a, p)' = Debt(a, p) /\ Waits(p)' = Waits(p)
  BY DEF Debt, Asked, Opening, Unconfirmed, On, Answered, Waits

LEMMA StillSettles ==
  ASSUME Typed, NEW a \in AgentWs, NEW p, UNCHANGED <<streams, toAgent, fromAgent, pending>>, Talking(a)' => Talking(a)
  PROVE  Settles(a, p)
  BY StillAccount, AccountType DEF Settles, Balance, Even

(* A turn of the server in which it takes no frame of the agent's. *)
LEMMA ServerSettles ==
  ASSUME Typed, NEW a \in AgentWs, NEW p, UNCHANGED <<fromAgent, pending>>, Talking(a),
         Level(a, p) \/ Pays(a, p) \/ (Drops(a, p) /\ Forfeiting(a))
  PROVE  Settles(a, p)
<1>1. Asked(a, p)' = Asked(a, p) /\ Waits(p)' = Waits(p)
  BY DEF Asked, Waits
<1>2. /\ Asked(a, p) \in Nat /\ Opening(a, p) \in Nat /\ Answered(a, p) \in Nat /\ Waits(p) \in Nat
      /\ Debt(a, p) = Asked(a, p) + Opening(a, p) + Answered(a, p)
      /\ Debt(a, p)' = Asked(a, p)' + Opening(a, p)' + Answered(a, p)'
  BY AccountType DEF Debt
<1>3. Level(a, p) \/ Pays(a, p) => Even(a, p)
  BY <1>1, <1>2, OutcomeCounts DEF Even
<1>4. Drops(a, p) => Writeoff(a, p)
  BY <1>1, <1>2, OutcomeCounts DEF Writeoff
<1> QED
  BY <1>3, <1>4 DEF Settles, Balance

(* A frame opens and closes no WebSocket. *)
LEMMA FramesKeepLinks ==
  ASSUME NEW b, NEW f, OnClientFrame(b, f) \/ OnAgentFrame(b, f)
  PROVE  UNCHANGED wsVars
<1>1. \A i, notify : Abort(i, notify) => UNCHANGED wsVars
  BY DEF Abort, EndStream
<1>2. \A i : Relay(i) => UNCHANGED wsVars
  BY <1>1 DEF Relay
<1>3. \A i, s : Open(i, s) => UNCHANGED wsVars
  BY DEF Open
<1>4. OnClientFrame(b, f) => UNCHANGED wsVars
  BY <1>2 DEF OnClientFrame, ClientData, EndStream, ClientOpenAck, ClientAbort, ClientResume, ClientResAbort, vars
<1>5. \A p : AgentConnect(b, p) => UNCHANGED wsVars
  BY <1>3 DEF AgentConnect
<1>6. OnAgentFrame(b, f) => UNCHANGED wsVars
  BY <1>2, <1>5 DEF OnAgentFrame, StreamNotFound, AgentData, EndStream, vars
<1> QED
  BY <1>4, <1>6

LEMMA ServerHearsClientSettles ==
  ASSUME Typed, Joint, NEW a \in AgentWs, NEW p \in Ports, NEW w \in ClientWs, ServerHearsClient(w)
  PROVE  Settles(a, p)
<1> SUFFICES ASSUME Talking(a)' PROVE Settles(a, p)
  BY DEF Settles
<1> DEFINE f == Head(fromClient[w])
<1>1. /\ fromClient[w] # <<>> /\ OnClientFrame(w, f)
      /\ UNCHANGED <<agentLinks, pending, fromAgent>>
  BY DEF ServerHearsClient, agentVars
<1>2. TypeOK /\ f \in ClientFrames
  <2>1. fromClient[w] \in Seq(ClientFrames) /\ TypeOK
    BY TypedParts DEF ClientTyped
  <2> QED
    BY <1>1, <2>1
<1>3. Talking(a)
  BY <1>1, FramesKeepLinks DEF Talking, wsVars
<1>4. \A i \in Ids : streams[i].awaiting => IsAgent(i)
  BY DEF Joint, Sound, Owned
<1>5. Unheeded(w, f) => Forfeiting(a)
  BY <1>1 DEF Forfeiting
<1> HIDE DEF f
<1>6. Level(a, p) \/ Pays(a, p) \/ (Drops(a, p) /\ Unheeded(w, f))
  BY <1>1, <1>2, <1>3, <1>4, ClientFrameAccount DEF Talking
<1> QED
  BY <1>1, <1>3, <1>5, <1>6, ServerSettles

(* What the agent sent is taken from what is under way. *)
LEMMA ServerHearsAgentSettles ==
  ASSUME Typed, Joint, NEW a \in AgentWs, NEW p \in Ports, NEW b \in AgentWs, ServerHearsAgent(b)
  PROVE  Settles(a, p)
<1> SUFFICES ASSUME Talking(a)' PROVE Settles(a, p)
  BY DEF Settles
<1> DEFINE f == Head(fromAgent[b])
<1>1. /\ fromAgent[b] # <<>> /\ OnAgentFrame(b, f)
      /\ fromAgent' = [fromAgent EXCEPT ![b] = Tail(@)]
      /\ UNCHANGED <<agentLinks, pending>>
  BY DEF ServerHearsAgent, agentVars, Pop
<1>2. /\ TypeOK /\ f \in AgentFrames /\ fromAgent \in [AgentWs -> Seq(AgentFrames)]
      /\ fromAgent[b] \in Seq(AgentFrames) /\ f.type = Head(fromAgent[b]).type
  <2>1. fromAgent \in [AgentWs -> Seq(AgentFrames)] /\ TypeOK
    BY TypedParts DEF AgentTyped
  <2> QED
    BY <1>1, <2>1
<1>3. Talking(a)
  BY <1>1, FramesKeepLinks DEF Talking, wsVars
<1>4. Waits(p)' = Waits(p)
  BY <1>1 DEF Waits
<1>5. Asked(a, p) = Asked(a, p)' + (IF b = a /\ f \in RequestsFor(p) THEN 1 ELSE 0) /\ Asked(a, p)' \in Nat
  <2>1. CASE b = a
    <3>1. Tally(fromAgent[b], RequestsFor(p))
            = Tally(Tail(fromAgent[b]), RequestsFor(p)) + (IF f \in RequestsFor(p) THEN 1 ELSE 0)
      BY <1>1, <1>2, TallyTail
    <3>2. Tail(fromAgent[b]) \in Seq(AgentFrames) /\ fromAgent'[b] = Tail(fromAgent[b])
      BY <1>1, <1>2
    <3>3. Tally(Tail(fromAgent[b]), RequestsFor(p)) \in Nat
      BY <3>2, TallyType
    <3> QED
      BY <2>1, <3>1, <3>2, <3>3 DEF Asked
  <2>2. CASE b # a
    <3>1. fromAgent'[a] = fromAgent[a]
      BY <1>1, <1>2, <2>2
    <3> QED
      BY <2>2, <3>1, AccountType DEF Asked
  <2> QED
    BY <2>1, <2>2
<1>6. b = a /\ f \in RequestsFor(p) /\ Refused(a, p) => Forfeiting(a)
  BY <1>1 DEF Forfeiting, RequestsFor
<1> HIDE DEF f
<1>7. \/ Level(a, p) /\ (b = a /\ f \in RequestsFor(p) => Refused(a, p))
      \/ Takes(a, p) /\ b = a /\ f \in RequestsFor(p)
  BY <1>1, <1>2, AgentFrameAccount
<1>8. /\ Asked(a, p) \in Nat /\ Opening(a, p) \in Nat /\ Answered(a, p) \in Nat /\ Waits(p) \in Nat
      /\ Debt(a, p) = Asked(a, p) + Opening(a, p) + Answered(a, p)
      /\ Debt(a, p)' = Asked(a, p)' + Opening(a, p)' + Answered(a, p)'
  BY AccountType DEF Debt
<1>9. CASE Level(a, p) /\ (b = a /\ f \in RequestsFor(p) => Refused(a, p))
  <2>1. Opening(a, p)' = Opening(a, p) /\ Answered(a, p)' = Answered(a, p)
    BY <1>9, OutcomeCounts
  <2>2. CASE b = a /\ f \in RequestsFor(p)
    <3>1. Writeoff(a, p)
      BY <1>4, <1>5, <1>8, <2>1, <2>2 DEF Writeoff
    <3> QED
      BY <1>3, <1>6, <1>9, <2>2, <3>1 DEF Settles, Balance
  <2>3. CASE ~(b = a /\ f \in RequestsFor(p))
    <3>1. Even(a, p)
      BY <1>4, <1>5, <1>8, <2>1, <2>3 DEF Even
    <3> QED
      BY <1>3, <3>1 DEF Settles, Balance
  <2> QED
    BY <2>2, <2>3
<1>10. CASE Takes(a, p) /\ b = a /\ f \in RequestsFor(p)
  <2>1. Opening(a, p)' = Opening(a, p) + 1 /\ Answered(a, p)' = Answered(a, p)
    BY <1>10, OutcomeCounts
  <2>2. Even(a, p)
    BY <1>4, <1>5, <1>8, <1>10, <2>1 DEF Even
  <2> QED
    BY <1>3, <2>2 DEF Settles, Balance
<1> QED
  BY <1>7, <1>9, <1>10

(* A turn of the server's own. *)
LEMMA ServerTurnSettles ==
  ASSUME Typed, Joint, NEW a \in AgentWs, NEW p \in Ports, ServerOnly,
         Events \/ ("server_idle" \in Faults /\ \E i \in Ids : IdleTimeout(i))
  PROVE  Settles(a, p)
<1> SUFFICES ASSUME Talking(a)' PROVE Settles(a, p)
  BY DEF Settles
<1>1. UNCHANGED <<agentLinks, pending, fromAgent>> /\ TypeOK
  BY TypedParts DEF ServerOnly, agentVars
<1>2. agents'[a] = "open" /\ agentLinks[a] = "open"
  BY <1>1 DEF Talking
<1>3. CASE Events
  <2>1. agents[a] = "open"
    <3>1. \A i, toA, toC : EndStream(i, toA, toC) => agents' = agents
      BY DEF EndStream, wsVars
    <3>2. \A i : Relay(i) => agents' = agents
      BY <3>1 DEF Relay, Abort, wsVars
    <3>3. \A i, s : Open(i, s) => agents' = agents
      BY DEF Open, wsVars
    <3>4. \A b \in AgentWs : AgentClosing(b) \/ AgentClosed(b) => agents'[a] = agents[a] \/ agents'[a] # "open"
      BY <1>1 DEF AgentClosing, AgentClosed, TypeOK
    <3>5. ~Shutdown
      BY <1>1, <1>2 DEF Shutdown, TypeOK
    <3> QED
      BY <1>2, <1>3, <3>1, <3>2, <3>3, <3>4, <3>5
         DEF Events, DirectConnect, DirectData, DirectClose, DirectError, ClientClosing, ClientClosed
  <2>2. /\ \A b \in AgentWs, i \in Ids : i \in agentStreams[b] /\ Live(i) => streams[i].agent = b
        /\ \A i \in Ids : streams[i].awaiting => IsAgent(i)
    BY DEF Joint, Sound, Owned
  <2>3. Level(a, p) \/ (Drops(a, p) /\ \E w \in ClientWs : clients[w] = "closing")
    BY <1>1, <1>2, <1>3, <2>1, <2>2, EventAccount
  <2> QED
    BY <1>1, <1>2, <2>1, <2>3, ServerSettles DEF Forfeiting, Talking
<1>4. ASSUME "server_idle" \in Faults, NEW i \in Ids, IdleTimeout(i) PROVE Settles(a, p)
  <2>1. Abort(i, TRUE) /\ agents' = agents
    BY <1>4 DEF IdleTimeout, Abort, EndStream, wsVars
  <2>2. Drops(a, p)
    BY <1>1, <2>1, AbortAccount
  <2> QED
    BY <1>1, <1>2, <1>4, <2>1, <2>2, ServerSettles DEF Forfeiting, Talking
<1> QED
  BY <1>3, <1>4

-----------------------------------------------------------------------------
(* Steps of the agent's end.                                                *)
LEMMA AgentOnlyCounts ==
  ASSUME NEW a, NEW p, streams' = streams, agents' = agents
  PROVE  Opening(a, p)' = Opening(a, p) /\ (agents[a] = "open" <=> agents'[a] = "open")
  BY DEF Opening, Unconfirmed, On

(* The end of a stream, and data, are no requests. *)
LEMMA ReportAsked ==
  ASSUME Typed, NEW a \in AgentWs, NEW p, NEW s, NEW t \in {"TCP_DATA", "TCP_CLOSE", "TCP_ABORT"},
         Agt!Sends(Agt!Report(t, s))
  PROVE  Asked(a, p)' = Asked(a, p)
<1> DEFINE r == Agt!Report(t, s)
<1>1. fromAgent[a] \in Seq(AgentFrames) /\ r \in Seq(AgentFrames)
  BY TypedParts, ReportType DEF AgentTyped
<1>2. fromAgent'[a] = fromAgent[a] \/ fromAgent'[a] = fromAgent[a] \o r
  BY DEF Agt!Sends
<1>3. \A k \in DOMAIN r : r[k] \notin RequestsFor(p)
  <2>1. CASE r = <<>>
    BY <2>1
  <2>2. ASSUME NEW i \in Ids, r = <<Msg(t, i)>> PROVE \A k \in DOMAIN r : r[k] \notin RequestsFor(p)
    <3>1. \A k \in DOMAIN <<Msg(t, i)>> : <<Msg(t, i)>>[k] = Msg(t, i)
      OBVIOUS
    <3>2. Msg(t, i) \notin RequestsFor(p)
      BY DEF RequestsFor, Msg, Frame
    <3> QED
      BY <2>2, <3>1, <3>2
  <2> QED
    BY <2>1, <2>2, ReportIs
<1> HIDE DEF r
<1>4. Tally(r, RequestsFor(p)) = 0
  BY <1>3, TallyNone
<1>5. Tally(fromAgent[a] \o r, RequestsFor(p)) = Tally(fromAgent[a], RequestsFor(p)) + Tally(r, RequestsFor(p))
  BY <1>1, TallyConcat
<1>6. Tally(fromAgent[a], RequestsFor(p)) \in Nat
  BY <1>1, TallyType
<1>7. Asked(a, p) = Tally(fromAgent[a], RequestsFor(p)) /\ Asked(a, p)' = Tally(fromAgent'[a], RequestsFor(p))
  BY DEF Asked
<1>8. CASE fromAgent'[a] = fromAgent[a]
  BY <1>7, <1>8
<1>9. CASE fromAgent'[a] = fromAgent[a] \o r
  <2>1. Tally(fromAgent'[a], RequestsFor(p)) = Tally(fromAgent[a], RequestsFor(p)) + 0
    BY <1>4, <1>5, <1>9
  <2> QED
    BY <1>6, <1>7, <2>1
<1> QED
  BY <1>2, <1>8, <1>9

(* One waiter is taken out. *)
LEMMA RemovedWaits ==
  ASSUME Typed, NEW p, NEW k \in DOMAIN pending, pending' = RemoveAt(pending, k)
  PROVE  Waits(p) = Waits(p)' + (IF SockPort[pending[k]] = p THEN 1 ELSE 0) /\ Waits(p)' \in Nat
<1>1. pending \in Seq(Socks) /\ pending[k] \in Socks /\ pending' \in Seq(Socks)
  BY TypedParts, RemoveType
<1>2. Tally(pending, WaitersOf(p)) = Tally(RemoveAt(pending, k), WaitersOf(p))
                                       + (IF pending[k] \in WaitersOf(p) THEN 1 ELSE 0)
  BY <1>1, TallyRemove
<1>3. pending[k] \in WaitersOf(p) <=> SockPort[pending[k]] = p
  BY <1>1 DEF WaitersOf
<1>4. Tally(pending', WaitersOf(p)) \in Nat
  BY <1>1, TallyType
<1> QED
  BY <1>2, <1>3, <1>4 DEF Waits

(* A connection is accepted: it waits, and its request goes out. *)
LEMMA AppConnectSettles ==
  ASSUME Typed, NEW a \in AgentWs, NEW p \in Ports, AgentOnly, NEW s \in Socks, Agt!AppConnect(s)
  PROVE  Settles(a, p)
<1> SUFFICES ASSUME Talking(a)' PROVE Settles(a, p)
  BY DEF Settles
<1> DEFINE f == Frame("TCP_CONNECT", 0, SockPort[s])
<1>1. streams' = streams /\ toAgent' = toAgent /\ agents' = agents /\ agentLinks' = agentLinks
  BY DEF AgentOnly, serverVars, Agt!AppConnect
<1>2. Talking(a)
  BY <1>1 DEF Talking
<1>3. Agt!wsReady
  BY <1>2 DEF Talking, Agt!wsReady
<1>4. pending' = Append(pending, s) /\ Agt!Sends(<<f>>)
  BY <1>3, SameNames DEF Agt!AppConnect
<1>5. f \in AgentFrames /\ f \in FrameSet /\ f.type = "TCP_CONNECT" /\ f.port = SockPort[s]
  <2>1. f \in AgentFrames
    BY TunnelAssumption DEF AgentFrames
  <2> QED
    BY <2>1, SentFrames DEF Frame
<1> HIDE DEF f
<1>6. fromAgent[a] \in Seq(AgentFrames) /\ pending \in Seq(Socks) /\ <<f>> \in Seq(AgentFrames) /\ <<s>> \in Seq(Socks)
  BY <1>5, TypedParts DEF AgentTyped
<1>7. fromAgent'[a] = fromAgent[a] \o <<f>> /\ pending' = pending \o <<s>>
  BY <1>2, <1>4, <1>6 DEF Agt!Sends, Talking
<1>8. f \in RequestsFor(p) <=> SockPort[s] = p
  BY <1>5 DEF RequestsFor
<1>9. s \in WaitersOf(p) <=> SockPort[s] = p
  BY DEF WaitersOf
<1>10. Asked(a, p)' = Asked(a, p) + (IF SockPort[s] = p THEN 1 ELSE 0)
  <2>1. Tally(fromAgent[a] \o <<f>>, RequestsFor(p)) = Tally(fromAgent[a], RequestsFor(p)) + Tally(<<f>>, RequestsFor(p))
    BY <1>6, TallyConcat
  <2> QED
    BY <1>7, <1>8, <2>1, TallyOne DEF Asked
<1>11. Waits(p)' = Waits(p) + (IF SockPort[s] = p THEN 1 ELSE 0)
  <2>1. Tally(pending \o <<s>>, WaitersOf(p)) = Tally(pending, WaitersOf(p)) + Tally(<<s>>, WaitersOf(p))
    BY <1>6, TallyConcat
  <2> QED
    BY <1>7, <1>9, <2>1, TallyOne DEF Waits
<1>12. Opening(a, p)' = Opening(a, p) /\ Answered(a, p)' = Answered(a, p)
  BY <1>1, AgentOnlyCounts DEF Answered
<1>13. /\ Asked(a, p) \in Nat /\ Opening(a, p) \in Nat /\ Answered(a, p) \in Nat /\ Waits(p) \in Nat
       /\ Debt(a, p) = Asked(a, p) + Opening(a, p) + Answered(a, p)
       /\ Debt(a, p)' = Asked(a, p)' + Opening(a, p)' + Answered(a, p)'
  BY AccountType DEF Debt
<1>14. Even(a, p)
  BY <1>10, <1>11, <1>12, <1>13 DEF Even
<1> QED
  BY <1>2, <1>14 DEF Settles, Balance

(* A connection ends, fails or sends.  It may have waited. *)
LEMMA AppMoveSettles ==
  ASSUME Typed, Joint, NEW a \in AgentWs, NEW p \in Ports, AgentOnly, NEW s \in Socks,
         \/ Agt!AppEnds(s) \/ Agt!AppClosed(s) \/ Agt!AppData(s)
         \/ Agt!AppFails(s) /\ (s \in Agt!Bridged \/ "app_leaves" \in Faults)
  PROVE  Settles(a, p)
<1> SUFFICES ASSUME Talking(a)' PROVE Settles(a, p)
  BY DEF Settles
<1>1. streams' = streams /\ toAgent' = toAgent /\ agents' = agents
  BY DEF AgentOnly, serverVars
<1>2. agentLinks' = agentLinks
  BY DEF Agt!AppEnds, Agt!AppClosed, Agt!AppData, Agt!AppFails, Agt!AppGone
<1>3. Talking(a)
  BY <1>1, <1>2 DEF Talking
<1>4. CASE Agt!AppEnds(s)
  BY <1>1, <1>3, <1>4, StillSettles DEF Agt!AppEnds
<1>5. Opening(a, p)' = Opening(a, p) /\ Answered(a, p)' = Answered(a, p)
  BY <1>1, AgentOnlyCounts DEF Answered
<1>6. /\ Asked(a, p) \in Nat /\ Opening(a, p) \in Nat /\ Answered(a, p) \in Nat /\ Waits(p) \in Nat
      /\ Debt(a, p) = Asked(a, p) + Opening(a, p) + Answered(a, p)
      /\ Debt(a, p)' = Asked(a, p)' + Opening(a, p)' + Answered(a, p)'
  BY AccountType DEF Debt
<1>7. CASE Agt!AppData(s)
  <2>1. Asked(a, p)' = Asked(a, p) /\ pending' = pending
    BY <1>7, ReportAsked DEF Agt!AppData
  <2>2. Even(a, p)
    BY <1>5, <1>6, <2>1 DEF Even, Waits
  <2> QED
    BY <1>3, <2>2 DEF Settles, Balance
<1>8. CASE Agt!AppClosed(s) \/ (Agt!AppFails(s) /\ (s \in Agt!Bridged \/ "app_leaves" \in Faults))
  <2>1. PICK t \in {"TCP_CLOSE", "TCP_ABORT"} : Agt!AppGone(s, t)
    BY <1>8 DEF Agt!AppClosed, Agt!AppFails
  <2>2. Asked(a, p)' = Asked(a, p) /\ pending' = Agt!Without(s)
    BY <2>1, ReportAsked DEF Agt!AppGone
  <2>3. Debt(a, p)' = Debt(a, p)
    BY <1>5, <1>6, <2>2
  <2>4. CASE pending' = pending
    BY <1>3, <1>6, <2>3, <2>4 DEF Settles, Balance, Even, Waits
  <2>5. ASSUME NEW k \in DOMAIN pending, pending[k] = s, pending' = RemoveAt(pending, k)
        PROVE  Settles(a, p)
    <3>1. Desertion(a, p)
      BY <1>6, <2>3, <2>5, RemovedWaits DEF Desertion
    <3>2. Deserting
      <4>1. CASE Agt!AppClosed(s)
        BY <2>5, <4>1 DEF Agt!AppClosed, Deserting, Steady
      <4>2. s \notin Agt!Bridged
        <5>1. \A i \in Ids : streamed[i] # Agt!NoSock => \A j \in DOMAIN pending : pending[j] # streamed[i]
          BY DEF Joint, Apart
        <5> QED
          BY <2>5, <5>1, SameNames DEF Agt!Bridged
      <4> QED
        BY <1>8, <4>1, <4>2 DEF Deserting
    <3> QED
      BY <1>3, <3>1, <3>2 DEF Settles, Balance
  <2> QED
    BY <2>2, <2>4, <2>5, WithoutIs, TypedParts
<1> QED
  BY <1>4, <1>7, <1>8

(* Where a connection of the port waits, one waits longest.                 *)
LEMMA LeastOf ==
  ASSUME NEW T, T \subseteq Nat, T # {}, NEW R, IsWellFoundedOn(R, Nat), \A x, y \in Nat : x < y => <<x, y>> \in R
  PROVE  \E m \in T : \A k \in T : m <= k
<1>1. \E m \in T : \A y \in T : ~(<<y, m>> \in R)
  BY ONLY T \subseteq Nat, T # {}, IsWellFoundedOn(R, Nat), WFMin, Zenon
<1>2. PICK m \in T : \A y \in T : ~(<<y, m>> \in R)
  BY <1>1
<1>3. ASSUME NEW k \in T PROVE m <= k
  <2>1. k \in Nat /\ m \in Nat
    OBVIOUS
  <2>2. ~(k < m)
    BY <1>2, <2>1
  <2> QED
    BY <2>1, <2>2
<1> QED
  BY <1>3

LEMMA Least ==
  ASSUME NEW T, T \subseteq Nat, T # {}
  PROVE  \E m \in T : \A k \in T : m <= k
<1>1. PICK R : R = OpToRel(<, Nat)
  BY Zenon
<1>2. IsWellFoundedOn(R, Nat)
  BY <1>1, NatLessThanWellFounded, Zenon
<1>3. \A x, y \in Nat : x < y => <<x, y>> \in R
  BY <1>1, Zenon DEF OpToRel
<1> QED
  BY <1>2, <1>3, LeastOf

LEMMA FirstWaits ==
  ASSUME Typed, NEW q, NEW j \in DOMAIN pending, SockPort[pending[j]] = q
  PROVE  \E k \in DOMAIN pending : Agt!IsFirst(k, q)
<1> DEFINE T == {k \in DOMAIN pending : SockPort[pending[k]] = q}
<1>1. Len(pending) \in Nat /\ DOMAIN pending = 1 .. Len(pending)
  BY TypedParts
<1>2. T \subseteq Nat /\ T # {}
  BY <1>1
<1>3. PICK m \in T : \A k \in T : m <= k
  BY <1>2, Least
<1>4. \A k \in 1 .. m - 1 : SockPort[pending[k]] # q
  BY <1>1, <1>3
<1> QED
  BY <1>1, <1>3, <1>4 DEF Agt!IsFirst

(* An answer takes a waiter of its port, if there is one; nothing else does. *)
LEMMA HearsWaits ==
  ASSUME Typed, NEW p \in Ports, NEW f \in FrameSet, Agt!OnFrame(f)
  PROVE  \/ pending' = pending /\ (f \in AnswersTo(p) => \A k \in DOMAIN pending : SockPort[pending[k]] # p)
         \/ \E k \in DOMAIN pending :
              pending' = RemoveAt(pending, k) /\ (SockPort[pending[k]] = p <=> f \in AnswersTo(p))
<1>1. f \in AnswersTo(p) <=> f.port = p /\ (f.type = "TCP_CONNECT_ACK" \/ (f.type = "TCP_ABORT" /\ f.id = 0))
  BY DEF AnswersTo
<1>2. CASE \/ f.type = "TCP_CONNECT_ACK" /\ Agt!ConnectAck(f.id, f.port)
           \/ f.type = "TCP_ABORT" /\ f.id = 0 /\ Agt!ConnectReject(f.port)
  <2>1. f \in AnswersTo(p) <=> f.port = p
    BY <1>1, <1>2
  <2>2. CASE \E k \in DOMAIN pending : Agt!IsFirst(k, f.port)
    <3>1. PICK k \in DOMAIN pending : Agt!IsFirst(k, f.port) /\ pending' = RemoveAt(pending, k)
      BY <1>2, <2>2, SameNames DEF Agt!ConnectAck, Agt!ConnectReject
    <3> QED
      BY <2>1, <3>1 DEF Agt!IsFirst
  <2>3. CASE ~\E k \in DOMAIN pending : Agt!IsFirst(k, f.port)
    <3>1. pending' = pending
      BY <1>2, <2>3 DEF Agt!ConnectAck, Agt!ConnectReject, Agt!agentVars
    <3>2. \A k \in DOMAIN pending : SockPort[pending[k]] # f.port
      BY <2>3, FirstWaits
    <3> QED
      BY <2>1, <3>1, <3>2
  <2> QED
    BY <2>2, <2>3
<1>3. CASE \/ f.type = "TCP_ABORT" /\ f.id # 0 /\ Agt!StreamEnds(f.id)
           \/ f.type = "TCP_CLOSE" /\ Agt!StreamEnds(f.id)
           \/ f.type = "TCP_DATA" /\ UNCHANGED Agt!agentVars
  BY <1>1, <1>3 DEF Agt!StreamEnds, Agt!agentVars
<1> QED
  BY <1>2, <1>3 DEF Agt!OnFrame

LEMMA AgentHearsSettles ==
  ASSUME Typed, Joint, NEW a \in AgentWs, NEW p \in Ports, NEW b \in AgentWs, AgentHears(b)
  PROVE  Settles(a, p)
<1> SUFFICES ASSUME Talking(a)' PROVE Settles(a, p)
  BY DEF Settles
<1>0. PICK f : f = Head(toAgent[b])
  OBVIOUS
<1>1. /\ Session(b) /\ toAgent[b] # <<>> /\ toAgent' = [toAgent EXCEPT ![b] = Tail(@)] /\ Agt!OnFrame(f)
      /\ streams' = streams /\ agents' = agents
  BY <1>0 DEF AgentHears, Session, Pop, serverVars
<1>2. toAgent \in [AgentWs -> Seq(FrameSet)] /\ toAgent[b] \in Seq(FrameSet) /\ f \in FrameSet
  <2>1. toAgent \in [AgentWs -> Seq(FrameSet)]
    BY TypedParts DEF TypeOK
  <2> QED
    BY <1>0, <1>1, <2>1
<1>3. agentLinks' = agentLinks /\ fromAgent' = fromAgent
  BY <1>1, <1>2, AgentHearsWhat DEF Joint
<1>4. Talking(a) /\ b = a
  <2>1. Talking(a)
    BY <1>1, <1>3 DEF Talking
  <2> QED
    BY <1>1, <2>1 DEF Talking, Session, Joint, Apart
<1>5. Answered(a, p) = Answered(a, p)' + (IF f \in AnswersTo(p) THEN 1 ELSE 0) /\ Answered(a, p)' \in Nat
  <2>1. Tally(toAgent[b], AnswersTo(p)) = Tally(Tail(toAgent[b]), AnswersTo(p)) + (IF f \in AnswersTo(p) THEN 1 ELSE 0)
    BY <1>0, <1>1, <1>2, TallyTail
  <2>2. toAgent'[b] = Tail(toAgent[b]) /\ Tail(toAgent[b]) \in Seq(FrameSet)
    BY <1>1, <1>2
  <2>3. Tally(Tail(toAgent[b]), AnswersTo(p)) \in Nat
    BY <2>2, TallyType
  <2>4. Answered(a, p) = Tally(toAgent[b], AnswersTo(p)) /\ Answered(a, p)' = Tally(toAgent'[b], AnswersTo(p))
    BY <1>4 DEF Answered
  <2> QED
    BY <2>1, <2>2, <2>3, <2>4
<1>6. Opening(a, p)' = Opening(a, p) /\ Asked(a, p)' = Asked(a, p)
  BY <1>1, <1>3, AgentOnlyCounts DEF Asked
<1>7. /\ Asked(a, p) \in Nat /\ Opening(a, p) \in Nat /\ Waits(p) \in Nat
      /\ Debt(a, p) = Asked(a, p) + Opening(a, p) + Answered(a, p)
      /\ Debt(a, p)' = Asked(a, p)' + Opening(a, p)' + Answered(a, p)'
  BY AccountType DEF Debt
<1>8. CASE pending' = pending /\ (f \in AnswersTo(p) => \A k \in DOMAIN pending : SockPort[pending[k]] # p)
  <2>1. Waits(p)' = Waits(p)
    BY <1>8 DEF Waits
  <2>2. CASE f \in AnswersTo(p)
    <3>1. \A k \in DOMAIN pending : pending[k] \notin WaitersOf(p)
      BY <1>8, <2>2 DEF WaitersOf
    <3>2. Waits(p) = 0
      BY <3>1, TallyNone DEF Waits
    <3>3. Writeoff(a, p)
      BY <1>5, <1>6, <1>7, <2>1 DEF Writeoff
    <3> QED
      BY <1>4, <3>2, <3>3 DEF Settles, Balance
  <2>3. CASE f \notin AnswersTo(p)
    <3>1. Even(a, p)
      BY <1>5, <1>6, <1>7, <2>1, <2>3 DEF Even
    <3> QED
      BY <1>4, <3>1 DEF Settles, Balance
  <2> QED
    BY <2>2, <2>3
<1>9. ASSUME NEW k \in DOMAIN pending, pending' = RemoveAt(pending, k), SockPort[pending[k]] = p <=> f \in AnswersTo(p)
      PROVE  Settles(a, p)
  <2>1. Waits(p) = Waits(p)' + (IF f \in AnswersTo(p) THEN 1 ELSE 0) /\ Waits(p)' \in Nat
    BY <1>9, RemovedWaits
  <2>2. Even(a, p)
    BY <1>5, <1>6, <1>7, <2>1 DEF Even
  <2> QED
    BY <1>4, <2>2 DEF Settles, Balance
<1> QED
  BY <1>1, <1>2, <1>8, <1>9, HearsWaits

(* The sessions of the agent. *)
LEMMA AgentLinkSettles ==
  ASSUME Typed, Joint, NEW a \in AgentWs, NEW p \in Ports, AgentOnly, NEW b \in AgentWs,
         Agt!LinkBreaks(b) \/ Agt!LinkCloses(b)
  PROVE  Settles(a, p)
<1> SUFFICES ASSUME Talking(a)' PROVE Settles(a, p)
  BY DEF Settles
<1>1. streams' = streams /\ toAgent' = toAgent /\ agents' = agents /\ fromAgent' = fromAgent
  BY DEF AgentOnly, serverVars, Agt!LinkBreaks, Agt!LinkCloses
<1>2. agentLinks \in [AgentWs -> Agt!LinkState]
  BY TypedParts
<1>3. b # a /\ agentLinks'[a] = agentLinks[a]
  BY <1>2 DEF Agt!LinkBreaks, Agt!LinkCloses, Talking
<1>4. Talking(a)
  BY <1>1, <1>3 DEF Talking
<1>5. ~Agt!LinkCloses(b)
  BY <1>3, <1>4 DEF Agt!LinkCloses, Talking, Session, Joint, Apart
<1>6. pending' = pending
  BY <1>5 DEF Agt!LinkBreaks
<1> QED
  BY <1>1, <1>4, <1>6, StillSettles

LEMMA OtherConnects ==
  ASSUME Typed, NEW a \in AgentWs, NEW b \in AgentWs, b # a, AgentConnects(b)
  PROVE  ~Talking(a)'
<1>1. agentLinks[a] # "open" /\ agentLinks' = [agentLinks EXCEPT ![b] = "open"]
  BY DEF AgentConnects, Agt!LinkOpens
<1> QED
  BY <1>1, TypedParts DEF Talking

(* Those of the client move nothing of the account. *)
LEMMA ClientSettles ==
  ASSUME Typed, NEW a \in AgentWs, NEW p \in Ports, ServerKeeps
  PROVE  Settles(a, p)
<1>1. UNCHANGED <<streams, toAgent, fromAgent, pending, agents, agentLinks>>
  BY DEF ServerKeeps, serverVars, agentVars
<1> QED
  BY <1>1, StillSettles DEF Talking

(* Every step of the tunnel settles the account of an open session, but for *)
(* the step that opens it.                                                  *)
LEMMA TunnelSettles ==
  ASSUME IInvTunnel, TunnelNext, NEW a \in AgentWs, NEW p \in Ports
  PROVE  Settles(a, p) \/ AgentConnects(a)
<1>1. Typed /\ Joint
  BY DEF IInvTunnel
<1>2. CASE AppConnects \/ AppLeaves \/ AppSends \/ \E s \in Socks : AppClosed(s)
  <2>1. CASE AppConnects
    BY <1>1, <2>1, AppConnectSettles DEF AppConnects, AgentStep
  <2>2. CASE AppLeaves
    BY <1>1, <2>2, AppMoveSettles DEF AppLeaves, AgentStep, May
  <2>3. CASE AppSends
    BY <1>1, <2>3, AppMoveSettles DEF AppSends
  <2>4. CASE \E s \in Socks : AppClosed(s)
    BY <1>1, <2>4, AppMoveSettles DEF AppClosed, AgentStep
  <2> QED
    BY <1>2, <2>1, <2>2, <2>3, <2>4
<1>3. ASSUME ClientOnly, UNCHANGED directs PROVE Settles(a, p)
  BY <1>1, <1>3, ClientStepKeeps, ClientSettles
<1>4. CASE LocalFails \/ LocalCloses \/ LocalSends \/ ClientIdle
           \/ \E w \in ClientWs, i \in Ids : LocalConnects(w, i)
  BY <1>3, <1>4 DEF LocalFails, LocalCloses, LocalSends, ClientIdle, LocalConnects, ClientStep, Chunk, bounds
<1>5. CASE DirectConnects \/ DirectSends \/ DirectLeaves \/ ServerIdle \/ ServerStops
  <2>1. ServerOnly /\ (Events \/ ("server_idle" \in Faults /\ \E i \in Ids : IdleTimeout(i)))
    BY <1>5 DEF DirectConnects, DirectSends, DirectLeaves, ServerIdle, ServerStops, ServerStep, Events, May
  <2> QED
    BY <1>1, <2>1, ServerTurnSettles
<1>6. ASSUME NEW b \in AgentWs,
             \/ AgentConnects(b) \/ ServerHearsAgent(b) \/ AgentHears(b)
             \/ AgentLinkBreaks(b) \/ AgentLinkEnds(b)
      PROVE  Settles(a, p) \/ AgentConnects(a)
  <2>1. CASE AgentConnects(b)
    BY <1>1, <2>1, OtherConnects DEF Settles
  <2>2. CASE ServerHearsAgent(b)
    BY <1>1, <2>2, ServerHearsAgentSettles
  <2>3. CASE AgentHears(b)
    BY <1>1, <2>3, AgentHearsSettles
  <2>4. ASSUME AgentOnly, Agt!LinkBreaks(b) \/ Agt!LinkCloses(b) PROVE Settles(a, p)
    BY <1>1, <2>4, AgentLinkSettles
  <2>5. ASSUME ServerOnly, AgentClosing(b) \/ AgentClosed(b) PROVE Settles(a, p)
    BY <1>1, <2>5, ServerTurnSettles DEF Events
  <2> QED
    BY <1>6, <2>1, <2>2, <2>3, <2>4, <2>5 DEF AgentLinkBreaks, AgentLinkEnds, AgentStep, ServerStep
<1>7. ASSUME NEW w \in ClientWs,
             \/ ClientConnects(w) \/ ServerHearsClient(w) \/ ClientHears(w)
             \/ ClientLinkBreaks(w) \/ ClientLinkEnds(w)
      PROVE  Settles(a, p)
  <2>1. CASE ClientConnects(w) \/ ClientHears(w)
    <3>1. UNCHANGED <<streams, toAgent, fromAgent, pending, agents, agentLinks>>
      BY <2>1 DEF ClientConnects, ClientJoin, ClientHears, agentVars, serverVars, streamVars, channels
    <3> QED
      BY <1>1, <3>1, StillSettles DEF Talking
  <2>2. CASE ServerHearsClient(w)
    BY <1>1, <2>2, ServerHearsClientSettles
  <2>3. ASSUME ClientStep PROVE Settles(a, p)
    BY <1>3, <2>3 DEF ClientStep, bounds
  <2>4. ASSUME ServerOnly, ClientClosing(w) \/ ClientClosed(w) PROVE Settles(a, p)
    BY <1>1, <2>4, ServerTurnSettles DEF Events
  <2> QED
    BY <1>7, <2>1, <2>2, <2>3, <2>4 DEF ClientLinkBreaks, ClientLinkEnds, ServerStep
<1> QED
  BY <1>2, <1>4, <1>5, <1>6, <1>7 DEF TunnelNext

-----------------------------------------------------------------------------
(* While no application leaves before it is answered, every connection      *)
(* that waits is open, each answer finds one of its port waiting, and so    *)
(* each confirmed stream comes to be bridged.                               *)
Enough == \A a \in AgentWs, p \in Ports : Talking(a) => Debt(a, p) <= Waits(p)

(* A session's streams and frames are those of a session that was open.     *)
Seen ==
  \A a \in AgentWs : agentLinks[a] = "unused" =>
    fromAgent[a] = <<>> /\ \A i \in Ids : IsAgent(i) => streams[i].agent # a

(* A confirmed stream, at the agent's end: AgentStreamsBridged of one id.   *)
Linked(i) ==
  IsAgent(i) /\ ~streams[i].awaiting =>
    \A a \in AgentWs : a = streams[i].agent =>
      \/ streamed[i] # Agt!NoSock \/ Acked(a, i)
      \/ Kinds(fromAgent[a], i) \cap Endings # {}
      \/ ~Talking(a)

IInvLinked == Enough /\ Steady /\ Seen /\ \A i \in Ids : Linked(i)

(* Nothing waits when a session opens. *)
LEMMA ConnectsBlank ==
  ASSUME Typed, Joint, NEW a \in AgentWs, NEW p, AgentConnects(a)
  PROVE  /\ Waits(p)' = 0
         /\ Seen /\ p \in Ports => Debt(a, p)' = 0
<1>1. /\ agentLinks[a] = "unused" /\ agents[a] = "absent" /\ \A b \in AgentWs : ~Session(b)
      /\ UNCHANGED <<streams, toAgent, fromAgent, pending>>
  BY DEF AgentConnects, Agt!LinkOpens, AgentJoin, streamVars, channels, Session
<1>2. pending = <<>> /\ toAgent[a] = <<>>
  BY <1>1 DEF Joint, Apart, Blank
<1>3. \A F : Tally(<<>>, F) = 0
  BY TallyNone
<1>4. Waits(p)' = 0
  <2>1. Waits(p)' = Tally(pending', WaitersOf(p))
    BY DEF Waits
  <2> QED
    BY <1>1, <1>2, <1>3, <2>1
<1>5. ASSUME Seen, p \in Ports PROVE Debt(a, p)' = 0
  <2>1. fromAgent[a] = <<>> /\ \A i \in Ids : IsAgent(i) => streams[i].agent # a
    BY <1>1, <1>5 DEF Seen
  <2>2. Asked(a, p) = 0 /\ Answered(a, p) = 0
    BY <1>2, <1>3, <2>1 DEF Asked, Answered
  <2>3. Unconfirmed(a, p) = {}
    BY <2>1, UnconfirmedIs DEF IsAgent
  <2>4. Opening(a, p) = 0
    BY <2>3, FS_EmptySet DEF Opening
  <2>5. Debt(a, p)' = Debt(a, p)
    BY <1>1, StillAccount
  <2> QED
    BY <2>2, <2>4, <2>5 DEF Debt
<1> QED
  BY <1>4, <1>5

LEMMA AccountTypeNext ==
  ASSUME NEW a \in AgentWs, NEW p \in Ports
  PROVE  Typed' => (Debt(a, p) \in Nat /\ Waits(p) \in Nat)'
<1>1. Typed => Debt(a, p) \in Nat /\ Waits(p) \in Nat
  BY AccountType
<1> QED
  BY <1>1, PTL

LEMMA EnoughStep ==
  ASSUME IInvTunnel, IInvTunnel', TunnelNext, "app_leaves" \notin Faults, Steady, Seen, Enough
  PROVE  Enough'
<1> SUFFICES ASSUME NEW a \in AgentWs, NEW p \in Ports, Talking(a)' PROVE Debt(a, p)' <= Waits(p)'
  BY DEF Enough
<1>1. /\ Debt(a, p) \in Nat /\ Waits(p) \in Nat /\ Debt(a, p)' \in Nat /\ Waits(p)' \in Nat
  <2>1. Debt(a, p) \in Nat /\ Waits(p) \in Nat
    BY AccountType DEF IInvTunnel
  <2>2. (Debt(a, p) \in Nat /\ Waits(p) \in Nat)'
    <3>1. Typed'
      BY DEF IInvTunnel
    <3> QED
      BY <3>1, AccountTypeNext
  <2> QED
    BY <2>1, <2>2
<1>2. CASE AgentConnects(a)
  BY <1>1, <1>2, ConnectsBlank DEF IInvTunnel
<1>3. CASE Settles(a, p)
  <2>1. Balance(a, p) /\ Debt(a, p) <= Waits(p)
    BY <1>3 DEF Settles, Enough
  <2>2. ~Deserting
    BY DEF Deserting
  <2> QED
    BY <1>1, <2>1, <2>2 DEF Balance, Even, Writeoff
<1> QED
  BY <1>2, <1>3, TunnelSettles

(* The connections that wait stay open. *)
LEMMA SteadyStep ==
  ASSUME IInvTunnel, TunnelNext, "app_leaves" \notin Faults, Steady
  PROVE  Steady'
<1>1. /\ Typed /\ Apart /\ sock \in [Socks -> Agt!SockState] /\ pending \in Seq(Socks)
      /\ \A k \in DOMAIN pending : pending[k] \in Socks
      /\ streamed \in [Ids -> Socks \cup {Agt!NoSock}]
  BY TypedParts DEF IInvTunnel, Joint
<1>2. UNCHANGED <<sock, pending>> => Steady'
  BY DEF Steady
<1>3. ASSUME NEW s \in Socks, \A k \in DOMAIN pending : pending[k] # s,
             \A r \in Socks : r # s => sock'[r] = sock[r], pending' = pending
      PROVE  Steady'
  BY <1>1, <1>3 DEF Steady
<1>4. ASSUME NEW s \in Socks, s \in Agt!Bridged PROVE \A k \in DOMAIN pending : pending[k] # s
  BY <1>1, <1>4, SameNames DEF Agt!Bridged, Apart
<1>5. ASSUME NEW s \in Socks, NEW t, Agt!AppGone(s, t), \A k \in DOMAIN pending : pending[k] # s
      PROVE  Steady'
  <2>1. pending' = pending
    BY <1>1, <1>5, WithoutIs DEF Agt!AppGone
  <2>2. \A r \in Socks : r # s => sock'[r] = sock[r]
    BY <1>1, <1>5 DEF Agt!AppGone
  <2> QED
    BY <1>3, <1>5, <2>1, <2>2
<1>6. CASE AppConnects
  <2>1. PICK s \in Socks : Agt!AppConnect(s)
    BY <1>6 DEF AppConnects
  <2>2. sock[s] = "new" /\ \A k \in DOMAIN pending : pending[k] # s
    BY <1>1, <2>1 DEF Agt!AppConnect, Apart
  <2>3. CASE pending' = pending /\ sock' = [sock EXCEPT ![s] = "closed"]
    BY <1>1, <1>3, <2>2, <2>3
  <2>4. CASE pending' = Append(pending, s) /\ sock' = [sock EXCEPT ![s] = "open"]
    <3>1. \A k \in DOMAIN pending' : pending'[k] = s \/ \E j \in DOMAIN pending : pending'[k] = pending[j]
      BY <1>1, <2>4
    <3>2. sock'[s] = "open" /\ \A r \in Socks : r # s => sock'[r] = sock[r]
      BY <1>1, <2>4
    <3> QED
      BY <1>1, <2>2, <3>1, <3>2 DEF Steady
  <2> QED
    BY <2>1, <2>3, <2>4 DEF Agt!AppConnect
<1>7. CASE AppLeaves
  <2>1. PICK s \in Socks : s \in Agt!Bridged /\ (Agt!AppEnds(s) \/ Agt!AppFails(s))
    BY <1>7 DEF AppLeaves, May
  <2>2. CASE Agt!AppEnds(s)
    <3>1. pending' = pending /\ \A r \in Socks : r # s => sock'[r] = sock[r]
      BY <1>1, <2>2 DEF Agt!AppEnds
    <3> QED
      BY <1>3, <1>4, <2>1, <3>1
  <2>3. CASE Agt!AppFails(s)
    BY <1>4, <1>5, <2>1, <2>3 DEF Agt!AppFails
  <2> QED
    BY <2>1, <2>2, <2>3
<1>8. CASE AppSends
  BY <1>2, <1>8 DEF AppSends, Agt!AppData
<1>9. ASSUME NEW s \in Socks, AppClosed(s) PROVE Steady'
  <2>1. sock[s] = "dying" /\ Agt!AppGone(s, "TCP_CLOSE")
    BY <1>9 DEF AppClosed, Agt!AppClosed
  <2>2. \A k \in DOMAIN pending : pending[k] # s
    BY <2>1 DEF Steady
  <2> QED
    BY <1>5, <2>1, <2>2
<1>10. ASSUME ClientOnly \/ ServerOnly \/ UNCHANGED agentVars PROVE Steady'
  BY <1>2, <1>10 DEF ClientOnly, ServerOnly, agentVars
<1>11. CASE \/ LocalFails \/ LocalCloses \/ LocalSends \/ ClientIdle
            \/ \E w \in ClientWs, i \in Ids : LocalConnects(w, i)
            \/ DirectConnects \/ DirectSends \/ DirectLeaves \/ ServerIdle \/ ServerStops
  BY <1>10, <1>11 DEF LocalFails, LocalCloses, LocalSends, ClientIdle, LocalConnects, ClientStep,
                      DirectConnects, DirectSends, DirectLeaves, ServerIdle, ServerStops, ServerStep
<1>12. ASSUME NEW w \in ClientWs,
              \/ ClientConnects(w) \/ ServerHearsClient(w) \/ ClientHears(w)
              \/ ClientLinkBreaks(w) \/ ClientLinkEnds(w)
       PROVE  Steady'
  BY <1>10, <1>12 DEF ClientConnects, ServerHearsClient, ClientHears, ClientLinkBreaks, ClientLinkEnds,
                      ClientStep, ServerStep
<1>13. ASSUME NEW b \in AgentWs, AgentHears(b) PROVE Steady'
  <2>0. PICK f : f = Head(toAgent[b])
    OBVIOUS
  <2>1. Agt!OnFrame(f)
    BY <1>13, <2>0 DEF AgentHears
  <2>2. ASSUME NEW k \in DOMAIN pending, pending' = RemoveAt(pending, k),
               \A r \in Socks : r # pending[k] => sock'[r] = sock[r]
        PROVE  Steady'
    <3>1. \A j, l \in DOMAIN pending : pending[j] = pending[l] => j = l
      BY <1>1 DEF Apart
    <3>2. \A j \in DOMAIN pending' : pending'[j] # pending[k] /\ \E m \in DOMAIN pending : pending'[j] = pending[m]
      BY <1>1, <2>2, <3>1, RemoveKeeps
    <3> QED
      BY <1>1, <2>2, <3>2 DEF Steady
  <2>3. ASSUME NEW i, NEW p, Agt!ConnectAck(i, p) PROVE Steady'
    BY <1>1, <1>2, <2>2, <2>3, SameNames DEF Agt!ConnectAck, Agt!agentVars
  <2>4. ASSUME NEW p, Agt!ConnectReject(p) PROVE Steady'
    <3>1. CASE UNCHANGED Agt!agentVars
      BY <1>2, <3>1 DEF Agt!agentVars
    <3>2. ASSUME NEW k \in DOMAIN pending, pending' = RemoveAt(pending, k),
                 sock' = [sock EXCEPT ![pending[k]] = "closed"]
          PROVE  Steady'
      <4>1. \A r \in Socks : r # pending[k] => sock'[r] = sock[r]
        BY <1>1, <3>2
      <4> QED
        BY <2>2, <3>2, <4>1
    <3> QED
      BY <2>4, <3>1, <3>2, SameNames DEF Agt!ConnectReject
  <2>5. ASSUME NEW i, Agt!StreamEnds(i) PROVE Steady'
    <3>1. CASE UNCHANGED Agt!agentVars
      BY <1>2, <3>1 DEF Agt!agentVars
    <3>2. CASE i \in Ids /\ streamed[i] # Agt!NoSock /\ sock' = [sock EXCEPT ![streamed[i]] = "closed"] /\ pending' = pending
      <4>1. streamed[i] \in Socks /\ streamed[i] \in Agt!Bridged
        BY <1>1, <3>2, SameNames DEF Agt!Bridged
      <4>2. \A r \in Socks : r # streamed[i] => sock'[r] = sock[r]
        BY <1>1, <3>2
      <4> QED
        BY <1>3, <1>4, <3>2, <4>1, <4>2
    <3> QED
      BY <2>5, <3>1, <3>2, SameNames DEF Agt!StreamEnds
  <2>6. UNCHANGED Agt!agentVars => Steady'
    BY <1>2 DEF Agt!agentVars
  <2> QED
    BY <2>1, <2>3, <2>4, <2>5, <2>6 DEF Agt!OnFrame
<1>14. ASSUME NEW b \in AgentWs,
              \/ AgentConnects(b) \/ ServerHearsAgent(b) \/ AgentLinkBreaks(b) \/ AgentLinkEnds(b)
       PROVE  Steady'
  <2>1. CASE AgentConnects(b) \/ ServerHearsAgent(b)
    BY <1>2, <2>1 DEF AgentConnects, Agt!LinkOpens, ServerHearsAgent, agentVars
  <2>2. Agt!LinkBreaks(b) => Steady'
    BY <1>2 DEF Agt!LinkBreaks
  <2>3. Agt!LinkCloses(b) => Steady'
    BY DEF Agt!LinkCloses, Steady
  <2> QED
    BY <1>10, <1>14, <2>1, <2>2, <2>3 DEF AgentLinkBreaks, AgentLinkEnds, AgentStep, ServerStep
<1> QED
  BY <1>6, <1>7, <1>8, <1>9, <1>11, <1>12, <1>13, <1>14 DEF TunnelNext

-----------------------------------------------------------------------------
(* The turns of the server, as the lemmas about turns need them.            *)
LEMMA ClientFrameTurns ==
  ASSUME Typed, Joint, NEW w \in ClientWs, ServerHearsClient(w)
  PROVE  Turn /\ Unborn /\ UNCHANGED <<streamed, agentLinks, fromAgent>>
<1>0. PICK f : f = Head(fromClient[w])
  OBVIOUS
<1>1. /\ fromClient[w] # <<>> /\ OnClientFrame(w, f)
      /\ UNCHANGED <<streamed, agentLinks, fromAgent>>
  BY <1>0 DEF ServerHearsClient, agentVars
<1>2. TypeOK /\ fromClient[w] \in Seq(ClientFrames) /\ f \in ClientFrames
  BY <1>0, <1>1, TypedParts DEF ClientTyped
<1>3. f.id \in Ids
  BY <1>2 DEF ClientFrames, Msg, Frame
<1>4. f.type \in Kinds(fromClient[w], f.id)
  <2>1. Kinds(fromClient[w], f.id)
          = Kinds(Tail(fromClient[w]), f.id) \cup (IF Head(fromClient[w]).id = f.id THEN {Head(fromClient[w]).type} ELSE {})
    BY <1>1, <1>2, KindsTail
  <2> QED
    BY <1>0, <2>1
<1>5. AtClient(w, f.id)
  BY <1>3 DEF Joint, Sound
<1>6. /\ f.type \in Endings => f.id \notin opened[w] /\ "TCP_OPEN" \notin Kinds(toClient[w], f.id)
      /\ f.type = "RES_ABORT" => f.id \in idled
  BY <1>4, <1>5 DEF AtClient
<1>7. \A j \in Ids : streams[j].awaiting => IsAgent(j)
  BY DEF Joint, Sound, Owned
<1> QED
  BY <1>1, <1>2, <1>4, <1>6, <1>7, ClientFrameTurn, ClientFrameUnborn

LEMMA AgentFrameTurns ==
  ASSUME Typed, Joint, NEW a \in AgentWs, ServerHearsAgent(a), NEW f, f = Head(fromAgent[a])
  PROVE  /\ Turn /\ UNCHANGED <<streamed, agentLinks>>
         /\ f.type # "TCP_CONNECT" => Unborn
         /\ OnAgentFrame(a, f)
         /\ \A b \in AgentWs : b # a => fromAgent'[b] = fromAgent[b]
         /\ \A j : Kinds(fromAgent[a], j) = Kinds(fromAgent'[a], j) \cup (IF f.id = j THEN {f.type} ELSE {})
<1>1. /\ fromAgent[a] # <<>> /\ fromAgent' = [fromAgent EXCEPT ![a] = Tail(@)]
      /\ OnAgentFrame(a, f) /\ UNCHANGED <<streamed, agentLinks>>
  BY DEF ServerHearsAgent, Pop, agentVars
<1>2. /\ TypeOK /\ AgentTyped /\ fromAgent[a] \in Seq(AgentFrames) /\ f \in AgentFrames
      /\ fromAgent'[a] = Tail(fromAgent[a]) /\ \A b \in AgentWs : b # a => fromAgent'[b] = fromAgent[b]
  BY <1>1, TypedParts DEF AgentTyped
<1>3. ASSUME NEW j
      PROVE  Kinds(fromAgent[a], j) = Kinds(fromAgent'[a], j) \cup (IF f.id = j THEN {f.type} ELSE {})
  <2>1. Kinds(fromAgent[a], j)
          = Kinds(Tail(fromAgent[a]), j) \cup (IF Head(fromAgent[a]).id = j THEN {Head(fromAgent[a]).type} ELSE {})
    BY <1>1, <1>2, KindsTail
  <2> QED
    BY <1>2, <2>1
<1>4. f.type \in Kinds(fromAgent[a], f.id)
  BY <1>3
<1>5. f.type \in Endings => f.id \in Ids
  BY <1>2 DEF AgentFrames, Endings, Msg, Frame
<1>6. ASSUME f.type \in Endings
      PROVE  streamed[f.id] = Agt!NoSock /\ \A b \in AgentWs : ~Acked(b, f.id)
  <2>1. Kinds(fromAgent[a], f.id) \cap Endings # {}
    BY <1>4, <1>6
  <2>2. \A b \in AgentWs : AtAgent(b, f.id)
    BY <1>5, <1>6 DEF Joint, Sound
  <2>3. streamed[f.id] = Agt!NoSock
    BY <2>1, <2>2 DEF AtAgent
  <2>4. ~Unheard(f.id)
    BY <2>1 DEF Unheard
  <2> QED
    BY <2>2, <2>3, <2>4 DEF AtAgent
<1>7. Turn
  BY <1>1, <1>2, <1>4, <1>6, AgentFrameTurn
<1>8. f.type # "TCP_CONNECT" => Unborn
  BY <1>1, <1>2, AgentFrameUnborn
<1> QED
  BY <1>1, <1>2, <1>3, <1>7, <1>8

LEMMA EventTurns ==
  ASSUME Typed, Joint, ServerOnly, ServerMoves \/ \E p \in Ports : DirectConnect(p)
  PROVE  Turn /\ (ServerMoves => Unborn) /\ UNCHANGED <<streamed, agentLinks, fromAgent>>
<1>1. TypeOK /\ \A i \in Ids : Owned(i)
  BY TypedParts DEF Joint, Sound
<1>2. Turn
  BY <1>1, EventTurn DEF Owned
<1> QED
  BY <1>1, <1>2, EventUnborn DEF ServerOnly, agentVars

(* A session is seen when it opens, and nothing comes of it before.         *)
LEMMA SeenTurn ==
  ASSUME Seen, Turn, agentLinks' = agentLinks,
         \A a \in AgentWs : agentLinks[a] = "unused" => fromAgent'[a] = fromAgent[a],
         \A i \in Ids, a \in AgentWs : Opens(i) /\ IsAgent(i)' /\ streams'[i].agent = a => agentLinks[a] # "unused",
         TypeOK
  PROVE  Seen'
<1> SUFFICES ASSUME NEW a \in AgentWs, agentLinks[a] = "unused", NEW i \in Ids, IsAgent(i)', streams'[i].agent = a
             PROVE  FALSE
  BY DEF Seen
<1>1. CASE Calm(i) \/ Flows(i) \/ Strays(i)
  BY <1>1 DEF Calm, Flows, Strays, Stays, Seen, IsAgent
<1>2. CASE Acks(i)
  <2>1. IsAgent(i) /\ streams'[i].agent = streams[i].agent
    BY <1>2 DEF Acks, TypeOK, Stream
  <2> QED
    BY <2>1 DEF Seen
<1>3. CASE Ends(i)
  BY <1>3 DEF Ends, IsAgent, Free
<1>4. ~Opens(i)
  OBVIOUS
<1> QED
  BY <1>1, <1>2, <1>3, <1>4 DEF Turn

LEMMA SeenStep ==
  ASSUME IInvTunnel, TunnelNext, Seen
  PROVE  Seen'
<1>1. /\ Typed /\ Joint /\ TypeOK /\ agentLinks \in [AgentWs -> Agt!LinkState]
      /\ streams \in [Ids -> Stream]
  BY TypedParts DEF IInvTunnel, TypeOK
<1>2. ASSUME UNCHANGED <<streams, agentLinks>>,
             \A a \in AgentWs : agentLinks[a] = "unused" => fromAgent'[a] = fromAgent[a]
      PROVE  Seen'
  BY <1>2 DEF Seen, IsAgent
<1>3. ASSUME Turn, Unborn, agentLinks' = agentLinks,
             \A a \in AgentWs : agentLinks[a] = "unused" => fromAgent'[a] = fromAgent[a]
      PROVE  Seen'
  BY <1>1, <1>3, UnbornOpens, SeenTurn
<1>4. ASSUME streams' = streams, fromAgent' = fromAgent,
             \A a \in AgentWs : agentLinks'[a] = "unused" => agentLinks[a] = "unused"
      PROVE  Seen'
  BY <1>4 DEF Seen, IsAgent
<1>5. ASSUME AgentOnly, NEW s \in Socks,
             Agt!AppConnect(s) \/ Agt!AppEnds(s) \/ Agt!AppFails(s) \/ Agt!AppClosed(s) \/ Agt!AppData(s)
      PROVE  Seen'
  <2>1. streams' = streams /\ agentLinks' = agentLinks
    BY <1>5 DEF AgentOnly, serverVars, Agt!AppConnect, Agt!AppEnds, Agt!AppFails, Agt!AppClosed, Agt!AppData, Agt!AppGone
  <2>2. \A fs : Agt!Sends(fs) => \A a \in AgentWs : agentLinks[a] = "unused" => fromAgent'[a] = fromAgent[a]
    BY DEF Agt!Sends
  <2>3. fromAgent' = fromAgent \/ \E fs : Agt!Sends(fs)
    BY <1>5 DEF Agt!AppConnect, Agt!AppEnds, Agt!AppFails, Agt!AppClosed, Agt!AppData, Agt!AppGone
  <2> QED
    BY <1>2, <2>1, <2>2, <2>3
<1>6. CASE AppConnects \/ AppLeaves \/ AppSends \/ \E s \in Socks : AppClosed(s)
  BY <1>5, <1>6 DEF AppConnects, AppLeaves, AppSends, AppClosed, AgentStep
<1>7. ASSUME ClientOnly PROVE Seen'
  BY <1>4, <1>7 DEF ClientOnly, serverVars, agentVars
<1>8. CASE LocalFails \/ LocalCloses \/ LocalSends \/ ClientIdle
           \/ \E w \in ClientWs, i \in Ids : LocalConnects(w, i)
  BY <1>7, <1>8 DEF LocalFails, LocalCloses, LocalSends, ClientIdle, LocalConnects, ClientStep
<1>9. ASSUME ServerOnly, ServerMoves PROVE Seen'
  <2>1. Turn /\ Unborn /\ UNCHANGED <<agentLinks, fromAgent>>
    BY <1>1, <1>9, EventTurns
  <2> QED
    BY <1>3, <2>1
<1>10. CASE DirectConnects
  <2>1. PICK p \in Ports : ServerOnly /\ DirectConnect(p)
    BY <1>10 DEF DirectConnects
  <2>2. Turn /\ UNCHANGED <<agentLinks, fromAgent>>
    BY <1>1, <2>1, EventTurns
  <2>0. PICK i \in Ids : \E s : Open(i, s) /\ s.kind = "direct"
    BY <2>1 DEF DirectConnect
  <2>3. PICK s : Open(i, s) /\ s.kind = "direct"
    BY <2>0
  <2>4. \A j \in Ids : Opens(j) => ~IsAgent(j)'
    <3>1. streams' = [streams EXCEPT ![i] = s]
      BY <2>3 DEF Open
    <3>2. \A j \in Ids : j # i => streams'[j] = streams[j]
      BY <1>1, <3>1
    <3>3. streams'[i].kind = "direct"
      BY <1>1, <2>3, <3>1
    <3>4. \A j \in Ids : Opens(j) => streams[j].kind = "free"
      BY DEF Opens, Allocates, LiveIds
    <3> QED
      BY <3>2, <3>3, <3>4 DEF IsAgent
  <2> QED
    BY <1>1, <2>2, <2>4, SeenTurn
<1>11. CASE DirectSends \/ DirectLeaves \/ ServerIdle \/ ServerStops
  BY <1>9, <1>11 DEF DirectSends, DirectLeaves, ServerIdle, ServerStops, ServerStep, ServerMoves
<1>12. ASSUME NEW b \in AgentWs, AgentConnects(b) PROVE Seen'
  <2>1. streams' = streams /\ fromAgent' = fromAgent /\ agentLinks' = [agentLinks EXCEPT ![b] = "open"]
    BY <1>12 DEF AgentConnects, Agt!LinkOpens, AgentJoin, streamVars
  <2> QED
    BY <1>1, <1>4, <2>1
<1>13. ASSUME NEW b \in AgentWs, AgentHears(b) PROVE Seen'
  <2>1. toAgent[b] # <<>> /\ streams' = streams /\ Agt!OnFrame(Head(toAgent[b]))
    BY <1>13 DEF AgentHears, serverVars
  <2>2. Head(toAgent[b]) \in FrameSet
    <3>1. toAgent[b] \in Seq(FrameSet)
      BY <1>1 DEF TypeOK
    <3> QED
      BY <2>1, <3>1
  <2>3. agentLinks' = agentLinks /\ fromAgent' = fromAgent
    BY <1>1, <2>1, <2>2, AgentHearsWhat DEF Joint
  <2> QED
    BY <1>4, <2>1, <2>3
<1>14. ASSUME NEW b \in AgentWs, ServerHearsAgent(b) PROVE Seen'
  <2>0. PICK f : f = Head(fromAgent[b])
    OBVIOUS
  <2>1. /\ Turn /\ agentLinks' = agentLinks /\ OnAgentFrame(b, f)
        /\ f.type # "TCP_CONNECT" => Unborn
        /\ \A a \in AgentWs : a # b => fromAgent'[a] = fromAgent[a]
    BY <1>1, <1>14, <2>0, AgentFrameTurns
  <2>2. agentLinks[b] # "unused"
    BY <1>14 DEF ServerHearsAgent, Seen
  <2>3. CASE f.type # "TCP_CONNECT"
    BY <1>3, <2>1, <2>2, <2>3
  <2>4. CASE f.type = "TCP_CONNECT"
    <3>1. AgentConnect(b, f.port)
      BY <2>1, <2>4 DEF OnAgentFrame
    <3>2. \A j \in Ids : Opens(j) => streams'[j].agent = b
      <4>1. CASE streams' = streams
        BY <4>1 DEF Opens, Allocates, LiveIds
      <4>2. ASSUME NEW i \in Ids, NEW s, Open(i, s), s.agent = b PROVE \A j \in Ids : Opens(j) => streams'[j].agent = b
        <5>1. streams' = [streams EXCEPT ![i] = s]
          BY <4>2 DEF Open
        <5>2. streams'[i] = s /\ \A j \in Ids : j # i => streams'[j] = streams[j]
          BY <1>1, <5>1
        <5>3. \A j \in Ids : Opens(j) => streams[j].kind = "free" /\ streams'[j].kind # "free"
          BY DEF Opens, Allocates, LiveIds
        <5> QED
          BY <4>2, <5>2, <5>3
      <4> QED
        BY <3>1, <4>1, <4>2 DEF AgentConnect, streamVars
    <3> QED
      BY <1>1, <2>1, <2>2, <3>2, SeenTurn
  <2> QED
    BY <2>3, <2>4
<1>15. ASSUME NEW b \in AgentWs, AgentLinkBreaks(b) \/ AgentLinkEnds(b) PROVE Seen'
  <2>1. ASSUME AgentOnly, Agt!LinkBreaks(b) \/ Agt!LinkCloses(b) PROVE Seen'
    <3>1. streams' = streams /\ fromAgent' = fromAgent
      BY <2>1 DEF AgentOnly, serverVars, Agt!LinkBreaks, Agt!LinkCloses
    <3>2. \A a \in AgentWs : agentLinks'[a] = "unused" => agentLinks[a] = "unused"
      BY <1>1, <2>1 DEF Agt!LinkBreaks, Agt!LinkCloses
    <3> QED
      BY <1>4, <3>1, <3>2
  <2>2. ASSUME ServerOnly, AgentClosing(b) \/ AgentClosed(b) PROVE Seen'
    BY <1>9, <2>2 DEF ServerMoves
  <2> QED
    BY <1>15, <2>1, <2>2 DEF AgentLinkBreaks, AgentLinkEnds, AgentStep, ServerStep
<1>16. ASSUME NEW w \in ClientWs,
              \/ ClientConnects(w) \/ ServerHearsClient(w) \/ ClientHears(w)
              \/ ClientLinkBreaks(w) \/ ClientLinkEnds(w)
       PROVE  Seen'
  <2>1. CASE ClientConnects(w) \/ ClientHears(w)
    <3>1. UNCHANGED <<streams, fromAgent, agentLinks>>
      BY <2>1 DEF ClientConnects, ClientJoin, ClientHears, agentVars, serverVars, streamVars
    <3> QED
      BY <1>2, <3>1
  <2>2. CASE ServerHearsClient(w)
    BY <1>1, <1>3, <2>2, ClientFrameTurns
  <2>3. ASSUME ServerOnly, ClientClosing(w) \/ ClientClosed(w) PROVE Seen'
    BY <1>9, <2>3 DEF ServerMoves
  <2> QED
    BY <1>7, <1>16, <2>1, <2>2, <2>3 DEF ClientLinkBreaks, ClientLinkEnds, ClientStep, ServerStep
<1> QED
  BY <1>6, <1>8, <1>10, <1>11, <1>12, <1>13, <1>14, <1>15, <1>16 DEF TunnelNext

-----------------------------------------------------------------------------
(* A confirmed stream keeps its counterpart over a turn of the server: the  *)
(* stream that is confirmed is announced, and one whose end is heard ends.  *)
LEMMA LinkedTurn ==
  ASSUME TypeOK, NEW i \in Ids, Linked(i), Owned(i), Turn, UNCHANGED <<streamed, agentLinks>>,
         \A a \in AgentWs :
           IsAgent(i) /\ streams'[i] = streams[i] /\ ~streams[i].awaiting /\ streams[i].agent = a
             => Kinds(fromAgent[a], i) \cap Endings \subseteq Kinds(fromAgent'[a], i)
  PROVE  Linked(i)'
<1> SUFFICES ASSUME IsAgent(i)', ~streams'[i].awaiting, NEW a \in AgentWs, a = streams'[i].agent,
                    streamed[i] = Agt!NoSock, Kinds(fromAgent'[a], i) \cap Endings = {}, Talking(a)'
             PROVE  Acked(a, i)'
  BY DEF Linked
<1>1. agentLinks[a] = "open" /\ agents'[a] = "open"
  BY DEF Talking
<1>2. CASE Calm(i) \/ Flows(i)
  <2>1. streams'[i] = streams[i] /\ IsAgent(i)
    BY <1>2 DEF Calm, Flows, Stays, IsAgent
  <2>2. Kinds(fromAgent[a], i) \cap Endings = {}
    BY <2>1
  <2>3. PICK Y : Feed(toAgent[a], toAgent'[a], agents[a], agents'[a], Y, i)
    BY <1>2 DEF Calm, Flows, Feeds
  <2>4. Kinds(toAgent[a], i) \subseteq Kinds(toAgent'[a], i) /\ agents[a] = "open"
    BY <1>1, <2>3 DEF Feed, Adds
  <2>5. Acked(a, i)
    BY <1>1, <2>1, <2>2, <2>4 DEF Linked, Talking
  <2> QED
    BY <2>4, <2>5 DEF Acked
<1>3. CASE Acks(i)
  <2>1. /\ IsAgent(i) /\ streams'[i].agent = streams[i].agent /\ agents' = agents
        /\ toAgent' = Post(toAgent, agents, streams[i].agent, Frame("TCP_CONNECT_ACK", i, streams[i].port))
        /\ streams[i].port \in Ports
    BY <1>3 DEF Acks, TypeOK, Stream, Owned, IsAgent, Live
  <2> DEFINE g == Frame("TCP_CONNECT_ACK", i, streams[i].port)
  <2>2. g \in FrameSet /\ g.id = i /\ g.type = "TCP_CONNECT_ACK" /\ <<g>> \in Seq(FrameSet)
    BY <2>1 DEF FrameSet, Frame, TcpTypes
  <2>3. toAgent' = PostAll(toAgent, agents, a, <<g>>) /\ agents[a] = "open"
    BY <1>1, <2>1 DEF Post
  <2> HIDE DEF g
  <2>4. "TCP_CONNECT_ACK" \in Kinds(<<g>>, i)
    BY <2>2, KindsOne
  <2>5. Kinds(<<g>>, i) \subseteq Kinds(PostAll(toAgent, agents, a, <<g>>)[a], i)
    <3>1. toAgent \in [AgentWs -> Seq(FrameSet)]
      BY DEF TypeOK
    <3>2. a \in AgentWs /\ agents[a] = "open" => Kinds(<<g>>, i) \subseteq Kinds(PostAll(toAgent, agents, a, <<g>>)[a], i)
      BY <2>2, <3>1, PostAdds
    <3> QED
      BY <2>3, <3>2
  <2> QED
    BY <2>3, <2>4, <2>5 DEF Acked
<1>4. ~Strays(i) /\ ~Ends(i) /\ ~Opens(i)
  BY DEF Strays, Stays, Ends, Free, Opens, IsAgent
<1> QED
  BY <1>2, <1>3, <1>4 DEF Turn

(* A frame that ends a confirmed stream of the agent's is heeded.           *)
LEMMA EndingHeeded ==
  ASSUME Typed, Joint, NEW b \in AgentWs, ServerHearsAgent(b), NEW i \in Ids, NEW a \in AgentWs,
         IsAgent(i), streams'[i] = streams[i], ~streams[i].awaiting, streams[i].agent = a
  PROVE  Kinds(fromAgent[a], i) \cap Endings \subseteq Kinds(fromAgent'[a], i)
<1>0. PICK f : f = Head(fromAgent[b])
  OBVIOUS
<1>1. /\ OnAgentFrame(b, f)
      /\ \A c \in AgentWs : c # b => fromAgent'[c] = fromAgent[c]
      /\ \A j : Kinds(fromAgent[b], j) = Kinds(fromAgent'[b], j) \cup (IF f.id = j THEN {f.type} ELSE {})
  BY <1>0, AgentFrameTurns
<1>2. CASE a # b
  BY <1>1, <1>2
<1>3. CASE a = b /\ ~(f.id = i /\ f.type \in Endings)
  <2>1. Kinds(fromAgent[b], i) = Kinds(fromAgent'[b], i) \cup (IF f.id = i THEN {f.type} ELSE {})
    BY <1>1
  <2> QED
    BY <1>3, <2>1
<1>4. CASE a = b /\ f.id = i /\ f.type \in Endings
  <2>1. i \in LiveIds
    BY DEF LiveIds, IsAgent
  <2>2. \E toC : EndStream(i, <<>>, toC)
    BY <1>1, <1>4, <2>1 DEF OnAgentFrame, Endings
  <2>3. streams'[i] = Free
    BY <2>2 DEF EndStream, Freed
  <2> QED
    BY <2>3 DEF IsAgent, Free
<1> QED
  BY <1>2, <1>3, <1>4

(* The application's steps. *)
LEMMA LinkedApp ==
  ASSUME Typed, Joint, NEW i \in Ids, Linked(i), AgentOnly, NEW s \in Socks,
         Agt!AppConnect(s) \/ Agt!AppEnds(s) \/ Agt!AppFails(s) \/ Agt!AppClosed(s) \/ Agt!AppData(s)
  PROVE  Linked(i)'
<1>1. streams' = streams /\ agents' = agents /\ toAgent' = toAgent /\ agentLinks' = agentLinks
  BY DEF AgentOnly, serverVars, Agt!AppConnect, Agt!AppEnds, Agt!AppFails, Agt!AppClosed, Agt!AppData, Agt!AppGone
<1>2. AgentTyped /\ s # Agt!NoSock
  BY TypedParts
<1>3. ASSUME NEW fs \in Seq(AgentFrames), Agt!Sends(fs), NEW a \in AgentWs
      PROVE  /\ Kinds(fromAgent[a], i) \subseteq Kinds(fromAgent'[a], i)
             /\ agentLinks[a] = "open" => Kinds(fs, i) \subseteq Kinds(fromAgent'[a], i)
  <2>1. fromAgent'[a] = IF agentLinks[a] = "open" THEN fromAgent[a] \o fs ELSE fromAgent[a]
    BY <1>3 DEF Agt!Sends
  <2>2. fromAgent[a] \in Seq(AgentFrames)
    BY <1>2 DEF AgentTyped
  <2>3. Kinds(fromAgent[a] \o fs, i) = Kinds(fromAgent[a], i) \cup Kinds(fs, i)
    BY <2>2, KindsConcat
  <2> QED
    BY <2>1, <2>3
<1>4. ASSUME \A a \in AgentWs : Kinds(fromAgent[a], i) \subseteq Kinds(fromAgent'[a], i),
             \/ streamed'[i] = streamed[i]
             \/ \A a \in AgentWs : agentLinks[a] = "open" => Kinds(fromAgent'[a], i) \cap Endings # {}
      PROVE  Linked(i)'
  BY <1>1, <1>4 DEF Linked, IsAgent, Talking, Acked
<1>5. CASE Agt!AppEnds(s)
  BY <1>4, <1>5 DEF Agt!AppEnds
<1>6. CASE Agt!AppConnect(s)
  <2>1. <<Agt!Frame("TCP_CONNECT", 0, SockPort[s])>> \in Seq(AgentFrames)
    <3>1. Frame("TCP_CONNECT", 0, SockPort[s]) \in AgentFrames
      BY TunnelAssumption DEF AgentFrames
    <3>2. Agt!Frame("TCP_CONNECT", 0, SockPort[s]) = Frame("TCP_CONNECT", 0, SockPort[s])
      BY SameNames
    <3> QED
      BY <3>1, <3>2
  <2>2. streamed' = streamed /\ (fromAgent' = fromAgent \/ Agt!Sends(<<Agt!Frame("TCP_CONNECT", 0, SockPort[s])>>))
    BY <1>6 DEF Agt!AppConnect
  <2> QED
    BY <1>3, <1>4, <2>1, <2>2
<1>7. CASE Agt!AppData(s)
  <2>1. streamed' = streamed /\ Agt!Sends(Agt!Report("TCP_DATA", s)) /\ Agt!Report("TCP_DATA", s) \in Seq(AgentFrames)
    BY <1>7, ReportType DEF Agt!AppData
  <2> QED
    BY <1>3, <1>4, <2>1
<1>8. ASSUME NEW t \in {"TCP_CLOSE", "TCP_ABORT"}, Agt!AppGone(s, t) PROVE Linked(i)'
  <2>1. /\ streamed' = Agt!Detached(s) /\ Agt!Sends(Agt!Report(t, s))
        /\ Agt!Report(t, s) \in Seq(AgentFrames)
    BY <1>8, ReportType DEF Agt!AppGone
  <2>2. \A a \in AgentWs : Kinds(fromAgent[a], i) \subseteq Kinds(fromAgent'[a], i)
    BY <1>3, <2>1
  <2>3. CASE streamed[i] # s
    <3>1. streamed'[i] = streamed[i]
      BY <2>1, <2>3, SameNames DEF Agt!Detached
    <3> QED
      BY <1>4, <2>2, <3>1
  <2>4. CASE streamed[i] = s
    <3>1. Agt!Report(t, s) = <<Msg(t, i)>>
      <4>1. \A j \in Ids : streamed[j] = s => j = i
        BY <1>2, <2>4 DEF Joint, Apart
      <4> QED
        BY <2>4, <4>1, ReportIs
    <3>2. t \in Kinds(<<Msg(t, i)>>, i)
      <4>1. Msg(t, i).id = i /\ Msg(t, i).type = t
        BY DEF Msg, Frame
      <4> QED
        BY <4>1, KindsOne
    <3>3. \A a \in AgentWs : agentLinks[a] = "open" => Kinds(fromAgent'[a], i) \cap Endings # {}
      BY <1>3, <2>1, <3>1, <3>2 DEF Endings
    <3> QED
      BY <1>4, <2>2, <3>3
  <2> QED
    BY <2>3, <2>4
<1> QED
  BY <1>5, <1>6, <1>7, <1>8 DEF Agt!AppFails, Agt!AppClosed

(* An answer on its way finds a connection of its port waiting.             *)
LEMMA AnswerAwaited ==
  ASSUME Typed, NEW a \in AgentWs, NEW p \in Ports, Debt(a, p) <= Waits(p), toAgent[a] # <<>>,
         Head(toAgent[a]).type = "TCP_CONNECT_ACK", Head(toAgent[a]).port = p
  PROVE  \E k \in DOMAIN pending : Agt!IsFirst(k, p)
<1>1. toAgent[a] \in Seq(FrameSet)
  BY TypedParts DEF TypeOK
<1>2. Head(toAgent[a]) \in AnswersTo(p)
  BY <1>1 DEF AnswersTo
<1>3. Answered(a, p) = Tally(Tail(toAgent[a]), AnswersTo(p)) + 1
  BY <1>1, <1>2, TallyTail DEF Answered
<1>4. Tally(Tail(toAgent[a]), AnswersTo(p)) \in Nat
  <2>1. Tail(toAgent[a]) \in Seq(FrameSet)
    BY <1>1
  <2> QED
    BY <2>1, TallyType
<1>5. Waits(p) # 0
  <2>1. /\ Asked(a, p) \in Nat /\ Opening(a, p) \in Nat /\ Waits(p) \in Nat
        /\ Debt(a, p) = Asked(a, p) + Opening(a, p) + Answered(a, p)
    BY AccountType DEF Debt
  <2> QED
    BY <1>3, <1>4, <2>1
<1>6. \E j \in DOMAIN pending : SockPort[pending[j]] = p
  <2>1. \E j \in DOMAIN pending : pending[j] \in WaitersOf(p)
    BY <1>5, TallyNone DEF Waits
  <2> QED
    BY <2>1 DEF WaitersOf
<1> QED
  BY <1>6, FirstWaits

LEMMA LinkedHears ==
  ASSUME Typed, Joint, Enough, Steady, NEW b \in AgentWs, AgentHears(b), NEW i \in Ids, Linked(i)
  PROVE  Linked(i)'
<1>0. PICK f : f = Head(toAgent[b])
  OBVIOUS
<1>1. /\ Session(b) /\ toAgent[b] # <<>> /\ toAgent' = [toAgent EXCEPT ![b] = Tail(@)] /\ Agt!OnFrame(f)
      /\ streams' = streams /\ agents' = agents
  BY <1>0 DEF AgentHears, Session, Pop, serverVars
<1>2. toAgent \in [AgentWs -> Seq(FrameSet)] /\ toAgent[b] \in Seq(FrameSet) /\ f \in FrameSet
  <2>1. toAgent \in [AgentWs -> Seq(FrameSet)]
    BY TypedParts DEF TypeOK
  <2> QED
    BY <1>0, <1>1, <2>1
<1>3. /\ agentLinks' = agentLinks /\ fromAgent' = fromAgent
      /\ HearsQuietly(f.id, f) \/ HearsBridge(f.id, f)
  BY <1>1, <1>2, AgentHearsWhat DEF Joint
<1> SUFFICES ASSUME IsAgent(i), ~streams[i].awaiting, NEW a \in AgentWs, a = streams[i].agent,
                    streamed'[i] = Agt!NoSock, Kinds(fromAgent[a], i) \cap Endings = {}, Talking(a)
             PROVE  Acked(a, i)'
  BY <1>1, <1>3 DEF Linked, IsAgent, Talking
<1>4. b = a
  BY <1>1 DEF Talking, Session, Joint, Apart
<1>5. streamed[i] # Agt!NoSock \/ Acked(a, i)
  BY DEF Linked
<1>6. Kinds(toAgent[a], i) = Kinds(toAgent'[a], i) \cup (IF f.id = i THEN {f.type} ELSE {})
  <2>1. Kinds(toAgent[b], i) = Kinds(Tail(toAgent[b]), i) \cup (IF Head(toAgent[b]).id = i THEN {Head(toAgent[b]).type} ELSE {})
    BY <1>1, <1>2, KindsTail
  <2>2. toAgent'[b] = Tail(toAgent[b])
    BY <1>1, <1>2
  <2> QED
    BY <1>0, <1>4, <2>1, <2>2
<1>7. AtAgent(a, i) /\ Owned(i)
  BY DEF Joint, Sound
<1>8. CASE f.id # i
  <2>1. streamed'[i] = streamed[i]
    BY <1>3, <1>8, TypedParts DEF HearsQuietly, HearsBridge
  <2> QED
    BY <1>5, <1>6, <1>8, <2>1 DEF Acked
<1>9. CASE f.id = i /\ f.type = "TCP_CONNECT_ACK"
  <2>1. Acked(a, i)
    BY <1>6, <1>9 DEF Acked
  <2>2. f.port = streams[i].port /\ streams[i].port \in Ports
    <3>1. Named(toAgent[a], "TCP_CONNECT_ACK", i) \subseteq {streams[i].port}
      BY <1>7, <2>1 DEF AtAgent
    <3>2. f.port \in Named(toAgent[a], "TCP_CONNECT_ACK", i)
      <4>1. Head(toAgent[b]).id = i => Head(toAgent[b]).port \in Named(toAgent[b], Head(toAgent[b]).type, i)
        BY <1>1, <1>2, KindsTail
      <4> QED
        BY <1>0, <1>4, <1>9, <4>1
    <3> QED
      BY <1>7, <3>1, <3>2 DEF Owned, IsAgent, Live
  <2>3. \E k \in DOMAIN pending : Agt!IsFirst(k, f.port)
    <3>1. Debt(a, f.port) <= Waits(f.port)
      BY <2>2 DEF Enough
    <3> QED
      BY <1>0, <1>1, <1>4, <1>9, <2>2, <3>1, AnswerAwaited
  <2>4. Agt!ConnectAck(i, f.port)
    BY <1>1, <1>9 DEF Agt!OnFrame
  <2>5. PICK k \in DOMAIN pending :
          streamed' = IF sock[pending[k]] = "open" THEN [streamed EXCEPT ![i] = pending[k]] ELSE streamed
    BY <2>3, <2>4 DEF Agt!ConnectAck
  <2>6. sock[pending[k]] = "open" /\ pending[k] \in Socks
    BY TypedParts DEF Steady
  <2>7. streamed'[i] = pending[k]
    BY <2>5, <2>6, TypedParts
  <2> QED
    BY <2>6, <2>7, TypedParts
<1>10. CASE f.id = i /\ f.type # "TCP_CONNECT_ACK"
  <2>1. f.type \notin Endings
    BY <1>6, <1>7, <1>10 DEF AtAgent
  <2>2. UNCHANGED Agt!agentVars
    BY <1>1, <1>10, <2>1 DEF Agt!OnFrame, Endings
  <2>3. streamed' = streamed
    BY <2>2 DEF Agt!agentVars
  <2> QED
    BY <1>5, <1>6, <1>10, <2>3 DEF Acked
<1> QED
  BY <1>8, <1>9, <1>10

(* Every step. *)
LEMMA LinkedStep ==
  ASSUME IInvTunnel, TunnelNext, Enough, Steady, Seen, NEW i \in Ids, Linked(i)
  PROVE  Linked(i)'
<1>1. /\ Typed /\ Joint /\ TypeOK /\ Owned(i) /\ agentLinks \in [AgentWs -> Agt!LinkState]
  BY TypedParts DEF IInvTunnel, Joint, Sound
<1>2. ASSUME UNCHANGED <<streams, streamed, toAgent, fromAgent>>,
             \A a \in AgentWs : IsAgent(i) /\ streams[i].agent = a /\ Talking(a)' => Talking(a)
      PROVE  Linked(i)'
  BY <1>2 DEF Linked, IsAgent, Acked
<1>3. ASSUME Turn, UNCHANGED <<streamed, agentLinks, fromAgent>> PROVE Linked(i)'
  BY <1>1, <1>3, LinkedTurn
<1>4. CASE AppConnects \/ AppLeaves \/ AppSends \/ \E s \in Socks : AppClosed(s)
  BY <1>1, <1>4, LinkedApp DEF AppConnects, AppLeaves, AppSends, AppClosed, AgentStep
<1>5. ASSUME ClientOnly PROVE Linked(i)'
  BY <1>2, <1>5 DEF ClientOnly, serverVars, agentVars, Talking
<1>6. CASE LocalFails \/ LocalCloses \/ LocalSends \/ ClientIdle
           \/ \E w \in ClientWs, j \in Ids : LocalConnects(w, j)
  BY <1>5, <1>6 DEF LocalFails, LocalCloses, LocalSends, ClientIdle, LocalConnects, ClientStep
<1>7. ASSUME ServerOnly, ServerMoves \/ \E p \in Ports : DirectConnect(p) PROVE Linked(i)'
  <2>1. Turn /\ UNCHANGED <<streamed, agentLinks, fromAgent>>
    BY <1>1, <1>7, EventTurns
  <2> QED
    BY <1>3, <2>1
<1>8. CASE DirectConnects
  <2>1. ServerOnly /\ \E p \in Ports : DirectConnect(p)
    BY <1>8 DEF DirectConnects
  <2> QED
    BY <1>7, <2>1
<1>9. CASE DirectSends \/ DirectLeaves \/ ServerIdle \/ ServerStops
  <2>1. ServerOnly /\ ServerMoves
    BY <1>9 DEF DirectSends, DirectLeaves, ServerIdle, ServerStops, ServerStep, ServerMoves
  <2> QED
    BY <1>7, <2>1
<1>10. ASSUME NEW b \in AgentWs, AgentConnects(b) PROVE Linked(i)'
  <2>1. /\ UNCHANGED <<streams, streamed, toAgent, fromAgent>>
        /\ agentLinks[b] = "unused" /\ agentLinks' = [agentLinks EXCEPT ![b] = "open"]
        /\ agents' = [agents EXCEPT ![b] = "open"]
    BY <1>10 DEF AgentConnects, Agt!LinkOpens, AgentJoin, streamVars, channels
  <2>2. \A a \in AgentWs : a # b /\ Talking(a)' => Talking(a)
    BY <1>1, <2>1 DEF Talking, TypeOK
  <2>3. IsAgent(i) => streams[i].agent # b
    BY <2>1 DEF Seen
  <2> QED
    BY <1>2, <2>1, <2>2, <2>3
<1>11. ASSUME NEW b \in AgentWs, ServerHearsAgent(b) PROVE Linked(i)'
  <2>1. Turn /\ UNCHANGED <<streamed, agentLinks>>
    BY <1>1, <1>11, AgentFrameTurns
  <2> QED
    BY <1>1, <1>11, <2>1, LinkedTurn, EndingHeeded
<1>12. ASSUME NEW b \in AgentWs, AgentHears(b) PROVE Linked(i)'
  BY <1>1, <1>12, LinkedHears
<1>13. ASSUME NEW b \in AgentWs, AgentLinkBreaks(b) \/ AgentLinkEnds(b) PROVE Linked(i)'
  <2>1. ASSUME AgentOnly, Agt!LinkBreaks(b) PROVE Linked(i)'
    <3>1. UNCHANGED <<streams, streamed, toAgent, fromAgent, agents>> /\ agentLinks' = [agentLinks EXCEPT ![b] = "closing"]
      BY <2>1 DEF AgentOnly, serverVars, Agt!LinkBreaks
    <3>2. \A a \in AgentWs : Talking(a)' => Talking(a)
      BY <1>1, <3>1 DEF Talking
    <3> QED
      BY <1>2, <3>1, <3>2
  <2>2. ASSUME AgentOnly, Agt!LinkCloses(b) PROVE Linked(i)'
    <3>1. agentLinks[b] = "closing" /\ agentLinks' = [agentLinks EXCEPT ![b] = "closed"]
      BY <2>2 DEF Agt!LinkCloses
    <3>2. \A a \in AgentWs : agentLinks'[a] # "open"
      BY <1>1, <3>1 DEF Joint, Apart, Session
    <3> QED
      BY <3>2 DEF Linked, Talking
  <2>3. ASSUME ServerOnly, AgentClosing(b) \/ AgentClosed(b) PROVE Linked(i)'
    BY <1>7, <2>3 DEF ServerMoves
  <2> QED
    BY <1>13, <2>1, <2>2, <2>3 DEF AgentLinkBreaks, AgentLinkEnds, AgentStep, ServerStep
<1>14. ASSUME NEW w \in ClientWs,
              \/ ClientConnects(w) \/ ServerHearsClient(w) \/ ClientHears(w)
              \/ ClientLinkBreaks(w) \/ ClientLinkEnds(w)
       PROVE  Linked(i)'
  <2>1. CASE ClientConnects(w) \/ ClientHears(w)
    <3>1. UNCHANGED <<streams, streamed, toAgent, fromAgent, agents, agentLinks>>
      BY <2>1 DEF ClientConnects, ClientJoin, ClientHears, agentVars, serverVars, streamVars, channels
    <3> QED
      BY <1>2, <3>1 DEF Talking
  <2>2. CASE ServerHearsClient(w)
    BY <1>1, <1>3, <2>2, ClientFrameTurns
  <2>3. ASSUME ServerOnly, ClientClosing(w) \/ ClientClosed(w) PROVE Linked(i)'
    BY <1>7, <2>3 DEF ServerMoves
  <2> QED
    BY <1>5, <1>14, <2>1, <2>2, <2>3 DEF ClientLinkBreaks, ClientLinkEnds, ClientStep, ServerStep
<1> QED
  BY <1>4, <1>6, <1>8, <1>9, <1>10, <1>11, <1>12, <1>13, <1>14 DEF TunnelNext

LEMMA LinkedBegins == TunnelInit => IInvLinked
<1> SUFFICES ASSUME TunnelInit PROVE IInvLinked
  OBVIOUS
<1>1. /\ streams = [i \in Ids |-> Free] /\ agentLinks = [a \in AgentWs |-> "unused"]
      /\ fromAgent = [a \in AgentWs |-> <<>>] /\ pending = <<>>
  BY SameNames DEF TunnelInit, Init, Agt!Init
<1>2. \A i \in Ids : ~IsAgent(i)
  BY <1>1 DEF IsAgent, Free
<1>3. \A a \in AgentWs : ~Talking(a)
  BY <1>1 DEF Talking
<1> QED
  BY <1>1, <1>2, <1>3 DEF IInvLinked, Enough, Steady, Seen, Linked

LEMMA LinkedInvariant ==
  ASSUME "app_leaves" \notin Faults
  PROVE  TunnelSpec => [](IInvTunnel /\ IInvLinked)
<1>1. ASSUME IInvTunnel, IInvLinked, [TunnelNext]_tunnelVars PROVE IInvTunnel' /\ IInvLinked'
  <2>1. IInvTunnel'
    BY <1>1, TunnelStep
  <2>2. CASE TunnelNext
    <3>1. Enough /\ Steady /\ Seen
      BY <1>1 DEF IInvLinked
    <3>2. Enough'
      BY <1>1, <2>1, <2>2, <3>1, EnoughStep
    <3>3. Steady' /\ Seen'
      BY <1>1, <2>2, <3>1, SteadyStep, SeenStep
    <3>4. \A i \in Ids : Linked(i)'
      BY <1>1, <2>2, <3>1, LinkedStep DEF IInvLinked
    <3> QED
      BY <2>1, <3>2, <3>3, <3>4 DEF IInvLinked
  <2>3. CASE UNCHANGED tunnelVars
    <3>1. UNCHANGED <<streams, agents, toAgent, fromAgent, sock, pending, streamed, agentLinks>>
      BY <2>3 DEF tunnelVars, serverVars, agentVars
    <3>2. Enough'
      <4>1. \A a \in AgentWs, p \in Ports : Debt(a, p)' = Debt(a, p) /\ Waits(p)' = Waits(p)
        BY <3>1, StillAccount
      <4>2. \A a \in AgentWs : Talking(a)' => Talking(a)
        BY <3>1 DEF Talking
      <4> QED
        BY <1>1, <4>1, <4>2 DEF IInvLinked, Enough
    <3>3. Steady' /\ Seen'
      BY <1>1, <3>1 DEF IInvLinked, Steady, Seen, IsAgent
    <3>4. \A i \in Ids : Linked(i)'
      BY <1>1, <3>1 DEF IInvLinked, Linked, IsAgent, Acked, Talking
    <3> QED
      BY <2>1, <3>2, <3>3, <3>4 DEF IInvLinked
  <2> QED
    BY <1>1, <2>2, <2>3
<1> QED
  BY <1>1, TunnelBegins, LinkedBegins, PTL DEF TunnelSpec

(* A stream that the server holds confirmed for the agent has a connection  *)
(* of the application bridged to it, or the TCP_CONNECT_ACK or the frame    *)
(* that ends it is under way, or the session is over: the server never      *)
(* relays into a stream nobody at the agent will take up.  The agent finds  *)
(* the connection by its port alone, as the oldest that waits, so this      *)
(* rests on the count: no more answers are under way than connections wait. *)
(* An application that leaves before it is answered breaks the count.       *)
THEOREM StreamsBridged ==
  ASSUME "app_leaves" \notin Faults
  PROVE  TunnelSpec => []AgentStreamsBridged
<1>1. ASSUME IInvTunnel, IInvLinked PROVE AgentStreamsBridged
  <2> SUFFICES ASSUME NEW i \in Ids, IsAgent(i), ~streams[i].awaiting, NEW a, a = streams[i].agent
               PROVE  \/ streamed[i] # Agt!NoSock
                      \/ Found(toAgent[a], {"TCP_CONNECT_ACK"}, i) # {}
                      \/ Ending(fromAgent[a], i)
                      \/ agentLinks[a] # "open" \/ agents[a] # "open"
    BY DEF AgentStreamsBridged
  <2>1. a \in AgentWs
    BY <1>1 DEF IInvTunnel, Joint, Sound, Owned
  <2>2. Linked(i)
    BY <1>1 DEF IInvLinked
  <2> QED
    BY <2>1, <2>2, FoundIs, EndingIs DEF Linked, Acked, Talking
<1> QED
  BY <1>1, LinkedInvariant, PTL

-----------------------------------------------------------------------------
(* While no idle timer of a client's expires there is no RES_ABORT, and     *)
(* what the server counts is what there is.                                 *)
LEMMA HeardNoResAbort ==
  ASSUME Typed, Joint, idled = {}, NEW w \in ClientWs, fromClient[w] # <<>>,
         NEW f, f = Head(fromClient[w])
  PROVE  /\ f \in ClientFrames /\ f.id \in Ids /\ f.type # "RES_ABORT"
         /\ f.type \in Kinds(fromClient[w], f.id)
<1>1. fromClient[w] \in Seq(ClientFrames) /\ f \in ClientFrames
  <2>1. fromClient[w] \in Seq(ClientFrames)
    BY TypedParts DEF ClientTyped
  <2> QED
    BY <2>1
<1>2. f.id \in Ids
  BY <1>1 DEF ClientFrames, Msg, Frame
<1>3. f.type \in Kinds(fromClient[w], f.id)
  <2>1. Kinds(fromClient[w], f.id)
          = Kinds(Tail(fromClient[w]), f.id) \cup (IF Head(fromClient[w]).id = f.id THEN {Head(fromClient[w]).type} ELSE {})
    BY <1>1, KindsTail
  <2> QED
    BY <2>1
<1>4. AtClient(w, f.id)
  BY <1>2 DEF Joint, Sound
<1> QED
  BY <1>1, <1>2, <1>3, <1>4 DEF AtClient

LEMMA ExactStep ==
  ASSUME IInvTunnel, TunnelNext, idled = {}, Exact
  PROVE  Exact'
<1>1. TypeOK /\ Typed /\ Joint
  BY TypedParts DEF IInvTunnel
<1>2. UNCHANGED serverVars => Exact'
  BY SameExact DEF serverVars, streamVars
<1>3. CASE AppConnects \/ AppLeaves \/ AppSends \/ \E s \in Socks : AppClosed(s)
  BY <1>2, <1>3 DEF AppConnects, AppLeaves, AppSends, AppClosed, AgentStep, AgentOnly
<1>4. CASE LocalFails \/ LocalCloses \/ LocalSends \/ ClientIdle
           \/ \E w \in ClientWs, i \in Ids : LocalConnects(w, i)
  BY <1>2, <1>4 DEF LocalFails, LocalCloses, LocalSends, ClientIdle, LocalConnects, ClientStep, ClientOnly
<1>5. CASE DirectConnects \/ DirectSends \/ DirectLeaves \/ ServerIdle \/ ServerStops
  <2>1. ServerEvent
    BY <1>5 DEF DirectConnects, DirectSends, DirectLeaves, ServerIdle, ServerStops, ServerEvent
  <2> QED
    BY <1>1, <2>1, EventExact
<1>6. ASSUME NEW a \in AgentWs, AgentConnects(a) \/ ServerHearsAgent(a) PROVE Exact'
  <2>1. CASE AgentConnects(a)
    <3>1. ServerEvent
      BY <2>1 DEF AgentConnects, ServerEvent
    <3> QED
      BY <1>1, <3>1, EventExact
  <2>2. CASE ServerHearsAgent(a)
    <3>1. fromAgent[a] # <<>> /\ OnAgentFrame(a, Head(fromAgent[a]))
      BY <2>2 DEF ServerHearsAgent
    <3>2. fromAgent[a] \in Seq(AgentFrames)
      BY <1>1, TypedParts DEF AgentTyped
    <3>3. Head(fromAgent[a]) \in AgentFrames
      BY <3>1, <3>2
    <3> QED
      BY <1>1, <3>1, <3>3, AgentFrameExact
  <2> QED
    BY <1>6, <2>1, <2>2
<1>7. ASSUME NEW a \in AgentWs, AgentHears(a) \/ AgentLinkBreaks(a) \/ AgentLinkEnds(a) PROVE Exact'
  <2>1. ServerOnly /\ (AgentClosing(a) \/ AgentClosed(a)) => Exact'
    BY <1>1, EventExact DEF ServerEvent
  <2> QED
    BY <1>2, <1>7, <2>1 DEF AgentHears, AgentLinkBreaks, AgentLinkEnds, AgentStep, AgentOnly, ServerStep
<1>8. ASSUME NEW w \in ClientWs, ClientConnects(w) \/ ServerHearsClient(w) PROVE Exact'
  <2>1. CASE ClientConnects(w)
    <3>1. ServerEvent
      BY <2>1 DEF ClientConnects, ServerEvent
    <3> QED
      BY <1>1, <3>1, EventExact
  <2>2. CASE ServerHearsClient(w)
    <3>1. fromClient[w] # <<>> /\ OnClientFrame(w, Head(fromClient[w]))
      BY <2>2 DEF ServerHearsClient
    <3>2. Head(fromClient[w]) \in ClientFrames /\ Head(fromClient[w]).type # "RES_ABORT"
      BY <1>1, <3>1, HeardNoResAbort
    <3> QED
      BY <1>1, <3>1, <3>2, ClientFrameExact
  <2> QED
    BY <1>8, <2>1, <2>2
<1>9. ASSUME NEW w \in ClientWs, ClientHears(w) \/ ClientLinkBreaks(w) \/ ClientLinkEnds(w) PROVE Exact'
  <2>1. ServerOnly /\ (ClientClosing(w) \/ ClientClosed(w)) => Exact'
    BY <1>1, EventExact DEF ServerEvent
  <2> QED
    BY <1>2, <1>9, <2>1 DEF ClientHears, ClientLinkBreaks, ClientLinkEnds, ClientStep, ClientOnly, ServerStep
<1> QED
  BY <1>3, <1>4, <1>5, <1>6, <1>7, <1>8, <1>9 DEF TunnelNext

(* Only a client's idle timer gives up a stream.                            *)
LEMMA IdledStep ==
  ASSUME [TunnelNext]_tunnelVars, "client_idle" \notin Faults
  PROVE  idled' = idled
<1>1. CASE UNCHANGED tunnelVars
  BY <1>1 DEF tunnelVars, bounds
<1>2. CASE TunnelNext
  <2>1. CASE AppConnects \/ AppLeaves \/ AppSends \/ \E s \in Socks : AppClosed(s)
    BY <2>1 DEF AppConnects, AppLeaves, AppSends, AppClosed, AgentStep, Chunk, bounds
  <2>2. CASE LocalFails \/ LocalCloses \/ LocalSends \/ ClientIdle
             \/ \E w \in ClientWs, i \in Ids : LocalConnects(w, i)
    BY <2>2 DEF LocalFails, LocalCloses, LocalSends, ClientIdle, LocalConnects, ClientStep, Chunk, bounds, May
  <2>3. CASE DirectConnects \/ DirectSends \/ DirectLeaves \/ ServerIdle \/ ServerStops
    BY <2>3 DEF DirectConnects, DirectSends, DirectLeaves, ServerIdle, ServerStops, ServerStep, Chunk, bounds
  <2>4. ASSUME NEW a \in AgentWs,
               \/ AgentConnects(a) \/ ServerHearsAgent(a) \/ AgentHears(a)
               \/ AgentLinkBreaks(a) \/ AgentLinkEnds(a)
        PROVE  idled' = idled
    BY <2>4 DEF AgentConnects, ServerHearsAgent, AgentHears, AgentLinkBreaks, AgentLinkEnds, AgentStep, ServerStep, bounds
  <2>5. ASSUME NEW w \in ClientWs,
               \/ ClientConnects(w) \/ ServerHearsClient(w) \/ ClientHears(w)
               \/ ClientLinkBreaks(w) \/ ClientLinkEnds(w)
        PROVE  idled' = idled
    BY <2>5 DEF ClientConnects, ServerHearsClient, ClientHears, ClientLinkBreaks, ClientLinkEnds, ClientStep, ServerStep, bounds
  <2> QED
    BY <1>2, <2>1, <2>2, <2>3, <2>4, <2>5 DEF TunnelNext
<1> QED
  BY <1>1, <1>2

LEMMA ExactInvariant ==
  ASSUME "client_idle" \notin Faults
  PROVE  TunnelSpec => [](IInvTunnel /\ idled = {} /\ Exact)
<1>1. TunnelInit => idled = {} /\ Exact
  BY BeginsExact DEF TunnelInit
<1>2. IInvTunnel /\ idled = {} /\ Exact /\ [TunnelNext]_tunnelVars => IInvTunnel' /\ (idled = {})' /\ Exact'
  <2> SUFFICES ASSUME IInvTunnel, idled = {}, Exact, [TunnelNext]_tunnelVars
               PROVE  IInvTunnel' /\ (idled = {})' /\ Exact'
    OBVIOUS
  <2>1. IInvTunnel' /\ idled' = {}
    BY TunnelStep, IdledStep
  <2>2. Exact'
    BY ExactStep, SameExact DEF tunnelVars, serverVars, streamVars
  <2> QED
    BY <2>1, <2>2
<1> QED
  BY <1>1, <1>2, TunnelBegins, PTL DEF TunnelSpec

(* In the whole tunnel the server's counts and sets are exact as long as no *)
(* idle timer of a client's expires: that no RES_ABORT reaches a TCP stream *)
(* (assumed of the clients by SlotsAccounted) follows from what they do.    *)
THEOREM SlotsAccountedInTunnel ==
  ASSUME "client_idle" \notin Faults
  PROVE  TunnelSpec => [](CountsExact /\ OwnersExact)
<1>1. IInvTunnel /\ idled = {} /\ Exact => CountsExact /\ OwnersExact
  BY DEF Exact
<1> QED
  BY <1>1, ExactInvariant, PTL

-----------------------------------------------------------------------------
(* When nothing breaks the clients' connections, each lasts from its        *)
(* handshake to the shutdown, which closes the agents' too.                 *)
Ready(w) == clients[w] = "open" /\ clientLinks[w] = "open"
Lasting ==
  /\ shuttingDown => \A a \in AgentWs : agents[a] # "open"
  /\ ~shuttingDown => \A w \in ClientWs : Ready(w) \/ (clients[w] = "absent" /\ clientLinks[w] = "unused")

(* What a step makes of it. *)
Lasts ==
  /\ Lasting'
  /\ shuttingDown => shuttingDown'
  /\ ~shuttingDown' => ActiveClients \subseteq ActiveClients'

LEMMA SameLasts ==
  ASSUME Lasting, UNCHANGED wsVars, clientLinks' = clientLinks
  PROVE  Lasts
  BY DEF Lasts, Lasting, Ready, ActiveClients, wsVars

(* The server's own steps, other than the shutdown, open and close nothing. *)
LEMMA EventsKeepLinks ==
  ASSUME \/ \E p \in Ports : DirectConnect(p)
         \/ \E i \in Ids : DirectData(i) \/ DirectClose(i) \/ DirectError(i) \/ IdleTimeout(i)
  PROVE  UNCHANGED wsVars
<1>1. \A i, notify : Abort(i, notify) => UNCHANGED wsVars
  BY DEF Abort, EndStream
<1>2. \A i : Relay(i) => UNCHANGED wsVars
  BY <1>1 DEF Relay
<1>3. \A i, s : Open(i, s) => UNCHANGED wsVars
  BY DEF Open
<1> QED
  BY <1>1, <1>2, <1>3 DEF DirectConnect, DirectData, DirectClose, DirectError, IdleTimeout, EndStream

LEMMA ShutdownLasts ==
  ASSUME TypeOK, Shutdown
  PROVE  Lasts
<1>1. shuttingDown' /\ ~shuttingDown
  BY DEF Shutdown
<1>2. agents' = [a \in AgentWs |-> IF agents[a] = "open" THEN "closing" ELSE agents[a]]
  BY DEF Shutdown, TypeOK
<1> QED
  BY <1>1, <1>2 DEF Lasts, Lasting

LEMMA LastingStep ==
  ASSUME IInvTunnel, TunnelNext, "client_link" \notin Faults, Lasting
  PROVE  Lasts
<1>1. /\ TypeOK /\ agents \in [AgentWs -> WsState] /\ clients \in [ClientWs -> WsState]
      /\ clientLinks \in [ClientWs -> Cli!LinkState]
  BY TypedParts DEF IInvTunnel, TypeOK, ClientTyped, Cli!TypeOK
<1>2. CASE AppConnects \/ AppLeaves \/ AppSends \/ \E s \in Socks : AppClosed(s)
  <2>1. AgentOnly
    BY <1>2 DEF AppConnects, AppLeaves, AppSends, AppClosed, AgentStep
  <2> QED
    BY <2>1, SameLasts DEF AgentOnly, serverVars, clientVars, wsVars
<1>3. CASE LocalFails \/ LocalCloses \/ LocalSends \/ ClientIdle
           \/ \E w \in ClientWs, i \in Ids : LocalConnects(w, i)
  <2>1. ClientOnly
    BY <1>3 DEF LocalFails, LocalCloses, LocalSends, ClientIdle, LocalConnects, ClientStep
  <2>2. clientLinks' = clientLinks
    BY <1>3 DEF LocalFails, LocalCloses, LocalSends, ClientIdle, LocalConnects, Cli!LocalFails, Cli!LocalCloses,
                Cli!LocalGone, Cli!LocalData, Cli!IdleTimeout, Cli!LocalConnects
  <2> QED
    BY <2>1, <2>2, SameLasts DEF ClientOnly, serverVars, wsVars
<1>4. CASE DirectConnects \/ DirectSends \/ DirectLeaves \/ ServerIdle \/ ServerStops
  <2>1. ServerOnly
    BY <1>4 DEF DirectConnects, DirectSends, DirectLeaves, ServerIdle, ServerStops, ServerStep
  <2>2. CASE Shutdown
    BY <1>1, <2>2, ShutdownLasts
  <2>3. CASE ~Shutdown
    <3>1. UNCHANGED wsVars
      BY <1>4, <2>3, EventsKeepLinks DEF DirectConnects, DirectSends, DirectLeaves, ServerIdle, ServerStops
    <3> QED
      BY <2>1, <3>1, SameLasts DEF ServerOnly, clientVars
  <2> QED
    BY <2>2, <2>3
<1>5. ASSUME NEW a \in AgentWs, AgentConnects(a) PROVE Lasts
  <2>1. ~shuttingDown /\ UNCHANGED <<shuttingDown, clients, clientLinks>>
    BY <1>5 DEF AgentConnects, AgentJoin, clientVars
  <2> QED
    BY <2>1 DEF Lasts, Lasting, Ready, ActiveClients
<1>6. ASSUME NEW a \in AgentWs, ServerHearsAgent(a) PROVE Lasts
  <2>1. UNCHANGED wsVars /\ clientLinks' = clientLinks
    BY <1>6, FramesKeepLinks DEF ServerHearsAgent, clientVars
  <2> QED
    BY <2>1, SameLasts
<1>7. ASSUME NEW a \in AgentWs, AgentHears(a) PROVE Lasts
  BY <1>7, SameLasts DEF AgentHears, serverVars, clientVars, wsVars
<1>8. ASSUME NEW a \in AgentWs, AgentLinkBreaks(a) \/ AgentLinkEnds(a) PROVE Lasts
  <2>1. CASE AgentOnly
    BY <2>1, SameLasts DEF AgentOnly, serverVars, clientVars, wsVars
  <2>2. CASE ServerOnly /\ (AgentClosing(a) \/ AgentClosed(a))
    <3>1. UNCHANGED <<shuttingDown, clients, clientLinks>>
      BY <2>2 DEF ServerOnly, AgentClosing, AgentClosed, clientVars
    <3>2. \A b \in AgentWs : agents'[b] = "open" => agents[b] = "open"
      BY <1>1, <2>2 DEF AgentClosing, AgentClosed
    <3> QED
      BY <3>1, <3>2 DEF Lasts, Lasting, Ready, ActiveClients
  <2> QED
    BY <1>8, <2>1, <2>2 DEF AgentLinkBreaks, AgentLinkEnds, AgentStep, ServerStep
<1>9. ASSUME NEW w \in ClientWs, ClientConnects(w) PROVE Lasts
  <2>1. /\ clients' = [clients EXCEPT ![w] = "open"] /\ clientLinks' = [clientLinks EXCEPT ![w] = "open"]
        /\ ~shuttingDown /\ UNCHANGED <<shuttingDown, agents>>
    BY <1>9 DEF ClientConnects, ClientJoin, Cli!LinkOpens
  <2>2. clients'[w] = "open" /\ clientLinks'[w] = "open"
    BY <1>1, <2>1
  <2>3. \A v \in ClientWs : v # w => clients'[v] = clients[v] /\ clientLinks'[v] = clientLinks[v]
    BY <1>1, <2>1
  <2> QED
    BY <2>1, <2>2, <2>3 DEF Lasts, Lasting, Ready, ActiveClients
<1>10. ASSUME NEW w \in ClientWs, ServerHearsClient(w) PROVE Lasts
  <2>1. UNCHANGED wsVars /\ clientLinks' = clientLinks
    BY <1>10, FramesKeepLinks DEF ServerHearsClient, clientVars
  <2> QED
    BY <2>1, SameLasts
<1>11. ASSUME NEW w \in ClientWs, ClientHears(w) PROVE Lasts
  <2>1. clientLinks' = clientLinks
    BY <1>11 DEF ClientHears, Cli!OnFrame, Cli!TcpOpen, Cli!clientVars
  <2> QED
    BY <1>11, <2>1, SameLasts DEF ClientHears, serverVars, wsVars
<1>12. ASSUME NEW w \in ClientWs, ClientLinkBreaks(w) \/ ClientLinkEnds(w) PROVE Lasts
  <2>1. ClientLinkEnds(w)
    BY <1>12 DEF ClientLinkBreaks, May
  <2>2. shuttingDown
    BY <2>1 DEF Lasting, Ready, ClientLinkEnds, Cli!LinkBreaks, Cli!LinkCloses, ClientClosing, ClientClosed
  <2>3. UNCHANGED <<shuttingDown, agents>>
    BY <2>1 DEF ClientLinkEnds, ClientStep, ClientOnly, serverVars, ClientClosing, ClientClosed
  <2> QED
    BY <2>2, <2>3 DEF Lasts, Lasting
<1> QED
  BY <1>2, <1>3, <1>4, <1>5, <1>6, <1>7, <1>8, <1>9, <1>10, <1>11, <1>12 DEF TunnelNext

-----------------------------------------------------------------------------
(* A TCP_CONNECT under way asks for a port that agents may use, and finds a *)
(* tunnel client, or the server stopping.                                   *)
Asks == {f \in AgentFrames : f.type = "TCP_CONNECT" => f.port \in AgentPorts /\ (shuttingDown \/ ActiveClients # {})}
Invited == fromAgent \in [AgentWs -> Seq(Asks)]

LEMMA SeqsWider ==
  ASSUME NEW S, NEW T, S \subseteq T, NEW W, NEW q, q \in [W -> Seq(S)]
  PROVE  q \in [W -> Seq(T)]
<1>1. \A s \in Seq(S) : s \in Seq(T)
  OBVIOUS
<1> QED
  BY <1>1

LEMMA SendsSeqs ==
  ASSUME NEW T, NEW fs, fs \in Seq(T), fromAgent \in [AgentWs -> Seq(T)], Agt!Sends(fs)
  PROVE  fromAgent' \in [AgentWs -> Seq(T)]
<1>1. \A a \in AgentWs : fromAgent[a] \o fs \in Seq(T) /\ fromAgent[a] \in Seq(T)
  BY ConcatType
<1> QED
  BY <1>1 DEF Agt!Sends

LEMMA ReportAsks ==
  ASSUME NEW s, NEW t \in {"TCP_DATA", "TCP_CLOSE", "TCP_ABORT"}
  PROVE  Agt!Report(t, s) \in Seq(Asks)
<1>1. ASSUME NEW i \in Ids PROVE <<Msg(t, i)>> \in Seq(Asks)
  <2>1. Msg(t, i) \in AgentFrames /\ Msg(t, i).type # "TCP_CONNECT"
    BY DEF AgentFrames, Msg, Frame
  <2>2. Msg(t, i) \in Asks
    BY <2>1 DEF Asks
  <2> QED
    BY <2>2
<1>2. <<>> \in Seq(Asks)
  OBVIOUS
<1> QED
  BY <1>1, <1>2, ReportIs

LEMMA InvitedApp ==
  ASSUME Invited, "no_client" \notin Faults, \A s \in Socks : SockPort[s] \in AgentPorts,
         AppConnects \/ AppLeaves \/ AppSends \/ \E s \in Socks : AppClosed(s)
  PROVE  fromAgent' \in [AgentWs -> Seq(Asks)]
<1>0. fromAgent \in [AgentWs -> Seq(Asks)]
  BY DEF Invited
<1>1. ASSUME AppConnects, NEW s \in Socks, Agt!AppConnect(s) PROVE fromAgent' \in [AgentWs -> Seq(Asks)]
  <2>1. ActiveClients # {}
    BY <1>1 DEF AppConnects, May
  <2> DEFINE f == Frame("TCP_CONNECT", 0, SockPort[s])
  <2>2. f \in AgentFrames /\ f.port = SockPort[s]
    BY TunnelAssumption DEF AgentFrames, Frame
  <2>3. f \in Asks
    BY <2>1, <2>2 DEF Asks
  <2> HIDE DEF f
  <2>4. <<f>> \in Seq(Asks)
    BY <2>3
  <2>5. Agt!Sends(<<f>>) \/ fromAgent' = fromAgent
    BY <1>1, SameNames DEF Agt!AppConnect, f
  <2> QED
    BY <1>0, <2>4, <2>5, SendsSeqs
<1>2. ASSUME NEW s \in Socks, NEW t \in {"TCP_DATA", "TCP_CLOSE", "TCP_ABORT"}, Agt!Sends(Agt!Report(t, s))
      PROVE  fromAgent' \in [AgentWs -> Seq(Asks)]
  BY <1>0, <1>2, ReportAsks, SendsSeqs
<1>3. \A s \in Socks : Agt!AppEnds(s) => fromAgent' = fromAgent
  BY DEF Agt!AppEnds
<1>4. CASE AppConnects
  BY <1>1, <1>4 DEF AppConnects
<1>5. CASE AppLeaves
  BY <1>0, <1>2, <1>3, <1>5 DEF AppLeaves, Agt!AppFails, Agt!AppGone
<1>6. CASE AppSends
  BY <1>2, <1>6 DEF AppSends, Agt!AppData
<1>7. CASE \E s \in Socks : AppClosed(s)
  BY <1>2, <1>7 DEF AppClosed, Agt!AppClosed, Agt!AppGone
<1> QED
  BY <1>4, <1>5, <1>6, <1>7

LEMMA InvitedMoves ==
  ASSUME TunnelNext, Invited, "no_client" \notin Faults, \A s \in Socks : SockPort[s] \in AgentPorts
  PROVE  fromAgent' \in [AgentWs -> Seq(Asks)]
<1>0. fromAgent \in [AgentWs -> Seq(Asks)]
  BY DEF Invited
<1>1. fromAgent' = fromAgent => fromAgent' \in [AgentWs -> Seq(Asks)]
  BY <1>0
<1>2. CASE AppConnects \/ AppLeaves \/ AppSends \/ \E s \in Socks : AppClosed(s)
  BY <1>2, InvitedApp
<1>3. CASE LocalFails \/ LocalCloses \/ LocalSends \/ ClientIdle
           \/ \E w \in ClientWs, i \in Ids : LocalConnects(w, i)
  BY <1>1, <1>3 DEF LocalFails, LocalCloses, LocalSends, ClientIdle, LocalConnects, ClientStep, ClientOnly
<1>4. CASE DirectConnects \/ DirectSends \/ DirectLeaves \/ ServerIdle \/ ServerStops
  BY <1>1, <1>4 DEF DirectConnects, DirectSends, DirectLeaves, ServerIdle, ServerStops, ServerStep, ServerOnly
<1>5. ASSUME NEW a \in AgentWs, ServerHearsAgent(a) PROVE fromAgent' \in [AgentWs -> Seq(Asks)]
  <2>1. fromAgent[a] # <<>> /\ fromAgent' = [fromAgent EXCEPT ![a] = Tail(@)]
    BY <1>5 DEF ServerHearsAgent, Pop
  <2> QED
    BY <1>0, <2>1, PopType
<1>6. ASSUME NEW a \in AgentWs, AgentConnects(a) \/ AgentHears(a) \/ AgentLinkBreaks(a) \/ AgentLinkEnds(a)
      PROVE  fromAgent' = fromAgent
  <2>1. CASE AgentConnects(a)
    BY <2>1 DEF AgentConnects, Agt!LinkOpens
  <2>2. CASE AgentHears(a)
    BY <2>2 DEF AgentHears, Agt!OnFrame, Agt!ConnectAck, Agt!ConnectReject, Agt!StreamEnds, Agt!agentVars
  <2>3. CASE AgentLinkBreaks(a) \/ AgentLinkEnds(a)
    BY <2>3 DEF AgentLinkBreaks, AgentLinkEnds, Agt!LinkBreaks, Agt!LinkCloses, ServerStep, ServerOnly
  <2> QED
    BY <1>6, <2>1, <2>2, <2>3
<1>7. ASSUME NEW w \in ClientWs,
             \/ ClientConnects(w) \/ ServerHearsClient(w) \/ ClientHears(w)
             \/ ClientLinkBreaks(w) \/ ClientLinkEnds(w)
      PROVE  fromAgent' = fromAgent
  BY <1>7 DEF ClientConnects, ServerHearsClient, ClientHears, ClientLinkBreaks, ClientLinkEnds, ServerStep, ServerOnly,
              ClientStep, ClientOnly
<1> QED
  BY <1>1, <1>2, <1>3, <1>4, <1>5, <1>6, <1>7 DEF TunnelNext

LEMMA InvitedStep ==
  ASSUME TunnelNext, Invited, Lasts, "no_client" \notin Faults, \A s \in Socks : SockPort[s] \in AgentPorts
  PROVE  Invited'
<1>1. Asks \subseteq Asks'
  BY DEF Lasts, Asks
<1>2. fromAgent' \in [AgentWs -> Seq(Asks')]
  BY <1>1, InvitedMoves, SeqsWider
<1> QED
  BY <1>2 DEF Invited

-----------------------------------------------------------------------------
(* Limits that a run's connections cannot reach, and ports agents may use.  *)
Ample ==
  /\ \A s \in Socks : SockPort[s] \in AgentPorts
  /\ MaxConns <= MaxStreams
  /\ MaxPerPort = 0 \/ MaxConns <= MaxPerPort
  /\ MaxPerAgent = 0 \/ MaxConns <= MaxPerAgent

(* There are no more streams than connections made, and while a TCP_CONNECT *)
(* is under way there are fewer.                                            *)
LEMMA FewStreams ==
  ASSUME Typed, Joint, Asking # {}
  PROVE  \E n \in Nat : n < MaxConns /\ \A i \in Ids : streams[i].kind # "free" => i \in 1 .. n
<1>1. PICK n \in 0 .. MaxId : Used(n)
  BY DEF Joint, Unused
<1>2. n \in Nat /\ MaxId \in Nat /\ MaxConns \in Nat
  BY <1>1, ServerAssumption, TunnelAssumption
<1>3. Cardinality(Asking) \in Nat \ {0}
  BY Countings, FS_EmptySet
<1>4. directs + Cardinality(Made) <= MaxConns /\ directs \in Nat /\ Cardinality(Made) \in Nat
  BY Countings DEF Joint, Unused
<1>5. n < MaxConns
  BY <1>1, <1>2, <1>3, <1>4 DEF Used
<1>6. ASSUME NEW i \in Ids, streams[i].kind # "free" PROVE i \in 1 .. n
  <2>1. i \in 1 .. MaxId
    BY DEF Ids
  <2>2. i \notin n + 1 .. MaxId
    BY <1>1, <1>6 DEF Used, Fresh, Free
  <2> QED
    BY <1>2, <2>1, <2>2
<1> QED
  BY <1>2, <1>5, <1>6

(* A TCP_CONNECT finds room.                                                *)
LEMMA NeverRefused ==
  ASSUME Typed, Joint, Exact, Ample, Invited, ~shuttingDown, NEW a \in AgentWs, fromAgent[a] # <<>>,
         Head(fromAgent[a]).type = "TCP_CONNECT"
  PROVE  ~Refused(a, Head(fromAgent[a]).port)
<1> DEFINE p == Head(fromAgent[a]).port
<1>1. fromAgent[a] \in Seq(Asks) /\ fromAgent[a] \in Seq(AgentFrames)
  BY TypedParts DEF Invited, AgentTyped
<1>2. Head(fromAgent[a]) \in Asks /\ 1 \in DOMAIN fromAgent[a] /\ Head(fromAgent[a]) = fromAgent[a][1]
  BY <1>1
<1>3. p \in AgentPorts /\ ActiveClients # {}
  BY <1>2 DEF Asks
<1>4. Asking # {}
  <2>1. <<a, 1>> \in Asking
    BY <1>2, AskingIs
  <2> QED
    BY <2>1
<1>5. PICK n \in Nat : n < MaxConns /\ \A i \in Ids : streams[i].kind # "free" => i \in 1 .. n
  BY <1>4, FewStreams
<1>6. ASSUME NEW S, S \in SUBSET LiveIds PROVE Cardinality(S) \in Nat /\ Cardinality(S) <= n
  <2>1. S \subseteq 1 .. n
    BY <1>5, <1>6 DEF LiveIds
  <2>2. IsFiniteSet(1 .. n) /\ Cardinality(1 .. n) = n
    BY <1>5, FS_Interval
  <2> QED
    BY <2>1, <2>2, FS_Subset, FS_CardinalityType
<1> HIDE DEF p
<1>7. Below(agentCount[p], MaxPerPort)
  <2>1. p \in Ports
    BY <1>3, ServerAssumption
  <2>2. agentCount[p] = Cardinality(On("agent", p)) /\ On("agent", p) \in SUBSET LiveIds
    BY <2>1 DEF Exact, CountsExact, On, LiveIds
  <2>3. agentCount[p] \in Nat /\ agentCount[p] <= n
    BY <1>6, <2>2
  <2> QED
    BY <1>5, <2>3, ServerAssumption, TunnelAssumption DEF Below, Ample
<1>8. Below(Cardinality(agentStreams[a]), MaxPerAgent)
  <2>1. agentStreams[a] \in SUBSET LiveIds
    BY DEF Exact, OwnersExact, LiveIds, IsAgent
  <2>2. Cardinality(agentStreams[a]) \in Nat /\ Cardinality(agentStreams[a]) <= n
    BY <1>6, <2>1
  <2> QED
    BY <1>5, <2>2, ServerAssumption, TunnelAssumption DEF Below, Ample
<1>9. ~TableFull
  <2>1. Cardinality(LiveIds) \in Nat /\ Cardinality(LiveIds) <= n
    BY <1>6
  <2>2. n + 1 \in Ids \ LiveIds
    BY <1>5, ServerAssumption, TunnelAssumption DEF Ids, LiveIds
  <2>3. Cardinality(LiveIds) < MaxStreams
    BY <1>5, <2>1, ServerAssumption, TunnelAssumption DEF Ample
  <2> QED
    BY <2>1, <2>2, <2>3, ServerAssumption DEF TableFull
<1> QED
  BY <1>3, <1>7, <1>8, <1>9 DEF Refused, p

-----------------------------------------------------------------------------
(* A client confirms a stream before it closes it.  While the server awaits *)
(* the TCP_OPEN_ACK, that is under way, or the local socket is not there    *)
(* yet and nothing has closed it.                                           *)
Awaited(w, i) == IsAgent(i) /\ streams[i].awaiting /\ streams[i].ws = w
Coming(w, i)  == \/ "TCP_OPEN_ACK" \in Kinds(fromClient[w], i)
                 \/ local[w][i] # "connected" /\ "TCP_CLOSE" \notin Kinds(fromClient[w], i)

Promised(w, i) ==
  /\ Leads(fromClient[w], "TCP_OPEN_ACK", i)
  /\ ~shuttingDown /\ Awaited(w, i) => Coming(w, i)

(* The server only forgets that it waits. *)
LEMMA PromisedStill ==
  ASSUME NEW w, NEW i, Promised(w, i), fromClient'[w] = fromClient[w],
         local'[w][i] = "connected" => local[w][i] = "connected",
         shuttingDown => shuttingDown', Awaited(w, i)' => Awaited(w, i)
  PROVE  Promised(w, i)'
  BY DEF Promised, Coming

LEMMA AwaitedTurn ==
  ASSUME TypeOK, NEW i \in Ids, NEW w, Calm(i) \/ Flows(i) \/ Strays(i) \/ Acks(i) \/ Ends(i)
  PROVE  Awaited(w, i)' => Awaited(w, i)
<1>1. CASE Calm(i) \/ Flows(i) \/ Strays(i)
  <2>1. streams'[i] = streams[i]
    BY <1>1 DEF Calm, Flows, Strays, Stays
  <2> QED
    BY <2>1 DEF Awaited, IsAgent
<1>2. CASE Acks(i)
  <2>1. ~streams'[i].awaiting
    BY <1>2 DEF Acks, TypeOK, Stream
  <2> QED
    BY <2>1 DEF Awaited
<1>3. CASE Ends(i)
  BY <1>3 DEF Ends, Awaited, Free
<1> QED
  BY <1>1, <1>2, <1>3

(* A stream is opened for a client that knows nothing of it. *)
LEMMA PromisedTurn ==
  ASSUME TypeOK, NEW w \in ClientWs, NEW i \in Ids, Turn, AtClient(w, i)', Promised(w, i),
         UNCHANGED <<fromClient, local>>, shuttingDown => shuttingDown'
  PROVE  Promised(w, i)'
<1>1. CASE Calm(i) \/ Flows(i) \/ Strays(i) \/ Acks(i) \/ Ends(i)
  BY <1>1, AwaitedTurn, PromisedStill
<1>2. CASE Opens(i)
  <2>1. ASSUME Awaited(w, i)' PROVE Coming(w, i)'
    <3> DEFINE f == Frame("TCP_OPEN", i, streams'[i].port)
    <3>1. /\ streams'[i].ws = w /\ clients[w] = "open" /\ streams'[i].port \in Ports
          /\ toClient' = Post(toClient, clients, w, f)
      BY <1>2, <2>1 DEF Opens, Awaited
    <3>2. f \in FrameSet /\ f.id = i /\ f.type = "TCP_OPEN"
      <4>1. f \in FrameSet
        BY <3>1, FrameType DEF TcpTypes
      <4> QED
        BY <4>1 DEF Frame
    <3> HIDE DEF f
    <3>3. <<f>> \in Seq(FrameSet) /\ Kinds(<<f>>, i) = {"TCP_OPEN"}
      <4>1. <<f>> \in Seq(FrameSet)
        BY <3>2
      <4>2. Kinds(<<f>>, i) = IF f.id = i THEN {f.type} ELSE {}
        BY KindsOne
      <4> QED
        BY <3>2, <4>1, <4>2
    <3>4. toClient \in [ClientWs -> Seq(FrameSet)]
      BY DEF TypeOK
    <3>5. Kinds(<<f>>, i) \subseteq Kinds(PostAll(toClient, clients, w, <<f>>)[w], i)
      BY <3>1, <3>3, <3>4, PostAdds
    <3>6. "TCP_OPEN" \in Kinds(toClient'[w], i)
      BY <3>1, <3>3, <3>5 DEF Post
    <3> QED
      BY <3>6 DEF AtClient, Coming
  <2> QED
    BY <2>1 DEF Promised
<1> QED
  BY <1>1, <1>2 DEF Turn

LEMMA PromisedHeard ==
  ASSUME Typed, Joint, NEW v \in ClientWs, ServerHearsClient(v), NEW w \in ClientWs, NEW i \in Ids, Promised(w, i)
  PROVE  Promised(w, i)'
<1>0. PICK f : f = Head(fromClient[v])
  OBVIOUS
<1>1. /\ fromClient[v] # <<>> /\ OnClientFrame(v, f) /\ local' = local
      /\ fromClient' = [fromClient EXCEPT ![v] = Tail(@)]
  BY <1>0 DEF ServerHearsClient, Pop, clientVars
<1>2. TypeOK /\ fromClient \in [ClientWs -> Seq(ClientFrames)] /\ fromClient[v] \in Seq(ClientFrames)
  BY TypedParts DEF ClientTyped
<1>3. shuttingDown' = shuttingDown
  BY <1>1, FramesKeepLinks DEF wsVars
<1>4. Awaited(w, i)' => Awaited(w, i)
  <2>1. Turn /\ Unborn
    BY ClientFrameTurns
  <2> QED
    BY <1>2, <2>1, UnbornOpens, AwaitedTurn DEF Turn
<1>5. CASE w # v
  <2>1. fromClient'[w] = fromClient[w]
    BY <1>1, <1>2, <1>5
  <2> QED
    BY <1>1, <1>3, <1>4, <2>1, PromisedStill
<1>6. CASE w = v
  <2>1. fromClient'[w] = Tail(fromClient[w])
    BY <1>1, <1>2, <1>6
  <2>2. /\ Kinds(fromClient'[w], i) \subseteq Kinds(fromClient[w], i)
        /\ Kinds(fromClient[w], i) = Kinds(fromClient'[w], i) \cup (IF f.id = i THEN {f.type} ELSE {})
        /\ Leads(fromClient[w], "TCP_OPEN_ACK", i) => Leads(fromClient'[w], "TCP_OPEN_ACK", i)
    BY <1>0, <1>1, <1>2, <1>6, <2>1, KindsTail
  <2>3. ASSUME Awaited(w, i)', f.id = i, f.type = "TCP_OPEN_ACK" PROVE FALSE
    <3>1. Awaited(w, i)
      BY <1>4, <2>3
    <3>2. ClientOpenAck(i)
      BY <1>1, <1>6, <2>3, <3>1 DEF OnClientFrame, LiveIds, Awaited, IsAgent
    <3>3. streams' = [streams EXCEPT ![i].awaiting = FALSE]
      BY <3>1, <3>2 DEF ClientOpenAck, Awaited
    <3>4. ~streams'[i].awaiting
      BY <1>2, <3>3 DEF TypeOK, Stream
    <3> QED
      BY <2>3, <3>4 DEF Awaited
  <2> QED
    BY <1>1, <1>3, <1>4, <2>2, <2>3 DEF Promised, Coming
<1> QED
  BY <1>5, <1>6

(* What a client sends keeps it, but for the TCP_OPEN_ACK itself. *)
LEMMA PromisedSends ==
  ASSUME Typed, NEW v \in ClientWs, NEW j \in Ids,
         NEW t \in {"TCP_OPEN_ACK", "TCP_DATA", "TCP_CLOSE", "TCP_ABORT", "RES_ABORT"},
         Cli!Sends(v, Cli!Msg(t, j)) \/ fromClient' = fromClient,
         UNCHANGED <<streams, shuttingDown>>,
         NEW w \in ClientWs, NEW i \in Ids, Promised(w, i),
         w = v /\ i = j => t # "TCP_OPEN_ACK" /\ (t = "TCP_CLOSE" => local[w][i] = "connected"),
         local'[w][i] = "connected" => local[w][i] = "connected"
  PROVE  Promised(w, i)'
<1> DEFINE f == Msg(t, j)
           X == IF w = v /\ i = j THEN {t} ELSE {}
<1>1. f \in ClientFrames /\ f.id = j /\ f.type = t
  BY ClientFrameOf DEF Msg, Frame
<1>2. fromClient' = PostAll(fromClient, clientLinks, v, <<f>>) \/ fromClient' = fromClient
  BY SameNames DEF Cli!Sends, Post
<1> HIDE DEF f
<1>3. /\ fromClient \in [ClientWs -> Seq(FrameSet)] /\ <<f>> \in Seq(FrameSet)
      /\ Kinds(<<f>>, i) = IF j = i THEN {t} ELSE {}
  <2>1. fromClient \in [ClientWs -> Seq(FrameSet)]
    <3>1. fromClient \in [ClientWs -> Seq(ClientFrames)] /\ ClientFrames \subseteq FrameSet
      BY TypedParts, SentFrames DEF ClientTyped
    <3> QED
      BY <3>1, SeqsWider
  <2>2. f \in FrameSet
    BY <1>1, SentFrames
  <2>3. <<f>> \in Seq(FrameSet)
    BY <2>2
  <2>4. Kinds(<<f>>, i) = IF f.id = i THEN {f.type} ELSE {}
    BY KindsOne
  <2> QED
    BY <1>1, <2>1, <2>3, <2>4
<1>4. Adds(fromClient[w], fromClient'[w], X, i)
  <2>1. CASE fromClient' = PostAll(fromClient, clientLinks, v, <<f>>)
    <3>1. Adds(fromClient[w], fromClient'[w], IF w = v THEN Kinds(<<f>>, i) ELSE {}, i)
      BY <1>3, <2>1, PostAdds
    <3> QED
      BY <1>3, <3>1
  <2> QED
    BY <1>2, <2>1, AddsNothing
<1>5. /\ Kinds(fromClient[w], i) \subseteq Kinds(fromClient'[w], i)
      /\ Kinds(fromClient'[w], i) \subseteq Kinds(fromClient[w], i) \cup X
      /\ Leads(fromClient'[w], "TCP_OPEN_ACK", i)
  BY <1>4 DEF Adds, Promised
<1>6. Awaited(w, i)' <=> Awaited(w, i)
  BY DEF Awaited, IsAgent
<1> QED
  BY <1>5, <1>6 DEF Promised, Coming

(* The local socket is there, and the client confirms. *)
LEMMA PromisedConfirms ==
  ASSUME Typed, Joint, idled = {}, Lasting, NEW w \in ClientWs, NEW i \in Ids, LocalConnects(w, i), Promised(w, i)
  PROVE  Promised(w, i)'
<1> DEFINE f == Msg("TCP_OPEN_ACK", i)
<1>1. /\ local[w][i] = "connecting" /\ Cli!Sends(w, Cli!Msg("TCP_OPEN_ACK", i))
      /\ UNCHANGED <<streams, shuttingDown, clients, clientLinks>>
  BY DEF LocalConnects, Cli!LocalConnects, ClientStep, ClientOnly, serverVars
<1>2. AtClient(w, i) /\ Owned(i) /\ ClientTyped
  BY TypedParts DEF Joint, Sound
<1>3. Kinds(fromClient[w], i) \cap (Endings \cup {"TCP_OPEN_ACK"}) = {}
  <2>1. i \in opened[w]
    BY <1>1, <1>2 DEF AtClient
  <2> QED
    BY <1>1, <1>2, <2>1 DEF AtClient
<1>4. /\ f \in ClientFrames /\ f.id = i /\ f.type = "TCP_OPEN_ACK"
      /\ fromClient' = Post(fromClient, clientLinks, w, f)
  BY <1>1, ClientFrameOf, SameNames DEF Cli!Sends, Msg, Frame
<1> HIDE DEF f
<1>5. fromClient \in [ClientWs -> Seq(ClientFrames)] /\ fromClient[w] \in Seq(ClientFrames)
  BY <1>2 DEF ClientTyped
<1>6. Leads(fromClient'[w], "TCP_OPEN_ACK", i)
  <2>1. CASE clientLinks[w] = "open"
    <3>1. fromClient'[w] = fromClient[w] \o <<f>>
      BY <1>4, <1>5, <2>1 DEF Post, PostAll
    <3>2. Leads(fromClient[w] \o <<f>>, f.type, f.id)
      BY <1>3, <1>4, <1>5, LeadsFirst
    <3> QED
      BY <1>4, <3>1, <3>2
  <2>2. CASE clientLinks[w] # "open"
    <3>1. fromClient' = fromClient
      BY <1>4, <2>2 DEF Post, PostAll
    <3> QED
      BY <3>1 DEF Promised
  <2> QED
    BY <2>1, <2>2
<1>7. ASSUME ~shuttingDown', Awaited(w, i)' PROVE Coming(w, i)'
  <2>1. ~shuttingDown /\ Live(i) /\ streams[i].ws = w
    BY <1>1, <1>7 DEF Awaited, IsAgent, Live
  <2>2. clientLinks[w] = "open"
    BY <1>2, <2>1 DEF Lasting, Ready, Owned
  <2>3. "TCP_OPEN_ACK" \in Kinds(fromClient'[w], i)
    BY <1>1, <1>2, <2>2, SendsKinds
  <2> QED
    BY <2>3 DEF Coming
<1> QED
  BY <1>6, <1>7 DEF Promised

(* A client's own steps keep what it has promised. *)
LEMMA PromisedLocal ==
  ASSUME Typed, Joint, idled = {}, Lasting, NEW w \in ClientWs, NEW i \in Ids, Promised(w, i),
         LocalFails \/ LocalCloses \/ LocalSends \/ ClientIdle \/ \E v \in ClientWs, j \in Ids : LocalConnects(v, j)
  PROVE  Promised(w, i)'
<1>1. local \in [ClientWs -> [Ids -> Cli!LocalState]]
  BY TypedParts, SameNames DEF ClientTyped, Cli!TypeOK
<1>2. UNCHANGED <<streams, shuttingDown>>
  BY DEF LocalFails, LocalCloses, LocalSends, ClientIdle, LocalConnects, ClientStep, ClientOnly, serverVars
<1>3. ASSUME NEW v \in ClientWs, NEW j \in Ids, Cli!Cleanup(v, j)
      PROVE  local'[w][i] = "connected" => local[w][i] = "connected"
  BY <1>1, <1>3 DEF Cli!Cleanup, Cli!SetLocal
<1>4. ASSUME NEW v \in ClientWs, NEW j \in Ids, NEW t \in {"TCP_CLOSE", "TCP_ABORT"},
             Cli!LocalGone(v, j, t), t = "TCP_CLOSE" => local[v][j] = "connected"
      PROVE  Promised(w, i)'
  <2>1. Cli!Sends(v, Cli!Msg(t, j)) \/ fromClient' = fromClient
    BY <1>4 DEF Cli!LocalGone
  <2>2. local'[w][i] = "connected" => local[w][i] = "connected"
    BY <1>3, <1>4 DEF Cli!LocalGone
  <2> QED
    BY <1>2, <1>4, <2>1, <2>2, PromisedSends
<1>5. CASE LocalFails
  BY <1>4, <1>5 DEF LocalFails, Cli!LocalFails
<1>6. CASE LocalCloses
  BY <1>4, <1>6 DEF LocalCloses, Cli!LocalCloses
<1>7. CASE LocalSends
  <2>1. PICK v \in ClientWs, j \in Ids : Cli!LocalData(v, j)
    BY <1>7 DEF LocalSends
  <2>2. /\ Cli!Sends(v, Cli!Msg("TCP_DATA", j)) \/ fromClient' = fromClient
        /\ local' = local \/ Cli!Cleanup(v, j)
    BY <2>1 DEF Cli!LocalData
  <2>3. local'[w][i] = "connected" => local[w][i] = "connected"
    BY <1>3, <2>2
  <2> QED
    BY <1>2, <2>2, <2>3, PromisedSends
<1>8. CASE ClientIdle
  <2>1. PICK v \in ClientWs, j \in Ids : Cli!IdleTimeout(v, j)
    BY <1>8 DEF ClientIdle
  <2>2. Cli!Sends(v, Cli!Msg("RES_ABORT", j)) /\ local' = local
    BY <2>1 DEF Cli!IdleTimeout
  <2> QED
    BY <1>2, <2>2, PromisedSends
<1>9. ASSUME NEW v \in ClientWs, NEW j \in Ids, LocalConnects(v, j) PROVE Promised(w, i)'
  <2>1. CASE w = v /\ i = j
    BY <1>9, <2>1, PromisedConfirms
  <2>2. CASE ~(w = v /\ i = j)
    <3>1. Cli!Sends(v, Cli!Msg("TCP_OPEN_ACK", j)) /\ local' = [local EXCEPT ![v][j] = "connected"]
      BY <1>9 DEF LocalConnects, Cli!LocalConnects, Cli!SetLocal
    <3>2. local'[w][i] = local[w][i]
      BY <1>1, <2>2, <3>1
    <3> QED
      BY <1>2, <2>2, <3>1, <3>2, PromisedSends
  <2> QED
    BY <2>1, <2>2
<1> QED
  BY <1>5, <1>6, <1>7, <1>8, <1>9

(* So does what a client does with a frame, or when its session ends. *)
LEMMA PromisedHears ==
  ASSUME Typed, Joint, NEW w \in ClientWs, NEW i \in Ids, Promised(w, i), NEW v \in ClientWs, ClientHears(v)
  PROVE  Promised(w, i)'
<1>0. PICK f : f = Head(toClient[v])
  OBVIOUS
<1>1. Cli!OnFrame(v, f) /\ UNCHANGED <<streams, shuttingDown>>
  BY <1>0 DEF ClientHears, serverVars
<1>2. local \in [ClientWs -> [Ids -> Cli!LocalState]]
  BY TypedParts, SameNames DEF ClientTyped, Cli!TypeOK
<1>3. f.id \in Ids
  BY <1>0, ClientHearsSound
<1>4. CASE Cli!TcpOpen(v, f.id)
  <2>1. CASE Cli!Sends(v, Cli!Msg("TCP_ABORT", f.id)) /\ local' = local
    BY <1>1, <1>3, <2>1, PromisedSends
  <2>2. CASE fromClient' = fromClient /\ local' = [local EXCEPT ![v][f.id] = "connecting"]
    <3>1. local'[w][i] = "connected" => local[w][i] = "connected"
      BY <1>2, <1>3, <2>2
    <3>2. Awaited(w, i)' => Awaited(w, i)
      BY <1>1 DEF Awaited, IsAgent
    <3> QED
      BY <1>1, <2>2, <3>1, <3>2, PromisedStill
  <2> QED
    BY <1>4, <2>1, <2>2 DEF Cli!TcpOpen, Cli!SetLocal
<1>5. CASE fromClient' = fromClient /\ (Cli!Cleanup(v, f.id) \/ local' = local)
  <2>1. local'[w][i] = "connected" => local[w][i] = "connected"
    BY <1>2, <1>3, <1>5 DEF Cli!Cleanup, Cli!SetLocal
  <2>2. Awaited(w, i)' => Awaited(w, i)
    BY <1>1 DEF Awaited, IsAgent
  <2> QED
    BY <1>1, <1>5, <2>1, <2>2, PromisedStill
<1> QED
  BY <1>1, <1>4, <1>5 DEF Cli!OnFrame, Cli!clientVars

LEMMA PromisedStep ==
  ASSUME IInvTunnel, IInvTunnel', TunnelNext, idled = {}, Lasting, Lasts,
         NEW w \in ClientWs, NEW i \in Ids, Promised(w, i)
  PROVE  Promised(w, i)'
<1>1. /\ Typed /\ Joint /\ TypeOK /\ AtClient(w, i)' /\ (shuttingDown => shuttingDown')
      /\ local \in [ClientWs -> [Ids -> Cli!LocalState]]
  <2>1. AtClient(w, i)'
    BY DEF IInvTunnel, Joint, Sound
  <2>2. Typed /\ Joint /\ (shuttingDown => shuttingDown')
    BY DEF IInvTunnel, Lasts
  <2> QED
    BY <2>1, <2>2, TypedParts, SameNames DEF ClientTyped, Cli!TypeOK
<1>2. ASSUME streams' = streams, fromClient' = fromClient, local'[w][i] = "connected" => local[w][i] = "connected"
      PROVE  Promised(w, i)'
  <2>1. Awaited(w, i)' => Awaited(w, i)
    BY <1>2 DEF Awaited, IsAgent
  <2> QED
    BY <1>1, <1>2, <2>1, PromisedStill
<1>3. ASSUME AgentOnly PROVE Promised(w, i)'
  <2>1. UNCHANGED <<streams, fromClient, local>>
    BY <1>3 DEF AgentOnly, serverVars, clientVars
  <2> QED
    BY <1>2, <2>1
<1>4. ASSUME Turn, UNCHANGED <<fromClient, local>> PROVE Promised(w, i)'
  BY <1>1, <1>4, PromisedTurn
<1>5. ASSUME ServerOnly, ServerMoves \/ \E p \in Ports : DirectConnect(p) PROVE Promised(w, i)'
  <2>1. Turn
    BY <1>1, <1>5, EventTurns
  <2>2. UNCHANGED <<fromClient, local>>
    BY <1>5 DEF ServerOnly, clientVars
  <2> QED
    BY <1>4, <2>1, <2>2
<1>6. CASE AppConnects \/ AppLeaves \/ AppSends \/ \E s \in Socks : AppClosed(s)
  BY <1>3, <1>6 DEF AppConnects, AppLeaves, AppSends, AppClosed, AgentStep
<1>7. CASE LocalFails \/ LocalCloses \/ LocalSends \/ ClientIdle
           \/ \E v \in ClientWs, j \in Ids : LocalConnects(v, j)
  BY <1>1, <1>7, PromisedLocal
<1>8. CASE DirectConnects \/ DirectSends \/ DirectLeaves \/ ServerIdle \/ ServerStops
  BY <1>5, <1>8 DEF DirectConnects, DirectSends, DirectLeaves, ServerIdle, ServerStops, ServerStep, ServerMoves
<1>9. ASSUME NEW a \in AgentWs, AgentConnects(a) \/ AgentHears(a) PROVE Promised(w, i)'
  <2>1. UNCHANGED <<streams, fromClient, local>>
    BY <1>9 DEF AgentConnects, AgentJoin, AgentHears, serverVars, streamVars, clientVars
  <2> QED
    BY <1>2, <2>1
<1>10. ASSUME NEW a \in AgentWs, ServerHearsAgent(a) PROVE Promised(w, i)'
  <2>1. Turn
    BY <1>1, <1>10, AgentFrameTurns
  <2>2. UNCHANGED <<fromClient, local>>
    BY <1>10 DEF ServerHearsAgent, clientVars
  <2> QED
    BY <1>4, <2>1, <2>2
<1>11. ASSUME NEW a \in AgentWs, AgentLinkBreaks(a) \/ AgentLinkEnds(a) PROVE Promised(w, i)'
  BY <1>3, <1>5, <1>11 DEF AgentLinkBreaks, AgentLinkEnds, AgentStep, ServerStep, ServerMoves
<1>12. ASSUME NEW v \in ClientWs, ClientConnects(v) PROVE Promised(w, i)'
  <2>1. UNCHANGED <<streams, fromClient, local>>
    BY <1>12 DEF ClientConnects, ClientJoin, Cli!LinkOpens, streamVars
  <2> QED
    BY <1>2, <2>1
<1>13. ASSUME NEW v \in ClientWs, ServerHearsClient(v) PROVE Promised(w, i)'
  BY <1>1, <1>13, PromisedHeard
<1>14. ASSUME NEW v \in ClientWs, ClientHears(v) PROVE Promised(w, i)'
  BY <1>1, <1>14, PromisedHears
<1>15. ASSUME NEW v \in ClientWs, ClientLinkBreaks(v) \/ ClientLinkEnds(v) PROVE Promised(w, i)'
  <2>1. ASSUME ClientStep, Cli!LinkBreaks(v) \/ Cli!LinkCloses(v) PROVE Promised(w, i)'
    <3>1. streams' = streams /\ fromClient' = fromClient
      BY <2>1 DEF ClientStep, ClientOnly, serverVars, Cli!LinkBreaks, Cli!LinkCloses
    <3>2. local'[w][i] = "connected" => local[w][i] = "connected"
      BY <1>1, <2>1, SameNames DEF Cli!LinkBreaks, Cli!LinkCloses
    <3> QED
      BY <1>2, <3>1, <3>2
  <2>2. ASSUME ServerStep, ClientClosing(v) \/ ClientClosed(v) PROVE Promised(w, i)'
    BY <1>5, <2>2 DEF ServerStep, ServerMoves
  <2> QED
    BY <1>15, <2>1, <2>2 DEF ClientLinkBreaks, ClientLinkEnds
<1> QED
  BY <1>6, <1>7, <1>8, <1>9, <1>10, <1>11, <1>12, <1>13, <1>14, <1>15 DEF TunnelNext

-----------------------------------------------------------------------------
(* So nothing that the server holds or is sent goes without an answer.      *)
LEMMA AwaitedHeeded ==
  ASSUME Typed, Joint, idled = {}, ~shuttingDown, NEW w \in ClientWs, fromClient[w] # <<>>,
         \A i \in Ids : Promised(w, i)
  PROVE  ~Unheeded(w, Head(fromClient[w]))
<1>0. PICK f : f = Head(fromClient[w])
  OBVIOUS
<1> SUFFICES ASSUME Unheeded(w, f) PROVE FALSE
  BY <1>0
<1>1. /\ f.id \in Ids /\ f.type # "RES_ABORT" /\ f.type \in Kinds(fromClient[w], f.id)
      /\ fromClient[w] \in Seq(ClientFrames)
  <2>1. fromClient[w] \in Seq(ClientFrames)
    BY TypedParts DEF ClientTyped
  <2> QED
    BY <1>0, <2>1, HeardNoResAbort
<1>2. f.type = "TCP_CLOSE" /\ streams[f.id].awaiting /\ streams[f.id].ws = w
  BY <1>1 DEF Unheeded
<1>3. Awaited(w, f.id)
  BY <1>1, <1>2 DEF Awaited, Joint, Sound, Owned
<1>4. "TCP_OPEN_ACK" \in Kinds(fromClient[w], f.id) /\ Leads(fromClient[w], "TCP_OPEN_ACK", f.id)
  BY <1>1, <1>2, <1>3 DEF Promised, Coming
<1>5. Kinds(fromClient[w], f.id) = Kinds(Tail(fromClient[w]), f.id) \cup {f.type}
  <2>1. Kinds(fromClient[w], f.id)
          = Kinds(Tail(fromClient[w]), f.id) \cup (IF Head(fromClient[w]).id = f.id THEN {Head(fromClient[w]).type} ELSE {})
    BY <1>1, KindsTail
  <2> QED
    BY <1>0, <2>1
<1>6. "TCP_OPEN_ACK" \notin Kinds(Tail(fromClient[w]), f.id)
  BY <1>0, <1>1, <1>2, <1>4, KindsTail DEF Endings
<1> QED
  BY <1>2, <1>4, <1>5, <1>6

(* What it rests on. *)
IInvDue ==
  /\ idled = {} /\ Exact /\ Lasting /\ Invited
  /\ \A w \in ClientWs, i \in Ids : Promised(w, i)

(* Every connection that waits has its answer coming: AnswersDue. *)
Due == \A a \in AgentWs, p \in Ports : Talking(a) => Waits(p) <= Debt(a, p)

LEMMA NothingForfeit ==
  ASSUME IInvTunnel, IInvDue, Ample, "server_idle" \notin Faults, NEW a \in AgentWs, Talking(a)
  PROVE  ~Forfeiting(a)
<1>1. ~shuttingDown /\ \A w \in ClientWs : clients[w] # "closing"
  BY DEF IInvDue, Lasting, Ready, Talking
<1>2. ASSUME NEW w \in ClientWs, fromClient[w] # <<>> PROVE ~Unheeded(w, Head(fromClient[w]))
  BY <1>1, <1>2, AwaitedHeeded DEF IInvTunnel, IInvDue
<1>3. ASSUME fromAgent[a] # <<>>, Head(fromAgent[a]).type = "TCP_CONNECT"
      PROVE  ~Refused(a, Head(fromAgent[a]).port)
  BY <1>1, <1>3, NeverRefused DEF IInvTunnel, IInvDue
<1> QED
  BY <1>1, <1>2, <1>3 DEF Forfeiting

LEMMA DueStep ==
  ASSUME IInvTunnel, IInvTunnel', TunnelNext, IInvDue, Ample, "server_idle" \notin Faults, Due
  PROVE  Due'
<1> SUFFICES ASSUME NEW a \in AgentWs, NEW p \in Ports, Talking(a)' PROVE Waits(p)' <= Debt(a, p)'
  BY DEF Due
<1>1. /\ Debt(a, p) \in Nat /\ Waits(p) \in Nat /\ Debt(a, p)' \in Nat /\ Waits(p)' \in Nat
  <2>1. Debt(a, p) \in Nat /\ Waits(p) \in Nat
    BY AccountType DEF IInvTunnel
  <2>2. (Debt(a, p) \in Nat /\ Waits(p) \in Nat)'
    <3>1. Typed'
      BY DEF IInvTunnel
    <3> QED
      BY <3>1, AccountTypeNext
  <2> QED
    BY <2>1, <2>2
<1>2. CASE AgentConnects(a)
  BY <1>1, <1>2, ConnectsBlank DEF IInvTunnel
<1>3. CASE Settles(a, p)
  <2>1. Talking(a) /\ Balance(a, p) /\ Waits(p) <= Debt(a, p)
    BY <1>3 DEF Settles, Due
  <2>2. ~Forfeiting(a)
    BY <2>1, NothingForfeit
  <2> QED
    BY <1>1, <2>1, <2>2 DEF Balance, Even, Writeoff, Desertion
<1> QED
  BY <1>2, <1>3, TunnelSettles

LEMMA DueBegins == TunnelInit => IInvDue /\ Due
<1> SUFFICES ASSUME TunnelInit PROVE IInvDue /\ Due
  OBVIOUS
<1>1. /\ idled = {} /\ shuttingDown = FALSE /\ streams = [i \in Ids |-> Free]
      /\ clients = [w \in ClientWs |-> "absent"] /\ clientLinks = [w \in ClientWs |-> "unused"]
      /\ fromClient = [w \in ClientWs |-> <<>>] /\ fromAgent = [a \in AgentWs |-> <<>>]
      /\ agentLinks = [a \in AgentWs |-> "unused"]
  BY SameNames DEF TunnelInit, Init, Agt!Init, Cli!Init
<1>2. Exact
  BY BeginsExact DEF TunnelInit
<1>3. Lasting
  BY <1>1 DEF Lasting
<1>4. Invited
  <2>1. <<>> \in Seq(Asks)
    OBVIOUS
  <2> QED
    BY <1>1, <2>1 DEF Invited
<1>5. ASSUME NEW w \in ClientWs, NEW i \in Ids PROVE Promised(w, i)
  <2>1. Leads(fromClient[w], "TCP_OPEN_ACK", i)
    BY <1>1, LeadsNone
  <2>2. ~Awaited(w, i)
    BY <1>1 DEF Awaited, IsAgent, Free
  <2> QED
    BY <2>1, <2>2 DEF Promised
<1>6. Due
  BY <1>1 DEF Due, Talking
<1> QED
  BY <1>1, <1>2, <1>3, <1>4, <1>5, <1>6 DEF IInvDue

LEMMA DueNext ==
  ASSUME {"client_link", "client_idle", "server_idle", "no_client"} \cap Faults = {}, Ample,
         IInvTunnel, IInvDue, Due, [TunnelNext]_tunnelVars
  PROVE  IInvTunnel' /\ IInvDue' /\ Due'
<1>1. IInvTunnel' /\ idled' = {}
  <2>1. IInvTunnel'
    BY TunnelStep
  <2>2. idled' = idled /\ idled = {}
    BY IdledStep DEF IInvDue
  <2> QED
    BY <2>1, <2>2
<1>2. /\ idled = {} /\ Exact /\ Lasting /\ Invited
      /\ \A w \in ClientWs, i \in Ids : Promised(w, i)
  BY DEF IInvDue
<1>3. CASE TunnelNext
  <2>1. Exact' /\ Lasts
    BY <1>2, <1>3, ExactStep, LastingStep
  <2>2. Invited'
    BY <1>2, <1>3, <2>1, InvitedStep DEF Ample
  <2>3. \A w \in ClientWs, i \in Ids : Promised(w, i)'
    BY <1>1, <1>2, <1>3, <2>1, PromisedStep
  <2>4. Due'
    BY <1>1, <1>3, DueStep
  <2> QED
    BY <1>1, <2>1, <2>2, <2>3, <2>4 DEF IInvDue, Lasts
<1>4. CASE UNCHANGED tunnelVars
  <2>1. /\ UNCHANGED <<streams, nextId, clients, agents, registered, agentStreams, agentCount, routerCount, shuttingDown>>
        /\ UNCHANGED <<toAgent, pending, agentLinks, fromAgent, local, clientLinks, fromClient>>
    BY <1>4 DEF tunnelVars, serverVars, agentVars, clientVars
  <2>2. Exact'
    BY <1>2, <2>1, SameExact DEF streamVars
  <2>3. Lasting'
    BY <1>2, <2>1, SameLasts DEF Lasts, wsVars
  <2>4. Invited'
    BY <1>2, <2>1 DEF Invited, Asks, ActiveClients
  <2>5. ASSUME NEW w \in ClientWs, NEW i \in Ids PROVE Promised(w, i)'
    <3>1. Awaited(w, i)' => Awaited(w, i)
      BY <2>1 DEF Awaited, IsAgent
    <3> QED
      BY <1>2, <2>1, <3>1, PromisedStill
  <2>6. Due'
    <3>1. \A a \in AgentWs, p \in Ports : Debt(a, p)' = Debt(a, p) /\ Waits(p)' = Waits(p)
      BY <2>1, StillAccount
    <3>2. \A a \in AgentWs : Talking(a)' => Talking(a)
      BY <2>1 DEF Talking
    <3> QED
      BY <3>1, <3>2 DEF Due
  <2> QED
    BY <1>1, <2>2, <2>3, <2>4, <2>5, <2>6 DEF IInvDue
<1> QED
  BY <1>3, <1>4

(* On an open session no more of a port's connections wait than there are   *)
(* requests, unconfirmed streams and answers that name the port under way:  *)
(* no connection that the agent accepted is forgotten.  This is of tunnels  *)
(* whose limits leave room (Ample), in which the clients' connections last  *)
(* and no stream goes idle, and in which nobody connects before a tunnel    *)
(* client is up: in each other case the server ends a request or an         *)
(* unconfirmed stream with a frame that names no port, or with none.  The   *)
(* agent's session may break, the local service may fail, the application   *)
(* may leave and the server may stop.                                       *)
THEOREM AnswersComing ==
  ASSUME {"client_link", "client_idle", "server_idle", "no_client"} \cap Faults = {}, Ample
  PROVE  TunnelSpec => []AnswersDue
<1>1. TunnelInit => IInvTunnel /\ IInvDue /\ Due
  BY TunnelBegins, DueBegins
<1>2. IInvTunnel /\ IInvDue /\ Due /\ [TunnelNext]_tunnelVars => IInvTunnel' /\ IInvDue' /\ Due'
  BY DueNext
<1>3. IInvTunnel /\ IInvDue /\ Due => AnswersDue
  <2> SUFFICES ASSUME IInvTunnel, Due, NEW a \in AgentWs, NEW p \in Ports, Talking(a)
               PROVE  Cardinality({k \in DOMAIN pending : SockPort[pending[k]] = p})
                        <= Cardinality(Requests(fromAgent[a], p)) + Cardinality(Unconfirmed(a, p))
                             + Cardinality(Answers(toAgent[a], p))
    BY DEF AnswersDue, Talking
  <2>1. Waits(p) <= Debt(a, p)
    BY DEF Due
  <2> QED
    BY <2>1, AccountIs DEF IInvTunnel
<1> QED
  BY <1>1, <1>2, <1>3, PTL DEF TunnelSpec
=============================================================================

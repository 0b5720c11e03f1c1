----------------------------- MODULE HubProofs -----------------------------
(***************************************************************************)
(* Proofs about Hub, for every number of accounts, connections, installs,  *)
(* requests and queries.                                                   *)
(***************************************************************************)
EXTENDS HubRouter, SequenceTheorems, WellFoundedInduction, TLAPS

-----------------------------------------------------------------------------
(* Induction over a set of naturals, and what Append, Tail and Reverse do  *)
(* to the elements of a sequence.                                          *)

\* Induction over Nat with the property given as a set: a counterexample
\* would have a least element, as < is well founded on Nat.
LEMMA NatSetInduction ==
    ASSUME NEW P, 0 \in P, \A n \in Nat : n \in P => n+1 \in P
    PROVE  Nat \subseteq P
<1> DEFINE Less == OpToRel(<, Nat)
           T == Nat \ P
<1> SUFFICES ASSUME T # {} PROVE FALSE
  OBVIOUS
<1>1. IsWellFoundedOn(Less, Nat)
  BY NatLessThanWellFounded
<1>2. PICK x \in T : \A y \in T : ~ (<<y, x>> \in Less)
  <2> HIDE DEF Less
  <2> QED BY <1>1, WFMin
<1>3. x \in Nat \ {0} /\ x - 1 \in T
  OBVIOUS
<1>4. <<x-1, x>> \in Less
  BY <1>3 DEF OpToRel
<1> QED BY <1>2, <1>3, <1>4

\* The elements of a sequence by their positions.
LEMMA RangeOf ==
    ASSUME NEW S, NEW s \in Seq(S)
    PROVE  /\ \A x : x \in Range(s) <=> \E i \in 1..Len(s) : s[i] = x
           /\ Range(s) \subseteq S
BY LenProperties DEF Range

\* Append adds one element, and keeps a sequence free of duplicates when the
\* element is new.
LEMMA RangeOfAppend ==
    ASSUME NEW S, NEW s \in Seq(S), NEW e \in S
    PROVE  /\ Append(s, e) \in Seq(S)
           /\ Range(Append(s, e)) = Range(s) \cup {e}
           /\ IsInjective(s) /\ e \notin Range(s) => IsInjective(Append(s, e))
<1>1. /\ Append(s, e) \in Seq(S)
      /\ Len(s) \in Nat
      /\ Len(Append(s, e)) = Len(s) + 1
      /\ \A i \in 1..Len(s) : Append(s, e)[i] = s[i]
      /\ Append(s, e)[Len(s)+1] = e
  BY AppendProperties, LenProperties
<1>2. DOMAIN s = 1..Len(s) /\ DOMAIN Append(s, e) = 1..(Len(s)+1)
  BY <1>1, LenProperties
<1> DEFINE t == Append(s, e)
<1> HIDE DEF t
<1>3. Range(t) = Range(s) \cup {e}
  <2>1. ASSUME NEW x PROVE x \in Range(t) <=> x \in Range(s) \/ x = e
    BY <1>1, <1>2 DEF t, Range
  <2> QED BY <2>1
<1>4. ASSUME IsInjective(s), e \notin Range(s) PROVE IsInjective(t)
  <2>1. \A i \in 1..Len(s) : s[i] # e
    BY <1>2, <1>4 DEF Range
  <2> QED BY <1>1, <1>2, <1>4, <2>1 DEF t, IsInjective
<1> QED BY <1>1, <1>3, <1>4 DEF t

\* A non-empty sequence is its head and its tail.
LEMMA RangeOfTail ==
    ASSUME NEW S, NEW s \in Seq(S), s # <<>>
    PROVE  /\ Head(s) \in S
           /\ Tail(s) \in Seq(S)
           /\ Range(s) = {Head(s)} \cup Range(Tail(s))
           /\ IsInjective(s) => IsInjective(Tail(s)) /\ Head(s) \notin Range(Tail(s))
<1>1. /\ Head(s) \in S /\ Head(s) = s[1]
      /\ Tail(s) \in Seq(S)
      /\ Len(s) \in Nat \ {0}
      /\ Len(Tail(s)) = Len(s) - 1
      /\ \A i \in 1..Len(Tail(s)) : Tail(s)[i] = s[i+1]
  BY HeadTailProperties, EmptySeq
<1>2. DOMAIN s = 1..Len(s) /\ DOMAIN Tail(s) = 1..(Len(s)-1)
  BY <1>1, LenProperties
<1> DEFINE t == Tail(s)
           h == Head(s)
<1> HIDE DEF t, h
<1>3. ASSUME NEW x PROVE x \in Range(s) <=> x = h \/ x \in Range(t)
  <2>1. x \in Range(s) <=> \E i \in 1..Len(s) : s[i] = x
    BY RangeOf
  <2>2. x \in Range(t) <=> \E i \in 1..(Len(s)-1) : s[i+1] = x
    BY <1>1, <1>2 DEF t, Range
  <2>3. (\E i \in 1..Len(s) : s[i] = x) <=> s[1] = x \/ \E i \in 1..(Len(s)-1) : s[i+1] = x
    <3>1. ASSUME NEW i \in 1..Len(s), s[i] = x, s[1] # x
          PROVE  \E j \in 1..(Len(s)-1) : s[j+1] = x
      <4>1. i-1 \in 1..(Len(s)-1) /\ (i-1)+1 = i
        BY <1>1, <3>1
      <4> QED BY <3>1, <4>1
    <3>2. ASSUME NEW j \in 1..(Len(s)-1), s[j+1] = x
          PROVE  \E i \in 1..Len(s) : s[i] = x
      <4>1. j+1 \in 1..Len(s)
        BY <1>1
      <4> QED BY <3>2, <4>1
    <3>3. 1 \in 1..Len(s)
      BY <1>1
    <3> QED BY <3>1, <3>2, <3>3
  <2> QED BY <1>1, <2>1, <2>2, <2>3 DEF h
<1>4. ASSUME IsInjective(s) PROVE IsInjective(t) /\ h \notin Range(t)
  BY <1>1, <1>2, <1>4 DEF t, h, IsInjective, Range
<1> QED BY <1>1, <1>3, <1>4 DEF t, h

\* Only the empty sequence has no elements.
LEMMA RangeOfEmpty ==
    ASSUME NEW S, NEW s \in Seq(S)
    PROVE  s = <<>> <=> Range(s) = {}
<1>1. Range(<<>>) = {}
  BY DEF Range
<1>2. ASSUME s # <<>> PROVE Head(s) \in Range(s)
  BY <1>2, RangeOfTail
<1> QED BY <1>1, <1>2

\* Reverse keeps the elements and the absence of duplicates.
LEMMA RangeOfReverse ==
    ASSUME NEW S, NEW s \in Seq(S)
    PROVE  /\ Reverse(s) \in Seq(S)
           /\ Range(Reverse(s)) = Range(s)
           /\ IsInjective(s) => IsInjective(Reverse(s))
           /\ s # <<>> => Reverse(s) # <<>>
<1>1. Len(s) \in Nat /\ DOMAIN s = 1..Len(s) /\ \A i \in 1..Len(s) : s[i] \in S
  BY LenProperties
<1> DEFINE t == Reverse(s)
<1>2. /\ DOMAIN t = 1..Len(s)
      /\ \A i \in 1..Len(s) : t[i] = s[(Len(s) - i) + 1]
      /\ \A i \in 1..Len(s) : (Len(s) - i) + 1 \in 1..Len(s)
  BY <1>1 DEF Reverse
<1>3. t \in Seq(S)
  BY <1>1 DEF Reverse
<1> HIDE DEF t
<1>4. ASSUME NEW x PROVE x \in Range(t) <=> x \in Range(s)
  <2>1. ASSUME NEW i \in 1..Len(s) PROVE s[i] = t[(Len(s) - i) + 1]
    BY <1>1, <1>2
  <2> QED BY <1>1, <1>2, <2>1 DEF Range
<1>5. IsInjective(s) => IsInjective(t)
  BY <1>1, <1>2 DEF IsInjective
<1>6. s # <<>> => t # <<>>
  BY <1>1, <1>2, EmptySeq
<1> QED BY <1>3, <1>4, <1>5, <1>6 DEF t

-----------------------------------------------------------------------------
(* removeConn.  Its loop is a recursive function: it is shown first to     *)
(* have a value, then what that value is.                                  *)

\* f holds the value of the loop's out after each of n iterations.
LoopOf(f, n, list, c) ==
    /\ f = [m \in 0..n |-> f[m]]
    /\ f[0] = <<>>
    /\ \A m \in 1..n : f[m] = IF list[m] = c THEN f[m-1] ELSE Append(f[m-1], list[m])

\* The loop of removeConn can be run for any number of iterations.
LEMMA LoopExists ==
    ASSUME NEW list, NEW c
    PROVE  \A n \in Nat : \E f : LoopOf(f, n, list, c)
<1> DEFINE P == {n \in Nat : \E f : LoopOf(f, n, list, c)}
<1>1. 0 \in P
  <2>1. LoopOf([m \in 0..0 |-> <<>>], 0, list, c)
    BY DEF LoopOf
  <2> QED BY <2>1
<1>2. ASSUME NEW n \in Nat, n \in P PROVE n+1 \in P
  <2>1. PICK f : LoopOf(f, n, list, c)
    BY <1>2
  <2> DEFINE g == [m \in 0..(n+1) |-> IF m = n+1
                      THEN IF list[n+1] = c THEN f[n] ELSE Append(f[n], list[n+1])
                      ELSE f[m]]
  <2>2. LoopOf(g, n+1, list, c)
    <3>1. g = [m \in 0..(n+1) |-> g[m]] /\ g[0] = <<>>
      BY <2>1 DEF LoopOf
    <3>2. ASSUME NEW m \in 1..(n+1)
          PROVE  g[m] = IF list[m] = c THEN g[m-1] ELSE Append(g[m-1], list[m])
      <4>1. m-1 \in 0..n /\ g[m-1] = f[m-1] /\ (m # n+1 => m \in 1..n)
        OBVIOUS
      <4> QED BY <2>1, <4>1 DEF LoopOf
    <3> HIDE DEF g
    <3> QED BY <3>1, <3>2 DEF LoopOf
  <2> HIDE DEF g
  <2> QED BY <2>2
<1> HIDE DEF P
<1>3. Nat \subseteq P
  BY <1>1, <1>2, NatSetInduction
<1> QED BY <1>3 DEF P

\* removeConn returns what its loop has after the last element.
LEMMA RemoveConnLoop ==
    ASSUME NEW S, NEW list \in Seq(S), NEW c
    PROVE  \E f : LoopOf(f, Len(list), list, c) /\ removeConn(list, c) = f[Len(list)]
<1> DEFINE Body(f) == [n \in 0..Len(list) |->
                         IF n = 0 THEN <<>>
                         ELSE IF list[n] = c THEN f[n-1]
                         ELSE Append(f[n-1], list[n])]
           out == CHOOSE f : f = Body(f)
<1>0. Len(list) \in Nat
  BY LenProperties
<1> HIDE DEF out
<1>1. PICK g : LoopOf(g, Len(list), list, c)
  BY <1>0, LoopExists
<1>2. g = Body(g)
  BY <1>0, <1>1 DEF LoopOf
<1>3. out = Body(out)
  <2> HIDE DEF Body
  <2> QED BY <1>2 DEF out
<1>4. removeConn(list, c) = out[Len(list)]
  BY DEF removeConn, out
<1>5. LoopOf(out, Len(list), list, c)
  <2>1. \A n \in 0..Len(list) : out[n] = Body(out)[n]
    BY <1>3
  <2>2. out[0] = <<>>
    BY <1>0, <2>1
  <2>3. \A m \in 1..Len(list) : out[m] = IF list[m] = c THEN out[m-1]
                                          ELSE Append(out[m-1], list[m])
    BY <1>0, <2>1
  <2>4. \E h : out = [m \in 0..Len(list) |-> h[m]]
    <3>1. Body(out) = [m \in 0..Len(list) |-> Body(out)[m]]
      OBVIOUS
    <3> HIDE DEF Body
    <3> QED BY <1>3, <3>1
  <2>5. out = [m \in 0..Len(list) |-> out[m]]
    BY <2>4
  <2> QED BY <2>2, <2>3, <2>5 DEF LoopOf
<1> QED BY <1>4, <1>5

\* removeConn returns the list without c: every other element stays, and no
\* duplicate appears (hub.go, removeConn).
LEMMA RemoveConn ==
    ASSUME NEW S, NEW list \in Seq(S), NEW c
    PROVE  /\ removeConn(list, c) \in Seq(S)
           /\ Range(removeConn(list, c)) = Range(list) \ {c}
           /\ IsInjective(list) => IsInjective(removeConn(list, c))
<1>0. /\ Len(list) \in Nat
      /\ DOMAIN list = 1..Len(list)
      /\ \A i \in 1..Len(list) : list[i] \in S
  BY LenProperties
<1>1. PICK f : LoopOf(f, Len(list), list, c) /\ removeConn(list, c) = f[Len(list)]
  BY RemoveConnLoop
<1> DEFINE Good(n) ==
      /\ f[n] \in Seq(S)
      /\ \A x : x \in Range(f[n]) <=> x # c /\ \E i \in 1..n : list[i] = x
      /\ IsInjective(list) => IsInjective(f[n])
    P == {n \in Nat : n <= Len(list) => Good(n)}
<1>2. 0 \in P
  <2>1. f[0] = <<>>
    BY <1>1 DEF LoopOf
  <2>2. <<>> \in Seq(S) /\ Range(<<>>) = {} /\ IsInjective(<<>>)
    BY DEF Range, IsInjective
  <2>3. Good(0)
    BY <2>1, <2>2
  <2> QED BY <2>3
<1>3. ASSUME NEW n \in Nat, n \in P PROVE n+1 \in P
  <2> SUFFICES ASSUME n+1 <= Len(list) PROVE Good(n+1)
    OBVIOUS
  <2>1. Good(n)
    BY <1>0, <1>3
  <2>2. n+1 \in 1..Len(list) /\ list[n+1] \in S /\ (n+1)-1 = n
    BY <1>0
  <2>3. f[n+1] = IF list[n+1] = c THEN f[n] ELSE Append(f[n], list[n+1])
    <3>1. \A m \in 1..Len(list) :
             f[m] = IF list[m] = c THEN f[m-1] ELSE Append(f[m-1], list[m])
      BY <1>1 DEF LoopOf
    <3>2. f[n+1] = IF list[n+1] = c THEN f[(n+1)-1] ELSE Append(f[(n+1)-1], list[n+1])
      BY <2>2, <3>1
    <3> QED BY <2>2, <3>2
  <2>4. CASE list[n+1] = c
    BY <2>1, <2>2, <2>3, <2>4
  <2>5. CASE list[n+1] # c
    <3> DEFINE s == f[n]
               e == list[n+1]
    <3>1. f[n+1] = Append(s, e) /\ s \in Seq(S) /\ e \in S
      BY <2>1, <2>2, <2>3, <2>5
    <3>2. /\ Append(s, e) \in Seq(S)
          /\ Range(Append(s, e)) = Range(s) \cup {e}
          /\ IsInjective(s) /\ e \notin Range(s) => IsInjective(Append(s, e))
      <4> HIDE DEF s, e
      <4> QED BY <3>1, RangeOfAppend
    <3>3. \A x : x \in Range(f[n+1]) <=> x # c /\ \E i \in 1..(n+1) : list[i] = x
      <4>1. \A x : (\E i \in 1..(n+1) : list[i] = x)
                     <=> (\E i \in 1..n : list[i] = x) \/ x = e
        OBVIOUS
      <4> QED BY <2>1, <2>5, <3>1, <3>2, <4>1
    <3>4. ASSUME IsInjective(list) PROVE IsInjective(f[n+1])
      <4>1. e \notin Range(s)
        <5> SUFFICES ASSUME NEW i \in 1..n, list[i] = e PROVE FALSE
          BY <2>1
        <5>1. i \in DOMAIN list /\ n+1 \in DOMAIN list
          BY <1>0, <2>2
        <5> QED BY <3>4, <5>1 DEF IsInjective
      <4>2. IsInjective(s)
        BY <2>1, <3>4
      <4> QED BY <3>1, <3>2, <4>1, <4>2
    <3> QED BY <3>1, <3>2, <3>3, <3>4
  <2> QED BY <2>4, <2>5
<1>4. Nat \subseteq P
  <2> HIDE DEF P
  <2> QED BY <1>2, <1>3, NatSetInduction
<1>5. Good(Len(list))
  <2> HIDE DEF Good
  <2> QED BY <1>0, <1>4
<1>6. \A x : x \in Range(list) <=> \E i \in 1..Len(list) : list[i] = x
  BY RangeOf
<1> QED BY <1>1, <1>5, <1>6

-----------------------------------------------------------------------------
(* Type correctness.  withdraw looks the account of its request up again,  *)
(* so the types are not inductive by themselves: a call that has begun has *)
(* an account.                                                             *)

\* A connection that has not enrolled has proved nothing, and a call has an
\* account exactly when it has begun.
Fresh ==
    /\ \A c \in Conn : conn[c] = "new" => accounts[c] = <<>>
    /\ \A k \in Call : pc[k] = "idle" <=> acct[k] = None

Typed == TypeOK /\ Fresh

\* A write to a connection keeps the types of wire and wfail.
LEMMA WriteJSONType ==
    ASSUME TypeOK, NEW c \in Conn, NEW f \in Frame, NEW ok \in BOOLEAN,
           WriteJSON(c, f, ok)
    PROVE  wire' \in [Conn -> Seq(Frame)] /\ wfail' \in [Conn -> BOOLEAN]
<1>1. CASE ok
  <2>1. wire[c] \in Seq(Frame)
    BY DEF TypeOK
  <2>2. Append(wire[c], f) \in Seq(Frame)
    BY <2>1, AppendProperties
  <2> QED BY <1>1, <2>2 DEF TypeOK, WriteJSON
<1>2. CASE ~ok
  BY <1>2 DEF TypeOK, WriteJSON
<1> QED BY <1>1, <1>2

\* Requests and queries are calls, and None is not.
LEMMA CallIds == Req \subseteq Call /\ Qry \subseteq Call /\ None \notin Call
BY HubAssumption DEF Call

\* What the relay writes are frames.
LEMMA FramesAreFrames ==
    /\ WelcomeFrame \in Frame
    /\ \A r \in Req : RequestFrame(r) \in Frame /\ WithdrawFrame(r) \in Frame
    /\ \A q \in Qry : QueryFrame(q) \in Frame
BY DEF Frame, WelcomeFrame, RequestFrame, WithdrawFrame, QueryFrame

\* The snapshot of an account's devices is a list of connections.
LEMMA DevicesType ==
    ASSUME TypeOK, NEW a \in Account
    PROVE  devicesForAccount(a) \in Seq(Conn)
BY RangeOfReverse DEF TypeOK, devicesForAccount

\* The type invariant holds initially.
LEMMA InitTyped == Init => Typed
BY HubAssumption DEF Init, Typed, Fresh, TypeOK, ConnStates, CallStates

\* Every step of the hub keeps the type invariant.
LEMMA NextTyped == Typed /\ [Next]_vars => Typed'
<1> SUFFICES ASSUME TypeOK, Fresh, [Next]_vars PROVE TypeOK' /\ Fresh'
  BY DEF Typed
<1>0. Req \subseteq Call /\ Qry \subseteq Call /\ None \notin Call /\ None \notin Account
  BY HubAssumption DEF Call
<1> USE <1>0 DEF ConnStates, CallStates, connVars, callVars
<1>1. ASSUME NEW c \in Conn, NEW list \in ProvenLists, Enroll(c, list) PROVE TypeOK' /\ Fresh'
  BY <1>1, HubAssumption DEF Enroll, TypeOK, Fresh
<1>2. ASSUME NEW c \in Conn, EnrollFails(c) PROVE TypeOK' /\ Fresh'
  BY <1>2 DEF EnrollFails, TypeOK, Fresh
<1>3. ASSUME NEW c \in Conn, Bind(c) PROVE TypeOK' /\ Fresh'
  <2>1. ASSUME NEW a \in Account
        PROVE  Append(removeConn(bindings[a], c), c) \in Seq(Conn)
    BY RemoveConn, RangeOfAppend DEF TypeOK
  <2> QED BY <1>3, <2>1 DEF Bind, TypeOK, Fresh
<1>4. ASSUME NEW c \in Conn, Welcome(c) PROVE TypeOK' /\ Fresh'
  <2>1. wire' \in [Conn -> Seq(Frame)] /\ wfail' \in [Conn -> BOOLEAN]
    BY <1>4, WriteJSONType, FramesAreFrames DEF Welcome
  <2> QED BY <1>4, <2>1 DEF Welcome, TypeOK, Fresh
<1>5. ASSUME NEW c \in Conn, PingFails(c) PROVE TypeOK' /\ Fresh'
  BY <1>5 DEF PingFails, TypeOK, Fresh
<1>6. ASSUME NEW c \in Conn, NEW k \in Call, ReadAnswer(c, k) PROVE TypeOK' /\ Fresh'
  BY <1>6 DEF ReadAnswer, TypeOK, Fresh, Call
<1>7. ASSUME NEW c \in Conn, Deliver(c) PROVE TypeOK' /\ Fresh'
  BY <1>7 DEF Deliver, TypeOK, Fresh
<1>8. ASSUME NEW c \in Conn, Leave(c) PROVE TypeOK' /\ Fresh'
  BY <1>8 DEF Leave, TypeOK, Fresh
<1>9. ASSUME NEW c \in Conn, Unbind(c) PROVE TypeOK' /\ Fresh'
  <2>1. ASSUME NEW a \in Account PROVE removeConn(bindings[a], c) \in Seq(Conn)
    BY RemoveConn DEF TypeOK
  <2> QED BY <1>9, <2>1 DEF Unbind, TypeOK, Fresh
<1>10. ASSUME NEW c \in Conn, CloseConn(c) PROVE TypeOK' /\ Fresh'
  BY <1>10 DEF CloseConn, TypeOK, Fresh
<1>11. ASSUME NEW c \in Conn, AgentGone(c) PROVE TypeOK' /\ Fresh'
  BY <1>11 DEF AgentGone, TypeOK, Fresh
<1>12. ASSUME NEW k \in Call, NEW a \in Account, Snapshot(k, a) PROVE TypeOK' /\ Fresh'
  <2>1. devicesForAccount(a) \in Seq(Conn)
    BY DevicesType
  <2>2. pc[k] = "idle" /\ acct' = [acct EXCEPT ![k] = a]
    BY <1>12 DEF Snapshot
  <2>3. UNCHANGED <<connVars, wfail, wire, chan, pending, queryPending, reached, answer>>
    BY <1>12 DEF Snapshot
  <2>4. CASE /\ pc' = [pc EXCEPT ![k] = "done"]
             /\ outcome' = [outcome EXCEPT ![k] = "offline"]
             /\ todo' = todo
    BY <2>2, <2>3, <2>4 DEF TypeOK, Fresh
  <2>5. CASE /\ pc' = [pc EXCEPT ![k] = "snapped"]
             /\ todo' = [todo EXCEPT ![k] = devicesForAccount(a)]
             /\ outcome' = outcome
    BY <2>1, <2>2, <2>3, <2>5 DEF TypeOK, Fresh
  <2> QED BY <1>12, <2>4, <2>5 DEF Snapshot
<1>13. ASSUME NEW k \in Call, TakeAnswer(k) PROVE TypeOK' /\ Fresh'
  <2>1. PICK c \in Conn : chan[k] = <<c>>
    BY <1>13 DEF TakeAnswer, TypeOK, Fresh
  <2>2. Head(chan[k]) = c /\ Tail(chan[k]) = <<>>
    BY <2>1
  <2> QED BY <1>13, <2>2 DEF TakeAnswer, TypeOK, Fresh
<1>14. ASSUME NEW k \in Call, ContextDone(k) PROVE TypeOK' /\ Fresh'
  BY <1>14 DEF ContextDone, TypeOK, Fresh
<1>15. ASSUME NEW r \in Req, RegisterRequest(r) PROVE TypeOK' /\ Fresh'
  BY <1>15 DEF RegisterRequest, TypeOK, Fresh
<1>16. ASSUME NEW r \in Req, WriteRequest(r) PROVE TypeOK' /\ Fresh'
  <2>1. Head(todo[r]) \in Conn /\ Tail(todo[r]) \in Seq(Conn)
    BY <1>16, HeadTailProperties DEF WriteRequest, TypeOK, Fresh
  <2>2. wire' \in [Conn -> Seq(Frame)] /\ wfail' \in [Conn -> BOOLEAN]
    BY <1>16, <2>1, WriteJSONType, FramesAreFrames DEF WriteRequest
  <2> QED BY <1>16, <2>1, <2>2 DEF WriteRequest, TypeOK, Fresh
<1>17. ASSUME NEW r \in Req, EndFanout(r) PROVE TypeOK' /\ Fresh'
  <2>1. /\ pc[r] = "sending" /\ r \in Call
        /\ \E p \in {"cleanup", "waiting"} : pc' = [pc EXCEPT ![r] = p]
        /\ outcome' \in {outcome, [outcome EXCEPT ![r] = "offline"]}
    BY <1>17, CallIds DEF EndFanout
  <2>2. UNCHANGED <<connVars, wfail, wire, chan, pending, queryPending, acct, todo,
                    reached, answer>>
    BY <1>17 DEF EndFanout
  <2>3. /\ pc' \in [Call -> CallStates]
        /\ \A k \in Call : pc'[k] = "idle" <=> pc[k] = "idle"
    BY <2>1 DEF TypeOK, CallStates
  <2>4. outcome' \in [Call -> {"none", "offline", "timeout", "answered"}]
    BY <2>1 DEF TypeOK
  <2>5. TypeOK'
    BY <2>2, <2>3, <2>4 DEF TypeOK, connVars
  <2>6. Fresh'
    BY <2>2, <2>3 DEF Fresh, connVars
  <2> QED BY <2>5, <2>6
<1>18. ASSUME NEW r \in Req, DeleteRequest(r) PROVE TypeOK' /\ Fresh'
  BY <1>18 DEF DeleteRequest, TypeOK, Fresh
<1>19. ASSUME NEW r \in Req, WithdrawSnapshot(r) PROVE TypeOK' /\ Fresh'
  <2>1. acct[r] \in Account
    BY <1>19 DEF WithdrawSnapshot, TypeOK, Fresh
  <2>2. devicesForAccount(acct[r]) \in Seq(Conn)
    BY <2>1, DevicesType
  <2> QED BY <1>19, <2>2 DEF WithdrawSnapshot, TypeOK, Fresh
<1>20. ASSUME NEW r \in Req, WriteWithdraw(r) PROVE TypeOK' /\ Fresh'
  <2>1. Head(todo[r]) \in Conn /\ Tail(todo[r]) \in Seq(Conn)
    BY <1>20, HeadTailProperties DEF WriteWithdraw, TypeOK, Fresh
  <2>2. wire' \in [Conn -> Seq(Frame)] /\ wfail' \in [Conn -> BOOLEAN]
    BY <1>20, <2>1, WriteJSONType, FramesAreFrames DEF WriteWithdraw
  <2> QED BY <1>20, <2>1, <2>2 DEF WriteWithdraw, TypeOK, Fresh
<1>21. ASSUME NEW r \in Req, EndWithdraw(r) PROVE TypeOK' /\ Fresh'
  BY <1>21 DEF EndWithdraw, TypeOK, Fresh
<1>22. ASSUME NEW q \in Qry, RegisterQuery(q) PROVE TypeOK' /\ Fresh'
  BY <1>22 DEF RegisterQuery, TypeOK, Fresh
<1>23. ASSUME NEW q \in Qry, WriteQuery(q) PROVE TypeOK' /\ Fresh'
  <2>1. Head(todo[q]) \in Conn /\ Tail(todo[q]) \in Seq(Conn)
    BY <1>23, HeadTailProperties DEF WriteQuery, TypeOK, Fresh
  <2>2. wire' \in [Conn -> Seq(Frame)] /\ wfail' \in [Conn -> BOOLEAN]
    BY <1>23, <2>1, WriteJSONType, FramesAreFrames DEF WriteQuery
  <2>3. pc[q] = "sending"
    BY <1>23 DEF WriteQuery
  <2>4. UNCHANGED <<connVars, chan, pending, queryPending, acct, outcome, answer>>
    BY <1>23 DEF WriteQuery
  <2>5. CASE /\ reached' = [reached EXCEPT ![q] = @ \cup {Head(todo[q])}]
             /\ pc' = [pc EXCEPT ![q] = "waiting"]
             /\ todo' = todo
    BY <2>1, <2>2, <2>3, <2>4, <2>5 DEF TypeOK, Fresh
  <2>6. CASE /\ todo' = [todo EXCEPT ![q] = Tail(@)]
             /\ pc' = pc /\ reached' = reached
    BY <2>1, <2>2, <2>3, <2>4, <2>6 DEF TypeOK, Fresh
  <2> QED BY <1>23, <2>5, <2>6 DEF WriteQuery
<1>24. ASSUME NEW q \in Qry, QueryUnsent(q) PROVE TypeOK' /\ Fresh'
  BY <1>24 DEF QueryUnsent, TypeOK, Fresh
<1>25. ASSUME NEW q \in Qry, DeleteQuery(q) PROVE TypeOK' /\ Fresh'
  BY <1>25 DEF DeleteQuery, TypeOK, Fresh
<1>26. CASE UNCHANGED vars
  BY <1>26 DEF vars, TypeOK, Fresh
<1> QED
  BY <1>1, <1>2, <1>3, <1>4, <1>5, <1>6, <1>7, <1>8, <1>9, <1>10, <1>11, <1>12,
     <1>13, <1>14, <1>15, <1>16, <1>17, <1>18, <1>19, <1>20, <1>21, <1>22, <1>23,
     <1>24, <1>25, <1>26
  DEF Next, ConnStep, RequestStep, QueryStep, Terminated

\* Every reachable state has the types of the Go values it stands for.
THEOREM TypeCorrect == Spec => []TypeOK
<1>1. Typed => TypeOK
  BY DEF Typed
<1> QED BY <1>1, InitTyped, NextTyped, PTL DEF Spec

-----------------------------------------------------------------------------
(* The waiter maps.                                                        *)

\* Each step keeps the waiter maps exact: a call enters its map in the step
\* that makes it send and leaves it in the step that follows its outcome.
LEMMA NextWaiters == Typed /\ WaitersExact /\ [Next]_vars => WaitersExact'
<1> SUFFICES ASSUME TypeOK, WaitersExact, [Next]_vars PROVE WaitersExact'
  BY DEF Typed
<1>0. Req \subseteq Call /\ Qry \subseteq Call /\ Req \cap Qry = {}
  BY HubAssumption DEF Call
<1> USE <1>0 DEF callVars, TypeOK, WaitersExact
<1>1. CASE UNCHANGED <<pc, pending, queryPending>>
  BY <1>1
<1>2. ASSUME NEW k \in Call, NEW a \in Account, Snapshot(k, a) PROVE WaitersExact'
  <2>1. CASE pc' = [pc EXCEPT ![k] = "done"]
    BY <1>2, <2>1 DEF Snapshot
  <2>2. CASE pc' = [pc EXCEPT ![k] = "snapped"]
    BY <1>2, <2>2 DEF Snapshot
  <2> QED BY <1>2, <2>1, <2>2 DEF Snapshot
<1>3. ASSUME NEW k \in Call, TakeAnswer(k) \/ ContextDone(k) PROVE WaitersExact'
  <2>1. pc[k] = "waiting" /\ pc' = [pc EXCEPT ![k] = "cleanup"]
    BY <1>3 DEF TakeAnswer, ContextDone
  <2>2. UNCHANGED <<pending, queryPending>>
    BY <1>3 DEF TakeAnswer, ContextDone
  <2> QED BY <2>1, <2>2
<1>4. ASSUME NEW r \in Req, RegisterRequest(r) PROVE WaitersExact'
  BY <1>4 DEF RegisterRequest
<1>5. ASSUME NEW r \in Req, EndFanout(r) PROVE WaitersExact'
  <2>1. CASE pc' = [pc EXCEPT ![r] = "cleanup"]
    BY <1>5, <2>1 DEF EndFanout
  <2>2. CASE pc' = [pc EXCEPT ![r] = "waiting"]
    BY <1>5, <2>2 DEF EndFanout
  <2> QED BY <1>5, <2>1, <2>2 DEF EndFanout
<1>6. ASSUME NEW r \in Req, DeleteRequest(r) PROVE WaitersExact'
  BY <1>6 DEF DeleteRequest
<1>7. ASSUME NEW r \in Req, WithdrawSnapshot(r) \/ EndWithdraw(r) PROVE WaitersExact'
  <2>1. CASE WithdrawSnapshot(r)
    BY <2>1 DEF WithdrawSnapshot
  <2>2. CASE EndWithdraw(r)
    BY <2>2 DEF EndWithdraw
  <2> QED BY <1>7, <2>1, <2>2
<1>8. ASSUME NEW q \in Qry, RegisterQuery(q) PROVE WaitersExact'
  BY <1>8 DEF RegisterQuery
<1>9. ASSUME NEW q \in Qry, WriteQuery(q) PROVE WaitersExact'
  <2>1. CASE pc' = [pc EXCEPT ![q] = "waiting"]
    BY <1>9, <2>1 DEF WriteQuery
  <2>2. CASE pc' = pc
    BY <1>9, <2>2 DEF WriteQuery
  <2> QED BY <1>9, <2>1, <2>2 DEF WriteQuery
<1>10. ASSUME NEW q \in Qry, QueryUnsent(q) PROVE WaitersExact'
  BY <1>10 DEF QueryUnsent
<1>11. ASSUME NEW q \in Qry, DeleteQuery(q) PROVE WaitersExact'
  BY <1>11 DEF DeleteQuery
<1> QED
  <2> USE DEF Enroll, EnrollFails, Bind, Welcome, PingFails, ReadAnswer, Deliver,
              Leave, Unbind, CloseConn, AgentGone, WriteRequest, WriteWithdraw
  <2> HIDE DEF WaitersExact, TypeOK
  <2> QED
    BY <1>1, <1>2, <1>3, <1>4, <1>5, <1>6, <1>7, <1>8, <1>9, <1>10, <1>11
    DEF Next, ConnStep, RequestStep, QueryStep, Terminated, vars

\* No waiter outlives its call and none disappears under it.
THEOREM WaitersCorrect == Spec => []WaitersExact
<1>1. Init => WaitersExact
  BY DEF Init, WaitersExact, Call
<1> QED BY <1>1, InitTyped, NextTyped, NextWaiters, PTL DEF Spec

-----------------------------------------------------------------------------
(* The bindings.                                                           *)

\* Each step keeps the bindings exact; only bind and unbind change them.
LEMMA NextBindings == Typed /\ BindingsExact /\ [Next]_vars => BindingsExact'
<1> SUFFICES ASSUME TypeOK, Fresh, BindingsExact, [Next]_vars PROVE BindingsExact'
  BY DEF Typed
<1> USE DEF callVars, connVars
<1>1. CASE UNCHANGED <<conn, accounts, bindings>>
  BY <1>1 DEF BindingsExact, IsBound
<1>2. ASSUME NEW c \in Conn, NEW list \in ProvenLists, Enroll(c, list) PROVE BindingsExact'
  BY <1>2 DEF Enroll, BindingsExact, IsBound, TypeOK
<1>3. ASSUME NEW c \in Conn,
             EnrollFails(c) \/ Welcome(c) \/ Leave(c) \/ CloseConn(c)
      PROVE  BindingsExact'
  <2>1. UNCHANGED <<accounts, bindings>>
    BY <1>3 DEF EnrollFails, Welcome, Leave, CloseConn
  <2>2. \A d \in Conn : IsBound(d)' <=> IsBound(d)
    BY <1>3 DEF EnrollFails, Welcome, Leave, CloseConn, IsBound, TypeOK
  <2> QED BY <2>1, <2>2 DEF BindingsExact
<1>4. ASSUME NEW c \in Conn, Bind(c) PROVE BindingsExact'
  <2>1. \A d \in Conn : IsBound(d)' <=> IsBound(d) \/ d = c
    BY <1>4 DEF Bind, IsBound, TypeOK
  <2>2. ~IsBound(c) /\ accounts' = accounts
    BY <1>4 DEF Bind, IsBound
  <2>3. ASSUME NEW a \in Account
        PROVE  /\ IsInjective(bindings'[a])
               /\ Range(bindings'[a]) = IF a \in Range(accounts[c])
                                          THEN Range(bindings[a]) \cup {c}
                                          ELSE Range(bindings[a])
    <3> DEFINE rest == removeConn(bindings[a], c)
    <3>1. bindings[a] \in Seq(Conn) /\ IsInjective(bindings[a])
      BY DEF TypeOK, BindingsExact
    <3>2. rest \in Seq(Conn) /\ Range(rest) = Range(bindings[a]) \ {c} /\ IsInjective(rest)
      BY <3>1, RemoveConn
    <3>3. IsInjective(Append(rest, c)) /\ Range(Append(rest, c)) = Range(rest) \cup {c}
      <4> HIDE DEF rest
      <4> QED BY <3>2, RangeOfAppend
    <3>4. bindings'[a] = IF a \in Range(accounts[c]) THEN Append(rest, c) ELSE bindings[a]
      BY <1>4 DEF Bind
    <3> HIDE DEF rest
    <3> QED BY <3>1, <3>2, <3>3, <3>4
  <2> QED BY <2>1, <2>2, <2>3 DEF BindingsExact
<1>5. ASSUME NEW c \in Conn, Unbind(c) PROVE BindingsExact'
  <2>1. \A d \in Conn : IsBound(d)' <=> IsBound(d) /\ d # c
    BY <1>5 DEF Unbind, IsBound, TypeOK
  <2>2. accounts' = accounts
    BY <1>5 DEF Unbind
  <2>3. ASSUME NEW a \in Account
        PROVE  /\ IsInjective(bindings'[a])
               /\ Range(bindings'[a]) = IF a \in Range(accounts[c])
                                          THEN Range(bindings[a]) \ {c}
                                          ELSE Range(bindings[a])
    <3>1. bindings[a] \in Seq(Conn) /\ IsInjective(bindings[a])
      BY DEF TypeOK, BindingsExact
    <3>2. bindings'[a] = IF a \in Range(accounts[c])
                           THEN removeConn(bindings[a], c) ELSE bindings[a]
      BY <1>5 DEF Unbind
    <3> QED BY <3>1, <3>2, RemoveConn
  <2> QED BY <2>1, <2>2, <2>3 DEF BindingsExact
<1> QED
  <2> USE DEF PingFails, ReadAnswer, Deliver, AgentGone, Snapshot, TakeAnswer,
              ContextDone, RegisterRequest, WriteRequest, EndFanout, DeleteRequest,
              WithdrawSnapshot, WriteWithdraw, EndWithdraw, RegisterQuery, WriteQuery,
              QueryUnsent, DeleteQuery
  <2> QED
    BY <1>1, <1>2, <1>3, <1>4, <1>5
    DEF Next, ConnStep, RequestStep, QueryStep, Terminated, vars

\* Every account lists exactly its bound connections, each once.
THEOREM BindingsCorrect == Spec => []BindingsExact
<1>1. Init => BindingsExact
  BY DEF Init, BindingsExact, IsBound, IsInjective, Range
<1> QED BY <1>1, InitTyped, NextTyped, NextBindings, PTL DEF Spec

\* The snapshot of an account's devices: the bound connections that proved it,
\* each once.
LEMMA SnapshotOf ==
    ASSUME TypeOK, BindingsExact, NEW a \in Account
    PROVE  /\ IsInjective(devicesForAccount(a))
           /\ \A c \in Conn : c \in Range(devicesForAccount(a))
                                <=> IsBound(c) /\ a \in Range(accounts[c])
<1>1. bindings[a] \in Seq(Conn) /\ IsInjective(bindings[a])
  BY DEF TypeOK, BindingsExact
<1>2. /\ Range(devicesForAccount(a)) = Range(bindings[a])
      /\ IsInjective(devicesForAccount(a))
  BY <1>1, RangeOfReverse DEF devicesForAccount
<1> QED BY <1>2 DEF BindingsExact

-----------------------------------------------------------------------------
(* What is written where.                                                  *)

\* A frame is on the wire of a connection at most once.
Once(f, c) ==
    \A i, j \in DOMAIN wire[c] : wire[c][i] = f /\ wire[c][j] = f => i = j

\* The withdraw of a request has been written after the request.
Withdrawn(r, c) ==
    \E i, j \in DOMAIN wire[c] :
        /\ i < j
        /\ wire[c][i] = RequestFrame(r)
        /\ wire[c][j] = WithdrawFrame(r)

\* What a write does: a successful one appends its frame, a failed one leaves
\* the wire alone and the writer broken.
LEMMA WriteJSONEffect ==
    ASSUME TypeOK, NEW c \in Conn, NEW f \in Frame, NEW ok \in BOOLEAN,
           WriteJSON(c, f, ok), NEW d \in Conn
    PROVE  /\ \A g : OnWire(g, d)' <=> OnWire(g, d) \/ (ok /\ d = c /\ g = f)
           /\ \A g : Once(g, d) /\ ~(ok /\ d = c /\ g = f /\ OnWire(f, c)) => Once(g, d)'
           /\ \A r \in Req : Withdrawn(r, d) => Withdrawn(r, d)'
           /\ \A r \in Req : ok /\ d = c /\ f = WithdrawFrame(r) /\ OnWire(RequestFrame(r), c)
                               => Withdrawn(r, d)'
           /\ ~wfail'[d] => ~wfail[d] /\ (d = c => ok)
<1>0. wire[d] \in Seq(Frame) /\ wfail[d] \in BOOLEAN
  BY DEF TypeOK
<1>1. CASE ok /\ d = c
  <2> DEFINE s == wire[d]
             t == Append(s, f)
             n == Len(s)
  <2>1. wire'[d] = t /\ wfail' = wfail
    BY <1>1 DEF WriteJSON, TypeOK
  <2>2. Range(t) = Range(s) \cup {f}
    BY <1>0, RangeOfAppend
  <2>3. /\ n \in Nat /\ DOMAIN s = 1..n /\ DOMAIN t = 1..(n+1)
        /\ \A i \in 1..n : t[i] = s[i]
        /\ t[n+1] = f
    BY <1>0, AppendProperties, LenProperties
  <2>4. \A g : OnWire(g, d)' <=> g \in Range(t)
    BY <2>1 DEF OnWire
  <2>5. \A g : OnWire(g, d) <=> g \in Range(s)
    BY DEF OnWire
  <2>6. \A g : g \in Range(s) <=> \E i \in 1..n : s[i] = g
    BY <1>0, RangeOf
  <2>7. ASSUME NEW g, Once(g, d), ~(g = f /\ OnWire(f, c)) PROVE Once(g, d)'
    <3>1. \A i, j \in 1..n : s[i] = g /\ s[j] = g => i = j
      BY <2>3, <2>7 DEF Once
    <3>2. g = f => \A i \in 1..n : s[i] # g
      BY <1>1, <2>5, <2>6, <2>7
    <3>3. \A i, j \in 1..(n+1) : t[i] = g /\ t[j] = g => i = j
      <4> HIDE DEF t, s, n
      <4> QED BY <2>3, <3>1, <3>2
    <3> QED BY <2>1, <2>3, <3>3 DEF Once
  <2>8. ASSUME NEW r \in Req, Withdrawn(r, d) PROVE Withdrawn(r, d)'
    <3>1. PICK i, j \in 1..n : i < j /\ s[i] = RequestFrame(r) /\ s[j] = WithdrawFrame(r)
      BY <2>3, <2>8 DEF Withdrawn
    <3>2. /\ i \in 1..(n+1) /\ j \in 1..(n+1) /\ i < j
          /\ t[i] = RequestFrame(r) /\ t[j] = WithdrawFrame(r)
      <4> HIDE DEF t, s, n
      <4> QED BY <2>3, <3>1
    <3> HIDE DEF t, s, n
    <3> QED BY <2>1, <2>3, <3>2 DEF Withdrawn
  <2>9. ASSUME NEW r \in Req, f = WithdrawFrame(r), OnWire(RequestFrame(r), c)
        PROVE  Withdrawn(r, d)'
    <3>1. PICK i \in 1..n : s[i] = RequestFrame(r)
      BY <1>1, <2>5, <2>6, <2>9
    <3>2. /\ i \in 1..(n+1) /\ n+1 \in 1..(n+1) /\ i < n+1
          /\ t[i] = RequestFrame(r) /\ t[n+1] = WithdrawFrame(r)
      <4> HIDE DEF t, s, n
      <4> QED BY <2>3, <2>9, <3>1
    <3> HIDE DEF t, s, n
    <3> QED BY <2>1, <2>3, <3>2 DEF Withdrawn
  <2> HIDE DEF t, s, n
  <2> QED BY <1>0, <1>1, <2>1, <2>2, <2>4, <2>5, <2>7, <2>8, <2>9
<1>2. CASE ~(ok /\ d = c)
  <2>1. wire'[d] = wire[d]
    BY <1>2 DEF WriteJSON, TypeOK
  <2>2. ~wfail'[d] => ~wfail[d] /\ (d = c => ok)
    BY <1>2 DEF WriteJSON, TypeOK
  <2> QED BY <1>2, <2>1, <2>2 DEF OnWire, Once, Withdrawn
<1> QED BY <1>1, <1>2

-----------------------------------------------------------------------------
(* Who answers a caller.  An answer is returned from a waiter's slot, the  *)
(* slot is filled by a read loop that holds the waiter, the read loop got  *)
(* it from an agent that was sent the call, and a call is sent to the      *)
(* devices of a snapshot: the invariant says at each of these places that  *)
(* the account of the call was proved.                                     *)

\* Connection c proved the account of call k.
Proved(k, c) == acct[k] \in Range(accounts[c])

\* Some connection of install d proved the account of call k.
Controls(d, k) == \E c \in Conn : DeviceOf[c] = d /\ Proved(k, c)

Routed ==
    /\ \A k \in Call, c \in Conn : c \in Range(todo[k]) => Proved(k, c)
    /\ \A k \in Call, c \in Conn : OnWire(CallFrame(k), c) => Proved(k, c)
    /\ \A k \in Call, c \in Conn : holding[c] = k => Controls(DeviceOf[c], k)
    /\ \A k \in Call, c \in Conn : chan[k] = <<c>> => Controls(DeviceOf[c], k)
    /\ \A k \in Call : outcome[k] = "answered" => answer[k] \in Conn
    /\ \A k \in Call, c \in Conn :
         outcome[k] = "answered" /\ answer[k] = c => Controls(DeviceOf[c], k)

\* The accounts of a connection and the account of a call are set once.
LEMMA ProvedIsStable ==
    ASSUME Typed, [Next]_vars, NEW k \in Call, NEW c \in Conn, Proved(k, c)
    PROVE  Proved(k, c)'
<1>1. accounts[c] \in Seq(Account) /\ acct[k] \in Account
  <2>1. accounts[c] \in Seq(Account)
    BY DEF Typed, TypeOK
  <2> QED BY <2>1, RangeOf DEF Proved
<1>2. accounts[c] # <<>>
  BY DEF Proved, Range
<1>3. conn[c] # "new" /\ pc[k] # "idle"
  BY <1>1, <1>2, HubAssumption DEF Typed, Fresh
<1>4. accounts'[c] = accounts[c] /\ acct'[k] = acct[k]
  <2> USE <1>3 DEF Typed, TypeOK, connVars, callVars
  <2>1. CASE UNCHANGED <<accounts, acct>>
    BY <2>1
  <2>2. ASSUME NEW d \in Conn, NEW list \in ProvenLists, Enroll(d, list)
        PROVE  accounts'[c] = accounts[c] /\ acct'[k] = acct[k]
    BY <2>2 DEF Enroll
  <2>3. ASSUME NEW m \in Call, NEW a \in Account, Snapshot(m, a)
        PROVE  accounts'[c] = accounts[c] /\ acct'[k] = acct[k]
    BY <2>3 DEF Snapshot
  <2> USE DEF EnrollFails, Bind, Welcome, PingFails, ReadAnswer, Deliver, Leave,
              Unbind, CloseConn, AgentGone, TakeAnswer, ContextDone, RegisterRequest,
              WriteRequest, EndFanout, DeleteRequest, WithdrawSnapshot, WriteWithdraw,
              EndWithdraw, RegisterQuery, WriteQuery, QueryUnsent, DeleteQuery
  <2> HIDE DEF Typed, TypeOK
  <2> QED
    BY <2>1, <2>2, <2>3
    DEF Next, ConnStep, RequestStep, QueryStep, Terminated, vars
<1> QED BY <1>4 DEF Proved

\* So the installs that control the account of a call go on controlling it.
LEMMA ControlsIsStable ==
    ASSUME Typed, [Next]_vars, NEW k \in Call, NEW d, Controls(d, k)
    PROVE  Controls(d, k)'
<1>1. PICK c \in Conn : DeviceOf[c] = d /\ Proved(k, c)
  BY DEF Controls
<1>2. Proved(k, c)'
  BY <1>1, ProvedIsStable
<1> QED BY <1>1, <1>2 DEF Controls

\* Frames of different calls, and of different kinds, are different.
LEMMA FramesDiffer ==
    ASSUME NEW k \in Call
    PROVE  /\ CallFrame(k) # WelcomeFrame
           /\ \A r \in Req : CallFrame(k) # WithdrawFrame(r)
           /\ \A r \in Req : CallFrame(k) = RequestFrame(r) => k = r
           /\ \A q \in Qry : CallFrame(k) = QueryFrame(q) => k = q
           /\ k \in Req => CallFrame(k) = RequestFrame(k)
           /\ k \in Qry => CallFrame(k) = QueryFrame(k)
BY HubAssumption
DEF CallFrame, RequestFrame, QueryFrame, WithdrawFrame, WelcomeFrame, Call

\* Every step keeps the invariant: one step per conjunct, and under it one
\* per action that can disturb it.
LEMMA NextRouted == Typed /\ BindingsExact /\ Routed /\ [Next]_vars => Routed'
<1> SUFFICES ASSUME Typed, BindingsExact, Routed, [Next]_vars PROVE Routed'
  OBVIOUS
<1>0. TypeOK /\ Fresh
  BY DEF Typed
<1>P. \A k \in Call, c \in Conn : Proved(k, c) => Proved(k, c)'
  BY ProvedIsStable
<1>C. \A k \in Call, d \in Device : Controls(d, k) => Controls(d, k)'
  BY ControlsIsStable
<1>D. \A c \in Conn : DeviceOf[c] \in Device
  BY HubAssumption
<1> USE <1>0, CallIds DEF callVars, connVars
<1>1. ASSUME NEW k \in Call, NEW c \in Conn, c \in Range(todo'[k]) PROVE Proved(k, c)'
  <2>0. c \in Range(todo[k]) => Proved(k, c)
    BY DEF Routed
  <2>1. CASE todo'[k] = todo[k]
    BY <1>1, <1>P, <2>0, <2>1
  <2>2. ASSUME NEW m \in Call, NEW a \in Account, Snapshot(m, a) PROVE Proved(k, c)'
    <3>1. CASE m = k /\ todo' = [todo EXCEPT ![m] = devicesForAccount(a)]
      <4>1. todo'[k] = devicesForAccount(a) /\ acct'[k] = a /\ accounts' = accounts
        BY <2>2, <3>1 DEF Snapshot, TypeOK
      <4> QED BY <1>1, <4>1, SnapshotOf DEF Proved
    <3>2. CASE ~(m = k /\ todo' = [todo EXCEPT ![m] = devicesForAccount(a)])
      BY <2>1, <2>2, <3>2 DEF Snapshot, TypeOK
    <3> QED BY <3>1, <3>2
  <2>3. ASSUME NEW r \in Req, WithdrawSnapshot(r) PROVE Proved(k, c)'
    <3>1. CASE r = k
      <4>1. acct[k] \in Account
        BY <2>3, <3>1 DEF WithdrawSnapshot, TypeOK, Fresh
      <4>2. todo'[k] = devicesForAccount(acct[k])
        BY <2>3, <3>1 DEF WithdrawSnapshot, TypeOK
      <4> QED BY <1>1, <1>P, <4>1, <4>2, SnapshotOf DEF Proved
    <3>2. CASE r # k
      BY <2>1, <2>3, <3>2 DEF WithdrawSnapshot, TypeOK
    <3> QED BY <3>1, <3>2
  <2>4. ASSUME NEW m \in Call, todo[m] # <<>>, todo' = [todo EXCEPT ![m] = Tail(@)]
        PROVE  Proved(k, c)'
    <3>1. CASE m = k
      <4>1. todo'[k] = Tail(todo[k]) /\ todo[k] \in Seq(Conn) /\ todo[k] # <<>>
        BY <2>4, <3>1 DEF TypeOK
      <4>2. c \in Range(todo[k])
        BY <1>1, <4>1, RangeOfTail
      <4> QED BY <1>P, <2>0, <4>2
    <3>2. CASE m # k
      BY <2>1, <2>4, <3>2 DEF TypeOK
    <3> QED BY <3>1, <3>2
  <2>5. ASSUME NEW r \in Req, WriteRequest(r) \/ WriteWithdraw(r) PROVE Proved(k, c)'
    BY <2>4, <2>5 DEF WriteRequest, WriteWithdraw
  <2>6. ASSUME NEW q \in Qry, WriteQuery(q) PROVE Proved(k, c)'
    BY <2>1, <2>4, <2>6 DEF WriteQuery
  <2> USE DEF Enroll, EnrollFails, Bind, Welcome, PingFails, ReadAnswer, Deliver,
              Leave, Unbind, CloseConn, AgentGone, TakeAnswer, ContextDone,
              RegisterRequest, EndFanout, DeleteRequest, EndWithdraw, RegisterQuery,
              QueryUnsent, DeleteQuery
  <2> QED
    BY <2>1, <2>2, <2>3, <2>5, <2>6
    DEF Next, ConnStep, RequestStep, QueryStep, Terminated, vars
<1>2. ASSUME NEW k \in Call, NEW c \in Conn, OnWire(CallFrame(k), c)'
      PROVE  Proved(k, c)'
  <2>0. OnWire(CallFrame(k), c) => Proved(k, c)
    BY DEF Routed
  <2>1. CASE wire' = wire
    BY <1>2, <1>P, <2>0, <2>1 DEF OnWire
  <2>2. ASSUME NEW d \in Conn, Welcome(d) PROVE Proved(k, c)'
    <3>1. PICK ok \in BOOLEAN : WriteJSON(d, WelcomeFrame, ok)
      BY <2>2 DEF Welcome
    <3>2. OnWire(CallFrame(k), c)
      BY <1>2, <3>1, WriteJSONEffect, FramesAreFrames, FramesDiffer
    <3> QED BY <1>P, <2>0, <3>2
  <2>3. ASSUME NEW r \in Req, WriteRequest(r) PROVE Proved(k, c)'
    <3>1. PICK ok \in BOOLEAN : WriteJSON(Head(todo[r]), RequestFrame(r), ok)
      BY <2>3 DEF WriteRequest
    <3>2. Head(todo[r]) \in Conn /\ Head(todo[r]) \in Range(todo[r])
      BY <2>3, RangeOfTail DEF WriteRequest, TypeOK
    <3>3. Proved(r, Head(todo[r]))
      BY <3>2 DEF Routed
    <3>4. OnWire(CallFrame(k), c) \/ (c = Head(todo[r]) /\ k = r)
      BY <1>2, <3>1, <3>2, WriteJSONEffect, FramesAreFrames, FramesDiffer
    <3> QED BY <1>P, <2>0, <3>3, <3>4
  <2>4. ASSUME NEW r \in Req, WriteWithdraw(r) PROVE Proved(k, c)'
    <3>1. PICK ok \in BOOLEAN : WriteJSON(Head(todo[r]), WithdrawFrame(r), ok)
      BY <2>4 DEF WriteWithdraw
    <3>2. Head(todo[r]) \in Conn
      BY <2>4, RangeOfTail DEF WriteWithdraw, TypeOK
    <3>3. OnWire(CallFrame(k), c)
      BY <1>2, <3>1, <3>2, WriteJSONEffect, FramesAreFrames, FramesDiffer
    <3> QED BY <1>P, <2>0, <3>3
  <2>5. ASSUME NEW q \in Qry, WriteQuery(q) PROVE Proved(k, c)'
    <3>1. PICK ok \in BOOLEAN : WriteJSON(Head(todo[q]), QueryFrame(q), ok)
      BY <2>5 DEF WriteQuery
    <3>2. Head(todo[q]) \in Conn /\ Head(todo[q]) \in Range(todo[q])
      BY <2>5, RangeOfTail DEF WriteQuery, TypeOK
    <3>3. Proved(q, Head(todo[q]))
      BY <3>2 DEF Routed
    <3>4. OnWire(CallFrame(k), c) \/ (c = Head(todo[q]) /\ k = q)
      BY <1>2, <3>1, <3>2, WriteJSONEffect, FramesAreFrames, FramesDiffer
    <3> QED BY <1>P, <2>0, <3>3, <3>4
  <2> USE DEF Enroll, EnrollFails, Bind, PingFails, ReadAnswer, Deliver, Leave,
              Unbind, CloseConn, AgentGone, Snapshot, TakeAnswer, ContextDone,
              RegisterRequest, EndFanout, DeleteRequest, WithdrawSnapshot,
              EndWithdraw, RegisterQuery, QueryUnsent, DeleteQuery
  <2> QED
    BY <2>1, <2>2, <2>3, <2>4, <2>5
    DEF Next, ConnStep, RequestStep, QueryStep, Terminated, vars
<1>3. ASSUME NEW k \in Call, NEW c \in Conn, holding'[c] = k
      PROVE  Controls(DeviceOf[c], k)'
  <2>1. CASE holding'[c] = holding[c]
    BY <1>3, <1>C, <1>D, <2>1 DEF Routed
  <2>2. ASSUME NEW d \in Conn, NEW m \in Call, ReadAnswer(d, m)
        PROVE  Controls(DeviceOf[c], k)'
    <3>1. CASE d = c
      <4>1. m = k
        BY <1>3, <2>2, <3>1 DEF ReadAnswer, TypeOK
      <4>2. PICK e \in Conn : DeviceOf[e] = DeviceOf[c] /\ OnWire(CallFrame(k), e)
        BY <2>2, <3>1, <4>1 DEF ReadAnswer, HeardOf
      <4>3. Controls(DeviceOf[c], k)
        BY <4>2 DEF Routed, Controls
      <4> QED BY <1>C, <1>D, <4>3
    <3>2. CASE d # c
      BY <2>1, <2>2, <3>2 DEF ReadAnswer, TypeOK
    <3> QED BY <3>1, <3>2
  <2>3. ASSUME NEW d \in Conn, Deliver(d) PROVE Controls(DeviceOf[c], k)'
    BY <1>3, <2>1, <2>3 DEF Deliver, TypeOK
  <2> USE DEF Enroll, EnrollFails, Bind, Welcome, PingFails, Leave,
              Unbind, CloseConn, AgentGone, Snapshot, TakeAnswer, ContextDone,
              RegisterRequest, WriteRequest, EndFanout, DeleteRequest,
              WithdrawSnapshot, WriteWithdraw, EndWithdraw, RegisterQuery, WriteQuery,
              QueryUnsent, DeleteQuery
  <2> QED
    BY <2>1, <2>2, <2>3
    DEF Next, ConnStep, RequestStep, QueryStep, Terminated, vars
<1>4. ASSUME NEW k \in Call, NEW c \in Conn, chan'[k] = <<c>>
      PROVE  Controls(DeviceOf[c], k)'
  <2>1. CASE chan'[k] = chan[k]
    BY <1>4, <1>C, <1>D, <2>1 DEF Routed
  <2>2. ASSUME NEW d \in Conn, Deliver(d) PROVE Controls(DeviceOf[c], k)'
    <3>1. CASE holding[d] = k /\ chan[k] = <<>>
      <4>1. c = d
        BY <1>4, <2>2, <3>1 DEF Deliver, TypeOK
      <4> QED BY <1>C, <1>D, <2>2, <3>1, <4>1 DEF Deliver, Routed
    <3>2. CASE ~(holding[d] = k /\ chan[k] = <<>>)
      BY <2>1, <2>2, <3>2 DEF Deliver, TypeOK
    <3> QED BY <3>1, <3>2
  <2>3. ASSUME NEW m \in Call, TakeAnswer(m) PROVE Controls(DeviceOf[c], k)'
    <3>1. CASE m = k
      <4>1. PICK d \in Conn : chan[k] = <<d>>
        BY <2>3, <3>1 DEF TakeAnswer, TypeOK
      <4>2. chan'[k] = <<>>
        BY <2>3, <3>1, <4>1 DEF TakeAnswer, TypeOK
      <4>3. <<c>> # <<>>
        OBVIOUS
      <4> QED BY <1>4, <4>2, <4>3, Zenon
    <3>2. CASE m # k
      BY <2>1, <2>3, <3>2 DEF TakeAnswer, TypeOK
    <3> QED BY <3>1, <3>2
  <2> USE DEF Enroll, EnrollFails, Bind, Welcome, PingFails, ReadAnswer, Leave,
              Unbind, CloseConn, AgentGone, Snapshot, ContextDone,
              RegisterRequest, WriteRequest, EndFanout, DeleteRequest,
              WithdrawSnapshot, WriteWithdraw, EndWithdraw, RegisterQuery, WriteQuery,
              QueryUnsent, DeleteQuery
  <2> QED
    BY <2>1, <2>2, <2>3
    DEF Next, ConnStep, RequestStep, QueryStep, Terminated, vars
<1>5. ASSUME NEW k \in Call, outcome'[k] = "answered"
      PROVE  /\ answer'[k] \in Conn
             /\ \A c \in Conn : answer'[k] = c => Controls(DeviceOf[c], k)'
  <2> DEFINE Goal == /\ answer'[k] \in Conn
                     /\ \A c \in Conn : answer'[k] = c => Controls(DeviceOf[c], k)'
  <2> SUFFICES Goal
    OBVIOUS
  <2>1. CASE outcome[k] = "answered" /\ answer'[k] = answer[k]
    BY <1>C, <1>D, <2>1 DEF Routed
  <2>2. ASSUME NEW m \in Call, TakeAnswer(m) PROVE Goal
    <3>1. CASE m = k
      <4>1. PICK d \in Conn : chan[k] = <<d>>
        BY <2>2, <3>1 DEF TakeAnswer, TypeOK
      <4>2. answer'[k] = d
        BY <2>2, <3>1, <4>1 DEF TakeAnswer, TypeOK
      <4>3. Controls(DeviceOf[d], k)'
        BY <1>C, <1>D, <4>1 DEF Routed
      <4> QED BY <4>2, <4>3
    <3>2. CASE m # k
      BY <1>5, <2>1, <2>2, <3>2 DEF TakeAnswer, TypeOK
    <3> QED BY <3>1, <3>2
  <2>3. CASE answer' = answer /\ outcome'[k] = outcome[k]
    BY <1>5, <2>1, <2>3
  <2>4. ASSUME NEW m \in Call, NEW a \in Account, Snapshot(m, a) PROVE Goal
    BY <1>5, <2>3, <2>4 DEF Snapshot, TypeOK
  <2>5. ASSUME NEW m \in Call, ContextDone(m) PROVE Goal
    BY <1>5, <2>3, <2>5 DEF ContextDone, TypeOK
  <2>6. ASSUME NEW r \in Req, EndFanout(r) PROVE Goal
    BY <1>5, <2>3, <2>6 DEF EndFanout, TypeOK
  <2>7. ASSUME NEW q \in Qry, QueryUnsent(q) PROVE Goal
    BY <1>5, <2>3, <2>7 DEF QueryUnsent, TypeOK
  <2> HIDE DEF Goal
  <2> USE DEF Enroll, EnrollFails, Bind, Welcome, PingFails, ReadAnswer, Deliver,
              Leave, Unbind, CloseConn, AgentGone, RegisterRequest, WriteRequest,
              DeleteRequest, WithdrawSnapshot, WriteWithdraw, EndWithdraw,
              RegisterQuery, WriteQuery, DeleteQuery
  <2> QED
    BY <2>2, <2>3, <2>4, <2>5, <2>6, <2>7
    DEF Next, ConnStep, RequestStep, QueryStep, Terminated, vars
<1> QED BY <1>1, <1>2, <1>3, <1>4, <1>5 DEF Routed

\* Nobody has been told of a call initially.
LEMMA InitRouted == Init => Routed
<1> SUFFICES ASSUME Init PROVE Routed
  OBVIOUS
<1>1. Range(<<>>) = {}
  BY DEF Range
<1>2. \A k \in Call : todo[k] = <<>> /\ chan[k] = <<>> /\ outcome[k] = "none"
  BY DEF Init
<1>3. \A c \in Conn : wire[c] = <<>> /\ holding[c] = None
  BY DEF Init
<1>4. \A c \in Conn : <<c>> # <<>>
  OBVIOUS
<1> QED BY <1>1, <1>2, <1>3, <1>4, CallIds DEF Routed, OnWire

\* A caller is answered only by an install that proved its account.
THEOREM AnswersCorrect == Spec => []AnsweredByController
<1>1. Init => BindingsExact
  BY DEF Init, BindingsExact, IsBound, IsInjective, Range
<1>2. Routed => AnsweredByController
  BY DEF Routed, AnsweredByController, Controls, Proved
<1> QED
  BY <1>1, <1>2, InitTyped, InitRouted, NextTyped, NextBindings, NextRouted, PTL DEF Spec

-----------------------------------------------------------------------------
(* The lists of devices.                                                   *)

\* A connection is in a call's list, or was given the call, only after it was
\* bound, which it is with some account; a list names no connection twice.
Dialled ==
    /\ \A c \in Conn : conn[c] = "proven" => accounts[c] # <<>>
    /\ \A k \in Call : IsInjective(todo[k])
    /\ \A k \in Call, c \in Conn :
         c \in Range(todo[k]) \/ c \in reached[k] => conn[c] \notin {"new", "proven"}

\* Every step keeps Dialled: snapshots are taken from exact bindings.
LEMMA NextDialled == Typed /\ BindingsExact /\ Dialled /\ [Next]_vars => Dialled'
<1> SUFFICES ASSUME TypeOK, Fresh, BindingsExact, Dialled, [Next]_vars PROVE Dialled'
  BY DEF Typed
<1> USE CallIds DEF callVars, connVars
<1>1. CASE UNCHANGED <<conn, accounts, todo, reached>>
  BY <1>1 DEF Dialled
<1>2. ASSUME NEW c \in Conn, NEW list \in ProvenLists, Enroll(c, list) PROVE Dialled'
  <2>1. list # <<>>
    BY HubAssumption
  <2> QED BY <1>2, <2>1 DEF Enroll, Dialled, TypeOK
<1>3. ASSUME NEW c \in Conn,
             EnrollFails(c) \/ Bind(c) \/ Welcome(c) \/ Leave(c) \/ Unbind(c) \/ CloseConn(c)
      PROVE  Dialled'
  <2>1. \E s \in ConnStates \ {"new", "proven"} : conn' = [conn EXCEPT ![c] = s]
    BY <1>3 DEF EnrollFails, Bind, Welcome, Leave, Unbind, CloseConn, ConnStates
  <2>2. UNCHANGED <<accounts, todo, reached>>
    BY <1>3 DEF EnrollFails, Bind, Welcome, Leave, Unbind, CloseConn
  <2> QED BY <2>1, <2>2 DEF Dialled, TypeOK
<1>4. ASSUME NEW k \in Call, NEW a \in Account,
             todo' = [todo EXCEPT ![k] = devicesForAccount(a)],
             UNCHANGED <<conn, accounts, reached>>
      PROVE  Dialled'
  <2>1. todo'[k] = devicesForAccount(a) /\ \A l \in Call : l # k => todo'[l] = todo[l]
    BY <1>4 DEF TypeOK
  <2>2. /\ IsInjective(devicesForAccount(a))
        /\ \A c \in Conn : c \in Range(devicesForAccount(a)) => IsBound(c)
    BY SnapshotOf
  <2> QED BY <1>4, <2>1, <2>2 DEF Dialled, IsBound
<1>5. ASSUME NEW k \in Call, NEW a \in Account, Snapshot(k, a) PROVE Dialled'
  BY <1>1, <1>4, <1>5 DEF Snapshot
<1>6. ASSUME NEW r \in Req, WithdrawSnapshot(r) PROVE Dialled'
  <2>1. acct[r] \in Account
    BY <1>6 DEF WithdrawSnapshot, TypeOK, Fresh
  <2> QED BY <1>4, <1>6, <2>1 DEF WithdrawSnapshot
<1>7. ASSUME NEW k \in Call, todo[k] # <<>>,
             todo'[k] = Tail(todo[k]) \/ todo'[k] = todo[k],
             \A l \in Call : l # k => todo'[l] = todo[l] /\ reached'[l] = reached[l],
             reached'[k] = reached[k] \/ reached'[k] = reached[k] \cup {Head(todo[k])}
      PROVE  /\ \A l \in Call : IsInjective(todo'[l])
             /\ \A l \in Call, d \in Conn : d \in Range(todo'[l]) \/ d \in reached'[l]
                  => d \in Range(todo[l]) \/ d \in reached[l]
  <2>1. /\ Range(todo[k]) = {Head(todo[k])} \cup Range(Tail(todo[k]))
        /\ IsInjective(Tail(todo[k]))
    BY <1>7, RangeOfTail DEF TypeOK, Dialled
  <2> QED BY <1>7, <2>1 DEF Dialled
<1>8. ASSUME NEW r \in Req, WriteRequest(r) \/ WriteWithdraw(r) PROVE Dialled'
  <2>1. /\ todo[r] # <<>> /\ todo'[r] = Tail(todo[r])
        /\ \A l \in Call : l # r => todo'[l] = todo[l] /\ reached'[l] = reached[l]
        /\ reached'[r] = reached[r] \/ reached'[r] = reached[r] \cup {Head(todo[r])}
    BY <1>8 DEF WriteRequest, WriteWithdraw, TypeOK
  <2>2. UNCHANGED <<conn, accounts>>
    BY <1>8 DEF WriteRequest, WriteWithdraw
  <2> QED BY <1>7, <2>1, <2>2 DEF Dialled
<1>9. ASSUME NEW q \in Qry, WriteQuery(q) PROVE Dialled'
  <2>1. /\ todo[q] # <<>> /\ (todo'[q] = Tail(todo[q]) \/ todo'[q] = todo[q])
        /\ \A l \in Call : l # q => todo'[l] = todo[l] /\ reached'[l] = reached[l]
        /\ reached'[q] = reached[q] \/ reached'[q] = reached[q] \cup {Head(todo[q])}
    BY <1>9 DEF WriteQuery, TypeOK
  <2>2. UNCHANGED <<conn, accounts>>
    BY <1>9 DEF WriteQuery
  <2> QED BY <1>7, <2>1, <2>2 DEF Dialled
<1> QED
  <2> USE DEF PingFails, ReadAnswer, Deliver, AgentGone, TakeAnswer, ContextDone,
              RegisterRequest, EndFanout, DeleteRequest, EndWithdraw, RegisterQuery,
              QueryUnsent, DeleteQuery
  <2> QED
    BY <1>1, <1>2, <1>3, <1>5, <1>6, <1>8, <1>9
    DEF Next, ConnStep, RequestStep, QueryStep, Terminated, vars

-----------------------------------------------------------------------------
(* Who has been sent what.                                                 *)

\* reached[k] is exactly where the frame of call k is on the wire, once; a
\* connection still in the list of a fan-out has not been sent it; nobody has
\* before the fan-out begins, and a query goes on only until the first.
Sent ==
    /\ \A k \in Call, c \in Conn : OnWire(CallFrame(k), c) <=> c \in reached[k]
    /\ \A k \in Call, c \in Conn : Once(CallFrame(k), c)
    /\ \A k \in Call, c \in Conn :
         pc[k] \in {"snapped", "sending"} /\ c \in Range(todo[k]) => c \notin reached[k]
    /\ \A k \in Call : pc[k] \in {"idle", "snapped"} => reached[k] = {}
    /\ \A q \in Qry : pc[q] = "sending" => reached[q] = {}
    /\ \A q \in Qry : \A c, d \in reached[q] : c = d

\* A write of anything but the frame of a call leaves the calls' frames alone.
LEMMA OtherFrames ==
    ASSUME TypeOK, NEW c \in Conn, NEW f \in Frame, NEW ok \in BOOLEAN,
           WriteJSON(c, f, ok), NEW k \in Call, f # CallFrame(k), NEW d \in Conn
    PROVE  /\ OnWire(CallFrame(k), d)' <=> OnWire(CallFrame(k), d)
           /\ Once(CallFrame(k), d) => Once(CallFrame(k), d)'
BY WriteJSONEffect

\* A write of the frame of call k to a connection that has not been sent it.
LEMMA CallFrameWritten ==
    ASSUME TypeOK, Sent, NEW k \in Call, NEW c \in Conn, NEW ok \in BOOLEAN,
           CallFrame(k) \in Frame, WriteJSON(c, CallFrame(k), ok), c \notin reached[k],
           reached'[k] = IF ok THEN reached[k] \cup {c} ELSE reached[k],
           \A l \in Call : l # k => reached'[l] = reached[l]
    PROVE  \A l \in Call, d \in Conn :
             (OnWire(CallFrame(l), d)' <=> d \in reached'[l]) /\ Once(CallFrame(l), d)'
<1> TAKE l \in Call, d \in Conn
<1>0. (OnWire(CallFrame(l), d) <=> d \in reached[l]) /\ Once(CallFrame(l), d)
  BY DEF Sent
<1>1. CASE l = k
  <2>1. OnWire(CallFrame(k), d)' <=> OnWire(CallFrame(k), d) \/ (ok /\ d = c)
    BY WriteJSONEffect
  <2>2. Once(CallFrame(k), d) /\ ~(ok /\ d = c /\ OnWire(CallFrame(k), c))
          => Once(CallFrame(k), d)'
    BY WriteJSONEffect
  <2>3. ~OnWire(CallFrame(k), c)
    BY DEF Sent
  <2> QED BY <1>0, <1>1, <2>1, <2>2, <2>3
<1>2. CASE l # k
  <2>1. CallFrame(k) # CallFrame(l)
    BY <1>2, FramesDiffer, CallIds DEF Call
  <2> QED BY <1>0, <1>2, <2>1, OtherFrames
<1> QED BY <1>1, <1>2

\* Every step keeps Sent: a write goes to the head of the list, which then
\* leaves it.
LEMMA NextSent == Typed /\ BindingsExact /\ Dialled /\ Sent /\ [Next]_vars => Sent'
<1> SUFFICES ASSUME TypeOK, Dialled, Sent, [Next]_vars PROVE Sent'
  BY DEF Typed
<1> USE CallIds DEF callVars, connVars
<1>1. CASE UNCHANGED <<wire, reached, pc, todo>>
  BY <1>1 DEF Sent, OnWire, Once
<1>2. ASSUME NEW c \in Conn, Welcome(c) PROVE Sent'
  <2>1. PICK ok \in BOOLEAN : WriteJSON(c, WelcomeFrame, ok)
    BY <1>2 DEF Welcome
  <2>2. UNCHANGED <<reached, pc, todo>>
    BY <1>2 DEF Welcome
  <2>3. \A k \in Call, d \in Conn :
          /\ OnWire(CallFrame(k), d)' <=> OnWire(CallFrame(k), d)
          /\ Once(CallFrame(k), d) => Once(CallFrame(k), d)'
    BY <2>1, OtherFrames, FramesDiffer, FramesAreFrames
  <2> QED BY <2>2, <2>3 DEF Sent
<1>3. ASSUME NEW k \in Call, NEW s, s \notin {"idle", "snapped", "sending"},
             pc' = [pc EXCEPT ![k] = s], UNCHANGED <<wire, reached>>,
             \A l \in Call : l # k => todo'[l] = todo[l]
      PROVE  Sent'
  <2>1. pc'[k] = s /\ \A l \in Call : l # k => pc'[l] = pc[l]
    BY <1>3 DEF TypeOK
  <2>2. /\ \A l \in Call, c \in Conn : OnWire(CallFrame(l), c)' <=> OnWire(CallFrame(l), c)
        /\ \A l \in Call, c \in Conn : Once(CallFrame(l), c)' <=> Once(CallFrame(l), c)
    BY <1>3 DEF OnWire, Once
  <2> QED BY <1>3, <2>1, <2>2 DEF Sent
<1>4. ASSUME NEW k \in Call, NEW a \in Account, Snapshot(k, a) PROVE Sent'
  <2>1. CASE pc' = [pc EXCEPT ![k] = "done"]
    BY <1>3, <1>4, <2>1 DEF Snapshot, TypeOK
  <2>2. CASE pc' = [pc EXCEPT ![k] = "snapped"]
    <3>1. UNCHANGED <<wire, reached>> /\ reached[k] = {}
      BY <1>4 DEF Snapshot, Sent
    <3>2. /\ pc'[k] = "snapped" /\ \A l \in Call : l # k => pc'[l] = pc[l]
          /\ \A l \in Call : l # k => todo'[l] = todo[l]
      BY <1>4, <2>2 DEF Snapshot, TypeOK
    <3> QED BY <3>1, <3>2 DEF Sent, OnWire, Once
  <2> QED BY <1>4, <2>1, <2>2 DEF Snapshot
<1>5. ASSUME NEW k \in Call, TakeAnswer(k) \/ ContextDone(k) PROVE Sent'
  BY <1>3, <1>5 DEF TakeAnswer, ContextDone
<1>6. ASSUME NEW r \in Req,
             EndFanout(r) \/ DeleteRequest(r) \/ WithdrawSnapshot(r) \/ EndWithdraw(r)
      PROVE  Sent'
  <2>1. CASE EndFanout(r)
    BY <1>3, <2>1 DEF EndFanout
  <2>2. CASE DeleteRequest(r)
    BY <1>3, <2>2 DEF DeleteRequest
  <2>3. CASE WithdrawSnapshot(r)
    BY <1>3, <2>3 DEF WithdrawSnapshot, TypeOK
  <2>4. CASE EndWithdraw(r)
    BY <1>3, <2>4 DEF EndWithdraw
  <2> QED BY <1>6, <2>1, <2>2, <2>3, <2>4
<1>7. ASSUME NEW q \in Qry, QueryUnsent(q) \/ DeleteQuery(q) PROVE Sent'
  BY <1>3, <1>7 DEF QueryUnsent, DeleteQuery
<1>8. ASSUME NEW k \in Call, pc[k] = "snapped", pc' = [pc EXCEPT ![k] = "sending"],
             UNCHANGED <<wire, reached, todo>>
      PROVE  Sent'
  BY <1>8 DEF Sent, OnWire, Once, TypeOK
<1>9. ASSUME NEW r \in Req, RegisterRequest(r) PROVE Sent'
  BY <1>8, <1>9 DEF RegisterRequest
<1>10. ASSUME NEW q \in Qry, RegisterQuery(q) PROVE Sent'
  BY <1>8, <1>10 DEF RegisterQuery
<1>11. ASSUME NEW r \in Req, WriteRequest(r) PROVE Sent'
  <2> DEFINE c == Head(todo[r])
  <2>1. /\ c \in Conn
        /\ Range(todo[r]) = {c} \cup Range(Tail(todo[r]))
        /\ c \notin Range(Tail(todo[r]))
    BY <1>11, RangeOfTail DEF WriteRequest, TypeOK, Dialled
  <2>2. PICK ok \in BOOLEAN :
          /\ WriteJSON(c, RequestFrame(r), ok)
          /\ reached' = [reached EXCEPT ![r] = IF ok THEN @ \cup {c} ELSE @]
    BY <1>11 DEF WriteRequest
  <2>3. /\ reached'[r] = IF ok THEN reached[r] \cup {c} ELSE reached[r]
        /\ \A l \in Call : l # r => reached'[l] = reached[l] /\ todo'[l] = todo[l]
        /\ todo'[r] = Tail(todo[r]) /\ pc' = pc /\ pc[r] = "sending"
    BY <1>11, <2>2 DEF WriteRequest, TypeOK
  <2>4. c \notin reached[r]
    BY <2>1, <2>3 DEF Sent
  <2>5. CallFrame(r) = RequestFrame(r) /\ RequestFrame(r) \in Frame
    BY FramesDiffer, FramesAreFrames
  <2> HIDE DEF c
  <2>6. \A l \in Call, d \in Conn :
          (OnWire(CallFrame(l), d)' <=> d \in reached'[l]) /\ Once(CallFrame(l), d)'
    BY <2>1, <2>2, <2>3, <2>4, <2>5, CallFrameWritten
  <2>7. r \notin Qry
    BY HubAssumption
  <2> QED BY <2>1, <2>3, <2>6, <2>7 DEF Sent
<1>12. ASSUME NEW r \in Req, WriteWithdraw(r) PROVE Sent'
  <2>1. Head(todo[r]) \in Conn
    BY <1>12, RangeOfTail DEF WriteWithdraw, TypeOK
  <2>2. PICK ok \in BOOLEAN : WriteJSON(Head(todo[r]), WithdrawFrame(r), ok)
    BY <1>12 DEF WriteWithdraw
  <2>3. /\ UNCHANGED <<pc, reached>> /\ pc[r] = "withdrawing"
        /\ \A l \in Call : l # r => todo'[l] = todo[l]
    BY <1>12 DEF WriteWithdraw, TypeOK
  <2>4. \A k \in Call, d \in Conn :
          /\ OnWire(CallFrame(k), d)' <=> OnWire(CallFrame(k), d)
          /\ Once(CallFrame(k), d) => Once(CallFrame(k), d)'
    BY <2>1, <2>2, OtherFrames, FramesDiffer, FramesAreFrames
  <2> QED BY <2>3, <2>4 DEF Sent
<1>13. ASSUME NEW q \in Qry, WriteQuery(q) PROVE Sent'
  <2> DEFINE c == Head(todo[q])
  <2>1. /\ c \in Conn
        /\ Range(todo[q]) = {c} \cup Range(Tail(todo[q]))
    BY <1>13, RangeOfTail DEF WriteQuery, TypeOK
  <2>2. PICK ok \in BOOLEAN :
          /\ WriteJSON(c, QueryFrame(q), ok)
          /\ reached' = [reached EXCEPT ![q] = IF ok THEN @ \cup {c} ELSE @]
          /\ ok => pc' = [pc EXCEPT ![q] = "waiting"] /\ todo' = todo
          /\ ~ok => pc' = pc /\ todo' = [todo EXCEPT ![q] = Tail(@)]
    <3>1. CASE WriteJSON(c, QueryFrame(q), TRUE) /\ pc' = [pc EXCEPT ![q] = "waiting"]
      BY <1>13, <3>1 DEF WriteQuery, TypeOK
    <3>2. CASE WriteJSON(c, QueryFrame(q), FALSE) /\ pc' = pc
      BY <1>13, <3>2 DEF WriteQuery, TypeOK
    <3> QED BY <1>13, <3>1, <3>2 DEF WriteQuery
  <2>3. /\ reached'[q] = IF ok THEN reached[q] \cup {c} ELSE reached[q]
        /\ \A l \in Call : l # q => /\ reached'[l] = reached[l] /\ todo'[l] = todo[l]
                                    /\ pc'[l] = pc[l]
        /\ ok => pc'[q] = "waiting"
        /\ ~ok => pc'[q] = pc[q] /\ todo'[q] = Tail(todo[q])
        /\ pc[q] = "sending" /\ reached[q] = {}
    <3>1. pc[q] = "sending" /\ reached[q] = {}
      BY <1>13 DEF WriteQuery, Sent
    <3>2. CASE ok
      BY <2>2, <3>1, <3>2 DEF TypeOK
    <3>3. CASE ~ok
      BY <2>2, <3>1, <3>3 DEF TypeOK
    <3> QED BY <3>2, <3>3
  <2>4. CallFrame(q) = QueryFrame(q) /\ QueryFrame(q) \in Frame
    BY FramesDiffer, FramesAreFrames
  <2> HIDE DEF c
  <2>5. \A l \in Call, d \in Conn :
          (OnWire(CallFrame(l), d)' <=> d \in reached'[l]) /\ Once(CallFrame(l), d)'
    BY <2>1, <2>2, <2>3, <2>4, CallFrameWritten
  <2> QED BY <2>1, <2>3, <2>5 DEF Sent
<1> QED
  <2> USE DEF Enroll, EnrollFails, Bind, PingFails, ReadAnswer, Deliver, Leave, Unbind,
              CloseConn, AgentGone
  <2> QED
    BY <1>1, <1>2, <1>4, <1>5, <1>6, <1>7, <1>9, <1>10, <1>11, <1>12, <1>13
    DEF Next, ConnStep, RequestStep, QueryStep, Terminated, vars

\* Nothing is bound or written initially.
LEMMA InitSent == Init => BindingsExact /\ Dialled /\ Sent
<1> SUFFICES ASSUME Init PROVE BindingsExact /\ Dialled /\ Sent
  OBVIOUS
<1>1. Range(<<>>) = {} /\ IsInjective(<<>>) /\ DOMAIN <<>> = {}
  BY DEF Range, IsInjective
<1>2. BindingsExact
  BY <1>1 DEF Init, BindingsExact, IsBound
<1>3. Dialled
  BY <1>1 DEF Init, Dialled
<1>4. Sent
  BY <1>1, CallIds DEF Init, Sent, OnWire, Once
<1> QED BY <1>2, <1>3, <1>4

\* A query goes to one connection at most, and nothing goes to a connection
\* twice.
THEOREM SentOnce == Spec => []NoDuplicateSend
<1>1. Sent => NoDuplicateSend
  <2> SUFFICES ASSUME Sent PROVE NoDuplicateSend
    OBVIOUS
  <2>1. \A q \in Qry : QueryFrame(q) = CallFrame(q) /\ q \in Call
    BY FramesDiffer, CallIds
  <2> QED BY <2>1 DEF Sent, Once, NoDuplicateSend
<1> QED BY <1>1, InitTyped, InitSent, NextTyped, NextBindings, NextDialled, NextSent, PTL DEF Spec

-----------------------------------------------------------------------------
(* The withdraw.  It goes by the devices of a second snapshot; a connection *)
(* that was given the request and is still bound is in it, because it       *)
(* proved the account of the request.                                       *)

\* A connection that was given a request, is still bound and has a working
\* writer is in the list of the withdraw until it has been sent it.
Withdrawing ==
    \A r \in Req, c \in Conn :
        c \in reached[r] /\ IsBound(c) /\ ~wfail[c] =>
            /\ pc[r] = "withdrawing" => c \in Range(todo[r]) \/ Withdrawn(r, c)
            /\ pc[r] = "done" => Withdrawn(r, c)

\* Every step keeps Withdrawing.
LEMMA NextWithdrawing ==
    Typed /\ BindingsExact /\ Routed /\ Dialled /\ Sent /\ Withdrawing /\ [Next]_vars
      => Withdrawing'
<1> SUFFICES ASSUME TypeOK, Fresh, BindingsExact, Routed, Dialled, Sent, Withdrawing,
                    [Next]_vars,
                    NEW r \in Req, NEW c \in Conn,
                    c \in reached'[r], IsBound(c)', ~wfail'[c]
             PROVE  /\ pc'[r] = "withdrawing" => c \in Range(todo'[r]) \/ Withdrawn(r, c)'
                    /\ pc'[r] = "done" => Withdrawn(r, c)'
  BY DEF Typed, Withdrawing
<1> DEFINE Goal == /\ pc'[r] = "withdrawing" => c \in Range(todo'[r]) \/ Withdrawn(r, c)'
                   /\ pc'[r] = "done" => Withdrawn(r, c)'
<1> SUFFICES Goal
  OBVIOUS
<1> USE CallIds DEF callVars, connVars
<1>1. CASE pc'[r] \notin {"withdrawing", "done"}
  BY <1>1
<1>2. ASSUME c \in reached[r], IsBound(c), ~wfail[c], pc'[r] = pc[r], todo'[r] = todo[r],
             Withdrawn(r, c) => Withdrawn(r, c)'
      PROVE  Goal
  BY <1>2 DEF Withdrawing
<1>3. ASSUME UNCHANGED <<wire, wfail, conn>>, reached'[r] = reached[r], pc'[r] = pc[r],
             todo'[r] = todo[r]
      PROVE  Goal
  BY <1>2, <1>3 DEF Withdrawn, IsBound
<1> HIDE DEF Goal
<1>4. ASSUME NEW d \in Conn,
             (\E list \in ProvenLists : Enroll(d, list)) \/ EnrollFails(d) \/ Leave(d)
               \/ Unbind(d) \/ CloseConn(d)
      PROVE  Goal
  <2>1. \E s \in {"proven", "closed", "left", "unbound"} :
          conn' = [conn EXCEPT ![d] = s] /\ (s = "left" => conn[d] = "serving")
    BY <1>4 DEF Enroll, EnrollFails, Leave, Unbind, CloseConn
  <2>2. IsBound(c)
    BY <2>1 DEF IsBound, TypeOK
  <2>3. UNCHANGED <<wire, wfail, reached, pc, todo>>
    BY <1>4 DEF Enroll, EnrollFails, Leave, Unbind, CloseConn
  <2> QED BY <1>2, <2>2, <2>3 DEF Withdrawn
<1>5. ASSUME NEW d \in Conn, Bind(d) PROVE Goal
  <2>1. UNCHANGED <<wire, wfail, reached, pc, todo>>
    BY <1>5 DEF Bind
  <2>2. d # c
    BY <1>5, <2>1 DEF Bind, Dialled
  <2>3. IsBound(c)
    BY <1>5, <2>2 DEF Bind, IsBound, TypeOK
  <2> QED BY <1>2, <2>1, <2>3 DEF Withdrawn
<1>6. ASSUME NEW d \in Conn, Welcome(d) PROVE Goal
  <2>1. PICK ok \in BOOLEAN : WriteJSON(d, WelcomeFrame, ok)
    BY <1>6 DEF Welcome
  <2>2. UNCHANGED <<reached, pc, todo>>
    BY <1>6 DEF Welcome
  <2>3. IsBound(c)
    BY <1>6 DEF Welcome, IsBound, TypeOK
  <2>4. ~wfail[c] /\ (Withdrawn(r, c) => Withdrawn(r, c)')
    BY <2>1, WriteJSONEffect, FramesAreFrames
  <2> QED BY <1>2, <2>2, <2>3, <2>4
<1>7. ASSUME NEW d \in Conn, PingFails(d) PROVE Goal
  <2>1. UNCHANGED <<conn, wire, reached, pc, todo>> /\ ~wfail[c]
    BY <1>7 DEF PingFails, TypeOK
  <2> QED BY <1>2, <2>1 DEF Withdrawn, IsBound
<1>8. ASSUME NEW k \in Call, NEW a \in Account, Snapshot(k, a) PROVE Goal
  <2>1. UNCHANGED <<conn, wire, wfail, reached>> /\ reached[k] = {}
    BY <1>8 DEF Snapshot, Sent
  <2>2. k # r
    BY <2>1
  <2>3. pc'[r] = pc[r] /\ todo'[r] = todo[r]
    BY <1>8, <2>2 DEF Snapshot, TypeOK
  <2> QED BY <1>3, <2>1, <2>3
<1>9. ASSUME NEW k \in Call, TakeAnswer(k) \/ ContextDone(k) PROVE Goal
  <2>1. UNCHANGED <<conn, wire, wfail, reached, todo>> /\ pc' = [pc EXCEPT ![k] = "cleanup"]
    BY <1>9 DEF TakeAnswer, ContextDone
  <2> QED BY <1>1, <1>3, <2>1 DEF TypeOK
<1>10. ASSUME NEW x \in Req, RegisterRequest(x) \/ EndFanout(x) \/ DeleteRequest(x) PROVE Goal
  <2>1. /\ UNCHANGED <<conn, wire, wfail, reached, todo>>
        /\ \E s \in {"sending", "cleanup", "waiting", "deleted"} : pc' = [pc EXCEPT ![x] = s]
    BY <1>10 DEF RegisterRequest, EndFanout, DeleteRequest
  <2> QED BY <1>1, <1>3, <2>1 DEF TypeOK
<1>11. ASSUME NEW x \in Req, WriteRequest(x) PROVE Goal
  <2>1. PICK ok \in BOOLEAN : WriteJSON(Head(todo[x]), RequestFrame(x), ok)
    BY <1>11 DEF WriteRequest
  <2>2. Head(todo[x]) \in Conn
    BY <1>11, RangeOfTail DEF WriteRequest, TypeOK
  <2>3. CASE x = r
    BY <1>1, <1>11, <2>3 DEF WriteRequest
  <2>4. CASE x # r
    <3>1. UNCHANGED <<conn, pc>> /\ reached'[r] = reached[r] /\ todo'[r] = todo[r]
      BY <1>11, <2>4 DEF WriteRequest, TypeOK
    <3>2. ~wfail[c] /\ (Withdrawn(r, c) => Withdrawn(r, c)')
      BY <2>1, <2>2, WriteJSONEffect, FramesAreFrames
    <3> QED BY <1>2, <3>1, <3>2 DEF IsBound
  <2> QED BY <2>3, <2>4
<1>12. ASSUME NEW x \in Req, WithdrawSnapshot(x) PROVE Goal
  <2>1. UNCHANGED <<conn, wire, wfail, reached>>
    BY <1>12 DEF WithdrawSnapshot
  <2>2. CASE x = r
    <3>1. acct[r] \in Account
      BY <1>12, <2>2 DEF WithdrawSnapshot, TypeOK, Fresh
    <3>2. todo'[r] = devicesForAccount(acct[r]) /\ pc'[r] = "withdrawing"
      BY <1>12, <2>2 DEF WithdrawSnapshot, TypeOK
    <3>3. OnWire(CallFrame(r), c)
      BY <2>1 DEF Sent
    <3>4. acct[r] \in Range(accounts[c])
      BY <3>3 DEF Routed, Proved
    <3>5. c \in Range(devicesForAccount(acct[r]))
      BY <2>1, <3>1, <3>4, SnapshotOf DEF IsBound
    <3> QED BY <3>2, <3>5 DEF Goal
  <2>3. CASE x # r
    BY <1>3, <1>12, <2>1, <2>3 DEF WithdrawSnapshot, TypeOK
  <2> QED BY <2>2, <2>3
<1>13. ASSUME NEW x \in Req, WriteWithdraw(x) PROVE Goal
  <2>1. PICK ok \in BOOLEAN : WriteJSON(Head(todo[x]), WithdrawFrame(x), ok)
    BY <1>13 DEF WriteWithdraw
  <2>2. /\ Head(todo[x]) \in Conn
        /\ Range(todo[x]) = {Head(todo[x])} \cup Range(Tail(todo[x]))
    BY <1>13, RangeOfTail DEF WriteWithdraw, TypeOK
  <2>3. UNCHANGED <<conn, reached, pc>> /\ todo' = [todo EXCEPT ![x] = Tail(@)]
        /\ pc[x] = "withdrawing"
    BY <1>13 DEF WriteWithdraw
  <2>4. /\ ~wfail[c] /\ (c = Head(todo[x]) => ok)
        /\ Withdrawn(r, c) => Withdrawn(r, c)'
        /\ ok /\ c = Head(todo[x]) /\ x = r /\ OnWire(RequestFrame(r), c) => Withdrawn(r, c)'
    BY <2>1, <2>2, WriteJSONEffect, FramesAreFrames
  <2>5. IsBound(c)
    BY <2>3 DEF IsBound
  <2>6. CASE x = r
    <3>1. OnWire(RequestFrame(r), c)
      BY <2>3, FramesDiffer DEF Sent
    <3>2. c \in Range(todo[r]) \/ Withdrawn(r, c)
      BY <2>3, <2>4, <2>5, <2>6 DEF Withdrawing
    <3>3. todo'[r] = Tail(todo[r])
      BY <2>3, <2>6 DEF TypeOK
    <3> QED BY <2>2, <2>3, <2>4, <2>6, <3>1, <3>2, <3>3 DEF Goal
  <2>7. CASE x # r
    BY <1>2, <2>3, <2>4, <2>5, <2>7 DEF TypeOK
  <2> QED BY <2>6, <2>7
<1>14. ASSUME NEW x \in Req, EndWithdraw(x) PROVE Goal
  <2>1. UNCHANGED <<conn, wire, wfail, reached, todo>> /\ pc[x] = "withdrawing"
        /\ todo[x] = <<>> /\ pc' = [pc EXCEPT ![x] = "done"]
    BY <1>14 DEF EndWithdraw
  <2>2. CASE x = r
    <3>1. Range(todo[r]) = {}
      BY <2>1, <2>2 DEF Range
    <3>2. Withdrawn(r, c)
      BY <2>1, <2>2, <3>1 DEF Withdrawing, IsBound
    <3>3. Withdrawn(r, c)'
      BY <2>1, <3>2 DEF Withdrawn
    <3> QED BY <3>3 DEF Goal
  <2>3. CASE x # r
    BY <1>3, <2>1, <2>3 DEF TypeOK
  <2> QED BY <2>2, <2>3
<1>15. ASSUME NEW q \in Qry, RegisterQuery(q) \/ QueryUnsent(q) \/ DeleteQuery(q) PROVE Goal
  <2>1. q # r
    BY HubAssumption
  <2>2. /\ UNCHANGED <<conn, wire, wfail, reached, todo>>
        /\ \E s \in CallStates : pc' = [pc EXCEPT ![q] = s]
    BY <1>15 DEF RegisterQuery, QueryUnsent, DeleteQuery, CallStates
  <2> QED BY <1>3, <2>1, <2>2 DEF TypeOK
<1>16. ASSUME NEW q \in Qry, WriteQuery(q) PROVE Goal
  <2>1. q # r
    BY HubAssumption
  <2>2. PICK ok \in BOOLEAN : WriteJSON(Head(todo[q]), QueryFrame(q), ok)
    BY <1>16 DEF WriteQuery
  <2>3. Head(todo[q]) \in Conn
    BY <1>16, RangeOfTail DEF WriteQuery, TypeOK
  <2>4. ~wfail[c] /\ (Withdrawn(r, c) => Withdrawn(r, c)')
    BY <2>2, <2>3, WriteJSONEffect, FramesAreFrames
  <2>5. conn' = conn /\ reached'[r] = reached[r] /\ todo'[r] = todo[r] /\ pc'[r] = pc[r]
    BY <1>16, <2>1 DEF WriteQuery, TypeOK
  <2> QED BY <1>2, <2>4, <2>5 DEF IsBound
<1>17. CASE UNCHANGED <<conn, wire, wfail, reached, pc, todo>>
  BY <1>3, <1>17
<1> QED
  <2> USE DEF ReadAnswer, Deliver, AgentGone
  <2> QED
    BY <1>4, <1>5, <1>6, <1>7, <1>8, <1>9, <1>10, <1>11, <1>12, <1>13, <1>14, <1>15, <1>16,
       <1>17
    DEF Next, ConnStep, RequestStep, QueryStep, Terminated, vars

\* Where a request was sent, its withdraw follows.
THEOREM WithdrawsFollow == Spec => []WithdrawnWhereSent
<1>1. Init => Withdrawing
  BY CallIds DEF Init, Withdrawing
<1>2. Withdrawing => WithdrawnWhereSent
  BY DEF Withdrawing, WithdrawnWhereSent, Withdrawn
<1> QED BY <1>1, <1>2, InitTyped, InitSent, InitRouted, NextTyped, NextBindings, NextRouted,
           NextDialled, NextSent, NextWithdrawing, PTL DEF Spec

-----------------------------------------------------------------------------
(* What a call returns.                                                    *)

\* The outcome is decided when the call has stopped waiting; "offline" says
\* that nobody was given the call, anything else that somebody was.
Decided ==
    \A k \in Call :
        /\ outcome[k] = "none" <=> pc[k] \in {"idle", "snapped", "sending", "waiting"}
        /\ pc[k] = "waiting" => reached[k] # {}
        /\ outcome[k] = "offline" => reached[k] = {}
        /\ outcome[k] \in {"timeout", "answered"} => reached[k] # {}
        /\ outcome[k] # "answered" => answer[k] = None

\* Every step keeps Decided.
LEMMA NextDecided == Typed /\ Sent /\ Decided /\ [Next]_vars => Decided'
<1> SUFFICES ASSUME TypeOK, Sent, Decided, [Next]_vars PROVE Decided'
  BY DEF Typed
<1> USE CallIds DEF callVars, connVars
<1>1. CASE UNCHANGED <<pc, outcome, reached, answer>>
  BY <1>1 DEF Decided
<1>2. ASSUME NEW k \in Call, NEW a \in Account, Snapshot(k, a) PROVE Decided'
  <2>1. pc[k] = "idle" /\ reached[k] = {} /\ outcome[k] = "none" /\ UNCHANGED <<reached, answer>>
    BY <1>2 DEF Snapshot, Sent, Decided
  <2>2. CASE pc' = [pc EXCEPT ![k] = "done"] /\ outcome' = [outcome EXCEPT ![k] = "offline"]
    BY <2>1, <2>2 DEF TypeOK, Decided
  <2>3. CASE pc' = [pc EXCEPT ![k] = "snapped"] /\ outcome' = outcome
    BY <2>1, <2>3 DEF TypeOK, Decided
  <2> QED BY <1>2, <2>2, <2>3 DEF Snapshot
<1>3. ASSUME NEW k \in Call, TakeAnswer(k) PROVE Decided'
  <2>1. /\ pc[k] = "waiting" /\ pc' = [pc EXCEPT ![k] = "cleanup"] /\ reached' = reached
        /\ outcome' = [outcome EXCEPT ![k] = "answered"]
        /\ answer' = [answer EXCEPT ![k] = Head(chan[k])]
    BY <1>3 DEF TakeAnswer
  <2> QED BY <2>1 DEF TypeOK, Decided
<1>4. ASSUME NEW k \in Call, ContextDone(k) PROVE Decided'
  BY <1>4 DEF ContextDone, TypeOK, Decided
<1>5. ASSUME NEW k \in Call, outcome[k] = "none", NEW s \in {"sending", "waiting"},
             s = "waiting" => reached'[k] # {}, pc' = [pc EXCEPT ![k] = s],
             \A l \in Call : l # k => reached'[l] = reached[l],
             UNCHANGED <<outcome, answer>>
      PROVE  Decided'
  BY <1>5 DEF TypeOK, Decided
<1>6. ASSUME NEW k \in Call, outcome[k] # "none",
             NEW s \in {"deleted", "withdrawing", "done"}, pc' = [pc EXCEPT ![k] = s],
             UNCHANGED <<outcome, answer, reached>>
      PROVE  Decided'
  BY <1>6 DEF TypeOK, Decided
<1>7. ASSUME NEW r \in Req, RegisterRequest(r) PROVE Decided'
  BY <1>5, <1>7 DEF RegisterRequest, Decided
<1>8. ASSUME NEW r \in Req, WriteRequest(r) PROVE Decided'
  <2>1. /\ pc[r] = "sending" /\ UNCHANGED <<pc, outcome, answer>>
        /\ \A l \in Call : l # r => reached'[l] = reached[l]
    BY <1>8 DEF WriteRequest, TypeOK
  <2> QED BY <2>1 DEF Decided
<1>9. ASSUME NEW r \in Req, EndFanout(r) PROVE Decided'
  <2>1. pc[r] = "sending" /\ outcome[r] = "none" /\ UNCHANGED <<reached, answer>>
    BY <1>9 DEF EndFanout, Decided
  <2>2. CASE reached[r] = {}
    <3>1. pc' = [pc EXCEPT ![r] = "cleanup"] /\ outcome' = [outcome EXCEPT ![r] = "offline"]
      BY <1>9, <2>2 DEF EndFanout
    <3> QED BY <2>1, <2>2, <3>1 DEF TypeOK, Decided
  <2>3. CASE reached[r] # {}
    BY <1>5, <1>9, <2>1, <2>3 DEF EndFanout
  <2> QED BY <2>2, <2>3
<1>10. ASSUME NEW r \in Req, DeleteRequest(r) PROVE Decided'
  BY <1>6, <1>10 DEF DeleteRequest, Decided
<1>11. ASSUME NEW r \in Req, WithdrawSnapshot(r) PROVE Decided'
  BY <1>6, <1>11 DEF WithdrawSnapshot, Decided
<1>12. ASSUME NEW r \in Req, EndWithdraw(r) PROVE Decided'
  BY <1>6, <1>12 DEF EndWithdraw, Decided
<1>13. ASSUME NEW q \in Qry, RegisterQuery(q) PROVE Decided'
  BY <1>5, <1>13 DEF RegisterQuery, Decided
<1>14. ASSUME NEW q \in Qry, WriteQuery(q) PROVE Decided'
  <2>1. CASE pc' = pc /\ reached' = reached
    BY <1>1, <1>14, <2>1 DEF WriteQuery
  <2>2. CASE /\ pc' = [pc EXCEPT ![q] = "waiting"]
             /\ reached' = [reached EXCEPT ![q] = @ \cup {Head(todo[q])}]
    <3>1. reached'[q] # {} /\ \A l \in Call : l # q => reached'[l] = reached[l]
      BY <2>2 DEF TypeOK
    <3>2. outcome[q] = "none" /\ UNCHANGED <<outcome, answer>>
      BY <1>14 DEF WriteQuery, Decided
    <3> QED BY <1>5, <2>2, <3>1, <3>2
  <2> QED BY <1>14, <2>1, <2>2 DEF WriteQuery
<1>15. ASSUME NEW q \in Qry, QueryUnsent(q) PROVE Decided'
  <2>1. /\ pc[q] = "sending" /\ reached[q] = {} /\ UNCHANGED <<reached, answer>>
        /\ pc' = [pc EXCEPT ![q] = "cleanup"] /\ outcome' = [outcome EXCEPT ![q] = "offline"]
    BY <1>15 DEF QueryUnsent, Sent
  <2> QED BY <2>1 DEF TypeOK, Decided
<1>16. ASSUME NEW q \in Qry, DeleteQuery(q) PROVE Decided'
  BY <1>6, <1>16 DEF DeleteQuery, Decided
<1> QED
  <2> USE DEF Enroll, EnrollFails, Bind, Welcome, PingFails, ReadAnswer, Deliver, Leave,
              Unbind, CloseConn, AgentGone, WriteWithdraw
  <2> QED
    BY <1>1, <1>2, <1>3, <1>4, <1>7, <1>8, <1>9, <1>10, <1>11, <1>12, <1>13, <1>14, <1>15,
       <1>16
    DEF Next, ConnStep, RequestStep, QueryStep, Terminated, vars

\* The install of connection c was given call k.
Shared(k, c) == \E d \in reached[k] : DeviceOf[d] = DeviceOf[c]

\* An answer comes from an install that was given the call: while a read loop
\* holds the waiter, in the waiter's slot, and when it is returned.
Heard ==
    /\ \A k \in Call, c \in Conn : holding[c] = k => Shared(k, c)
    /\ \A k \in Call, c \in Conn : chan[k] = <<c>> => Shared(k, c)
    /\ \A k \in Call, c \in Conn : answer[k] = c => Shared(k, c)

\* Every step keeps Heard.
LEMMA NextHeard == Typed /\ Sent /\ Heard /\ [Next]_vars => Heard'
<1> SUFFICES ASSUME TypeOK, Sent, Heard, [Next]_vars PROVE Heard'
  BY DEF Typed
<1> USE CallIds DEF callVars, connVars
<1>R. ASSUME NEW k \in Call PROVE reached[k] \subseteq reached'[k]
  <2>1. CASE reached' = reached
    BY <2>1
  <2>2. ASSUME NEW r \in Req, WriteRequest(r) PROVE reached[k] \subseteq reached'[k]
    BY <2>2 DEF WriteRequest, TypeOK
  <2>3. ASSUME NEW q \in Qry, WriteQuery(q) PROVE reached[k] \subseteq reached'[k]
    <3>1. \/ reached' = reached
          \/ reached' = [reached EXCEPT ![q] = @ \cup {Head(todo[q])}]
      BY <2>3 DEF WriteQuery
    <3>2. reached \in [Call -> SUBSET Conn] /\ q \in Call
      BY DEF TypeOK
    <3>3. reached'[k] = reached[k] \/ reached'[k] = reached[k] \cup {Head(todo[q])}
      BY <3>1, <3>2
    <3> QED BY <3>3
  <2> USE DEF Enroll, EnrollFails, Bind, Welcome, PingFails, ReadAnswer, Deliver, Leave,
              Unbind, CloseConn, AgentGone, Snapshot, TakeAnswer, ContextDone,
              RegisterRequest, EndFanout, DeleteRequest, WithdrawSnapshot, WriteWithdraw,
              EndWithdraw, RegisterQuery, QueryUnsent, DeleteQuery
  <2> QED
    BY <2>1, <2>2, <2>3
    DEF Next, ConnStep, RequestStep, QueryStep, Terminated, vars
<1>S. \A k \in Call, c \in Conn : Shared(k, c) => Shared(k, c)'
  BY <1>R DEF Shared
<1>1. CASE UNCHANGED <<holding, chan, answer>>
  BY <1>1, <1>S DEF Heard
<1>2. ASSUME NEW d \in Conn, NEW m \in Call, ReadAnswer(d, m) PROVE Heard'
  <2>1. PICK e \in Conn : DeviceOf[e] = DeviceOf[d] /\ OnWire(CallFrame(m), e)
    BY <1>2 DEF ReadAnswer, HeardOf
  <2>2. Shared(m, d)
    BY <2>1 DEF Sent, Shared
  <2>3. /\ UNCHANGED <<chan, answer>>
        /\ holding'[d] \in {m, None} /\ \A c \in Conn : c # d => holding'[c] = holding[c]
    BY <1>2 DEF ReadAnswer, TypeOK
  <2> QED BY <1>S, <2>2, <2>3 DEF Heard
<1>3. ASSUME NEW d \in Conn, Deliver(d) PROVE Heard'
  <2>1. /\ answer' = answer
        /\ holding'[d] = None /\ \A c \in Conn : c # d => holding'[c] = holding[c]
    BY <1>3 DEF Deliver, TypeOK
  <2>2. ASSUME NEW k \in Call, NEW c \in Conn, chan'[k] = <<c>> PROVE Shared(k, c)
    <3>1. chan'[k] = chan[k] \/ (holding[d] = k /\ chan'[k] = <<d>>)
      BY <1>3 DEF Deliver, TypeOK
    <3>2. chan'[k] = <<d>> => c = d
      BY <2>2
    <3> QED BY <2>2, <3>1, <3>2 DEF Heard
  <2> QED BY <1>S, <2>1, <2>2 DEF Heard
<1>4. ASSUME NEW m \in Call, TakeAnswer(m) PROVE Heard'
  <2>1. PICK d \in Conn : chan[m] = <<d>>
    BY <1>4 DEF TakeAnswer, TypeOK
  <2>2. Head(chan[m]) = d /\ Tail(chan[m]) = <<>>
    BY <2>1
  <2>3. /\ holding' = holding
        /\ answer'[m] = d /\ chan'[m] = <<>>
        /\ \A k \in Call : k # m => answer'[k] = answer[k] /\ chan'[k] = chan[k]
    BY <1>4, <2>2 DEF TakeAnswer, TypeOK
  <2>4. \A c \in Conn : <<c>> # <<>>
    OBVIOUS
  <2> QED BY <1>S, <2>1, <2>3, <2>4 DEF Heard
<1> QED
  <2> USE DEF Enroll, EnrollFails, Bind, Welcome, PingFails, Leave, Unbind, CloseConn,
              AgentGone, Snapshot, ContextDone, RegisterRequest, WriteRequest, EndFanout,
              DeleteRequest, WithdrawSnapshot, WriteWithdraw, EndWithdraw, RegisterQuery,
              WriteQuery, QueryUnsent, DeleteQuery
  <2> QED
    BY <1>1, <1>2, <1>3, <1>4
    DEF Next, ConnStep, RequestStep, QueryStep, Terminated, vars

\* No call has an outcome or an answer initially.
LEMMA InitDecided == Init => Decided /\ Heard
<1>1. Init => Decided
  BY CallIds DEF Init, Decided
<1>2. \A c \in Conn : <<c>> # <<>>
  OBVIOUS
<1>3. None \notin Conn
  BY HubAssumption
<1>4. Init => Heard
  BY <1>2, <1>3, CallIds DEF Init, Heard
<1> QED BY <1>1, <1>4

-----------------------------------------------------------------------------
(* The refinement.  The variables of Router, as HubRouter maps them.       *)

provedBar == [c \in Conn |-> Range(accounts[c])]
boundBar == {c \in Conn : IsBound(c)}
retBar == [k \in Call |-> IF pc[k] = "idle" THEN "idle"
                          ELSE IF pc[k] = "done" THEN outcome[k] ELSE "open"]
offerBar == [k \in Call |-> IF pc[k] \in {"snapped", "sending"} THEN Range(todo[k]) ELSE {}]
byBar == [k \in Call |-> IF pc[k] = "done" THEN answer[k] ELSE None]


\* Every connection step of the hub is one of the router's, or none.
LEMMA ConnRefines ==
    ASSUME Typed, Dialled, NEW c \in Conn,
           UNCHANGED <<pc, acct, todo, reached, outcome, answer>>
    PROVE  /\ \A list \in ProvenLists : Enroll(c, list) => R!Prove(c, Range(list))
           /\ Bind(c) => R!BindConn(c)
           /\ Unbind(c) => R!UnbindConn(c)
           /\ EnrollFails(c) \/ Welcome(c) \/ Leave(c) \/ CloseConn(c) => UNCHANGED R!routerVars
<1> USE DEF Typed, TypeOK
<1>0. UNCHANGED <<retBar, offerBar, byBar>>
  BY DEF retBar, offerBar, byBar
<1>1. ASSUME NEW list \in ProvenLists, Enroll(c, list) PROVE R!Prove(c, Range(list))
  <2>1. Range(accounts[c]) = {} /\ ~IsBound(c)
    BY <1>1 DEF Enroll, Fresh, Range, IsBound
  <2>2. boundBar' = boundBar
    BY <1>1 DEF Enroll, IsBound, boundBar
  <2>3. provedBar' = [provedBar EXCEPT ![c] = Range(list)]
    BY <1>1 DEF Enroll, provedBar
  <2> QED BY <1>0, <2>1, <2>2, <2>3 DEF R!Prove, provedBar, boundBar, retBar, offerBar, byBar
<1>2. ASSUME Bind(c) PROVE R!BindConn(c)
  <2>1. Range(accounts[c]) # {} /\ ~IsBound(c)
    <3>1. accounts[c] \in Seq(Account) /\ accounts[c] # <<>>
      BY <1>2 DEF Bind, Dialled
    <3>2. Range(accounts[c]) # {}
      BY <3>1, RangeOfEmpty
    <3> QED BY <1>2, <3>2 DEF Bind, IsBound
  <2>2. boundBar' = boundBar \cup {c} /\ provedBar' = provedBar
    BY <1>2 DEF Bind, IsBound, boundBar, provedBar
  <2> QED BY <1>0, <2>1, <2>2 DEF R!BindConn, provedBar, boundBar, retBar, offerBar, byBar
<1>3. ASSUME Unbind(c) PROVE R!UnbindConn(c)
  <2>1. IsBound(c)
    BY <1>3 DEF Unbind, IsBound
  <2>2. boundBar' = boundBar \ {c} /\ provedBar' = provedBar
    BY <1>3 DEF Unbind, IsBound, boundBar, provedBar
  <2> QED BY <1>0, <2>1, <2>2 DEF R!UnbindConn, provedBar, boundBar, retBar, offerBar, byBar
<1>4. ASSUME EnrollFails(c) \/ Welcome(c) \/ Leave(c) \/ CloseConn(c)
      PROVE  UNCHANGED R!routerVars
  <2>1. boundBar' = boundBar /\ provedBar' = provedBar
    BY <1>4 DEF EnrollFails, Welcome, Leave, CloseConn, IsBound, boundBar, provedBar
  <2> QED BY <1>0, <2>1 DEF R!routerVars, provedBar, boundBar, retBar, offerBar, byBar
<1> QED BY <1>1, <1>2, <1>3, <1>4

\* The snapshot opens the call.
LEMMA SnapshotRefines ==
    ASSUME Typed, BindingsExact, Decided, NEW k \in Call, NEW a \in Account, Snapshot(k, a)
    PROVE  R!Open(k, a)
<1> USE DEF Typed, TypeOK
<1>0. UNCHANGED <<provedBar, boundBar, reached>>
  BY DEF Snapshot, connVars, provedBar, boundBar, IsBound
<1>1. R!Serving(a) = Range(devicesForAccount(a))
  <2>1. Range(devicesForAccount(a)) \subseteq Conn
    BY DevicesType, RangeOf
  <2> QED BY <2>1, SnapshotOf DEF R!Serving
<1>2. devicesForAccount(a) = <<>> <=> Range(devicesForAccount(a)) = {}
  BY DevicesType, RangeOfEmpty
<1>3. pc[k] = "idle" /\ answer[k] = None /\ answer' = answer /\ acct' = [acct EXCEPT ![k] = a]
  BY DEF Snapshot, Decided
<1>4. /\ retBar' = [retBar EXCEPT ![k] = IF R!Serving(a) = {} THEN "offline" ELSE "open"]
      /\ offerBar' = [offerBar EXCEPT ![k] = R!Serving(a)]
      /\ byBar' = byBar
  <2>1. CASE devicesForAccount(a) = <<>>
    <3>1. /\ pc' = [pc EXCEPT ![k] = "done"] /\ outcome' = [outcome EXCEPT ![k] = "offline"]
          /\ todo' = todo /\ R!Serving(a) = {}
      BY <1>1, <1>2, <2>1 DEF Snapshot
    <3> QED BY <1>3, <3>1 DEF retBar, offerBar, byBar
  <2>2. CASE devicesForAccount(a) # <<>>
    <3>1. /\ pc' = [pc EXCEPT ![k] = "snapped"] /\ outcome' = outcome
          /\ todo' = [todo EXCEPT ![k] = devicesForAccount(a)] /\ R!Serving(a) # {}
      BY <1>1, <1>2, <2>2 DEF Snapshot
    <3> QED BY <1>1, <1>3, <3>1 DEF retBar, offerBar, byBar
  <2> QED BY <2>1, <2>2
<1>5. retBar[k] = "idle"
  BY <1>3 DEF retBar
<1> QED BY <1>0, <1>3, <1>4, <1>5 DEF R!Open, provedBar, boundBar, retBar, offerBar, byBar

\* A write of the fan-out gives the call to a connection or skips it.
LEMMA WriteRefines ==
    ASSUME Typed, Dialled, NEW k \in Call, pc[k] = "sending", todo[k] # <<>>,
           NEW c \in Conn, c = Head(todo[k]),
           UNCHANGED <<conn, accounts, acct, outcome, answer>>
    PROVE  /\ /\ k \in Req /\ pc' = pc /\ todo' = [todo EXCEPT ![k] = Tail(@)]
              /\ reached' = [reached EXCEPT ![k] = @ \cup {c}]
              => R!Give(k, c)
           /\ /\ k \in Qry /\ pc' = [pc EXCEPT ![k] = "waiting"] /\ todo' = todo
              /\ reached' = [reached EXCEPT ![k] = @ \cup {c}]
              => R!Give(k, c)
           /\ /\ pc' = pc /\ todo' = [todo EXCEPT ![k] = Tail(@)] /\ reached' = reached
              => R!Skip(k, c)
<1> USE DEF Typed, TypeOK
<1>0. UNCHANGED <<provedBar, boundBar>>
  BY DEF provedBar, boundBar, IsBound
<1>1. c \in Range(todo[k]) /\ Range(Tail(todo[k])) = Range(todo[k]) \ {c}
  BY RangeOfTail DEF Dialled
<1>2. retBar[k] = "open" /\ offerBar[k] = Range(todo[k])
  BY DEF retBar, offerBar
<1>3. ASSUME k \in Req, pc' = pc, todo' = [todo EXCEPT ![k] = Tail(@)],
             reached' = [reached EXCEPT ![k] = @ \cup {c}]
      PROVE  R!Give(k, c)
  <2>1. retBar' = retBar /\ byBar' = byBar /\ k \notin Qry
    BY <1>3, HubAssumption DEF retBar, byBar
  <2>2. offerBar' = [offerBar EXCEPT ![k] = @ \ {c}]
    BY <1>1, <1>3 DEF offerBar
  <2> QED BY <1>0, <1>1, <1>2, <1>3, <2>1, <2>2
          DEF R!Give, provedBar, boundBar, retBar, offerBar, byBar
<1>4. ASSUME k \in Qry, pc' = [pc EXCEPT ![k] = "waiting"], todo' = todo,
             reached' = [reached EXCEPT ![k] = @ \cup {c}]
      PROVE  R!Give(k, c)
  <2>1. retBar' = retBar /\ byBar' = byBar
    BY <1>4 DEF retBar, byBar
  <2>2. offerBar' = [offerBar EXCEPT ![k] = {}]
    BY <1>4 DEF offerBar
  <2> QED BY <1>0, <1>1, <1>2, <1>4, <2>1, <2>2
          DEF R!Give, provedBar, boundBar, retBar, offerBar, byBar
<1>5. ASSUME pc' = pc, todo' = [todo EXCEPT ![k] = Tail(@)], reached' = reached
      PROVE  R!Skip(k, c)
  <2>1. retBar' = retBar /\ byBar' = byBar
    BY <1>5 DEF retBar, byBar
  <2>2. offerBar' = [offerBar EXCEPT ![k] = @ \ {c}]
    BY <1>1, <1>5 DEF offerBar
  <2> QED BY <1>0, <1>1, <1>2, <1>5, <2>1, <2>2
          DEF R!Skip, provedBar, boundBar, retBar, offerBar, byBar
<1> QED BY <1>3, <1>4, <1>5

\* The end of the deferred function returns what the call has decided.
LEMMA ReturnRefines ==
    ASSUME Typed, Routed, Decided, Heard, NEW k \in Call, pc[k] \in {"cleanup", "withdrawing"},
           pc' = [pc EXCEPT ![k] = "done"],
           UNCHANGED <<conn, accounts, acct, todo, reached, outcome, answer>>
    PROVE  R!Return(k)
<1> USE DEF Typed, TypeOK
<1>0. UNCHANGED <<provedBar, boundBar>>
  BY DEF provedBar, boundBar, IsBound
<1>1. /\ retBar[k] = "open" /\ retBar' = [retBar EXCEPT ![k] = outcome[k]]
      /\ offerBar[k] = {} /\ offerBar' = offerBar
      /\ byBar' = [byBar EXCEPT ![k] = answer[k]]
      /\ byBar[k] = None
  BY DEF retBar, offerBar, byBar
<1>2. CASE outcome[k] = "answered"
  <2>1. PICK c \in Conn : c = answer[k]
    BY <1>2 DEF Routed
  <2>2. \E d \in reached[k] : DeviceOf[d] = DeviceOf[c]
    BY <2>1 DEF Heard, Shared
  <2>3. R!ReturnAnswer(k, c)
    BY <1>0, <1>1, <1>2, <2>1, <2>2
    DEF R!ReturnAnswer, provedBar, boundBar, retBar, offerBar, byBar
  <2> QED BY <2>3 DEF R!Return
<1>3. CASE outcome[k] # "answered"
  <2>1. /\ outcome[k] = IF reached[k] = {} THEN "offline" ELSE "timeout"
        /\ answer[k] = None
    BY <1>3 DEF Decided
  <2>2. byBar' = byBar
    BY <1>1, <2>1 DEF byBar
  <2>3. R!ReturnError(k)
    BY <1>0, <1>1, <2>1, <2>2
    DEF R!ReturnError, provedBar, boundBar, retBar, offerBar, byBar
  <2> QED BY <2>3 DEF R!Return
<1> QED BY <1>2, <1>3

\* What the other steps of a call change is not seen by the handlers.
LEMMA CallStutters ==
    ASSUME Typed, NEW k \in Call, NEW s, s \notin {"idle", "done", "snapped"},
           pc[k] \notin {"idle", "done"}, pc' = [pc EXCEPT ![k] = s],
           \/ pc[k] = "snapped" /\ s = "sending" /\ todo' = todo
           \/ pc[k] = "sending" /\ s # "sending" /\ todo' = todo /\ todo[k] = <<>>
           \/ pc[k] \notin {"snapped", "sending"} /\ s # "sending",
           \A l \in Call : l # k => /\ todo'[l] = todo[l] /\ outcome'[l] = outcome[l]
                                    /\ answer'[l] = answer[l],
           UNCHANGED <<conn, accounts, acct, reached>>
    PROVE  UNCHANGED R!routerVars
<1> USE DEF Typed, TypeOK
<1>0. UNCHANGED <<provedBar, boundBar>>
  BY DEF provedBar, boundBar, IsBound
<1>1. Range(<<>>) = {}
  BY DEF Range
<1>2. UNCHANGED <<retBar, byBar>>
  BY DEF retBar, byBar
<1>3. offerBar' = offerBar
  BY <1>1 DEF offerBar
<1> QED BY <1>0, <1>2, <1>3 DEF R!routerVars, provedBar, boundBar, retBar, offerBar, byBar

\* Every step of the hub is a step of the router or changes nothing it shows.
LEMMA NextRefines ==
    ASSUME Typed, BindingsExact, Routed, Dialled, Sent, Decided, Heard, [Next]_vars
    PROVE  [R!Next]_(R!routerVars)
<1> DEFINE Goal == [R!Next]_(R!routerVars)
<1> SUFFICES Goal
  OBVIOUS
<1> USE CallIds DEF callVars, connVars
<1>1. CASE UNCHANGED <<conn, accounts, pc, acct, todo, reached, outcome, answer>>
  <2>1. UNCHANGED R!routerVars
    BY <1>1 DEF R!routerVars, IsBound
  <2> QED BY <2>1
<1>2. ASSUME NEW c \in Conn, NEW list \in ProvenLists, Enroll(c, list) PROVE Goal
  <2>1. R!Prove(c, Range(list))
    BY <1>2, ConnRefines DEF Enroll
  <2>2. Range(list) \in SUBSET Account
    <3>1. list \in Seq(Account)
      BY HubAssumption
    <3> QED BY <3>1, RangeOf
  <2> QED BY <2>1, <2>2 DEF R!Next
<1>3. ASSUME NEW c \in Conn, Bind(c) PROVE Goal
  <2>1. R!BindConn(c)
    BY <1>3, ConnRefines DEF Bind
  <2> QED BY <2>1 DEF R!Next
<1>4. ASSUME NEW c \in Conn, Unbind(c) PROVE Goal
  <2>1. R!UnbindConn(c)
    BY <1>4, ConnRefines DEF Unbind
  <2> QED BY <2>1 DEF R!Next
<1>5. ASSUME NEW c \in Conn, EnrollFails(c) \/ Welcome(c) \/ Leave(c) \/ CloseConn(c)
      PROVE  Goal
  <2>1. UNCHANGED <<pc, acct, todo, reached, outcome, answer>>
    BY <1>5 DEF EnrollFails, Welcome, Leave, CloseConn
  <2>2. UNCHANGED R!routerVars
    BY <1>5, <2>1, ConnRefines
  <2> QED BY <2>2
<1>6. ASSUME NEW k \in Call, NEW a \in Account, Snapshot(k, a) PROVE Goal
  <2>1. R!Open(k, a)
    BY <1>6, SnapshotRefines
  <2> QED BY <2>1 DEF R!Next, Call
<1>7. ASSUME NEW k \in Call, R!CallStep(k) PROVE Goal
  BY <1>7 DEF R!Next, Call
<1>8. ASSUME NEW r \in Req, WriteRequest(r) PROVE Goal
  <2>1. PICK c \in Conn : c = Head(todo[r])
    BY <1>8, RangeOfTail DEF WriteRequest, Typed, TypeOK
  <2>2. /\ pc[r] = "sending" /\ todo[r] # <<>> /\ pc' = pc /\ todo' = [todo EXCEPT ![r] = Tail(@)]
        /\ UNCHANGED <<conn, accounts, acct, outcome, answer>>
        /\ \/ reached' = [reached EXCEPT ![r] = @ \cup {c}]
           \/ reached' = reached
    BY <1>8, <2>1 DEF WriteRequest, Typed, TypeOK
  <2>3. R!Give(r, c) \/ R!Skip(r, c)
    BY <2>1, <2>2, WriteRefines
  <2>4. R!CallStep(r)
    BY <2>3 DEF R!CallStep
  <2> QED BY <1>7, <2>4
<1>9. ASSUME NEW q \in Qry, WriteQuery(q) PROVE Goal
  <2>1. PICK c \in Conn : c = Head(todo[q])
    BY <1>9, RangeOfTail DEF WriteQuery, Typed, TypeOK
  <2>2. /\ pc[q] = "sending" /\ todo[q] # <<>>
        /\ UNCHANGED <<conn, accounts, acct, outcome, answer>>
        /\ \/ /\ reached' = [reached EXCEPT ![q] = @ \cup {c}]
              /\ pc' = [pc EXCEPT ![q] = "waiting"] /\ todo' = todo
           \/ pc' = pc /\ todo' = [todo EXCEPT ![q] = Tail(@)] /\ reached' = reached
    BY <1>9, <2>1 DEF WriteQuery
  <2>3. R!Give(q, c) \/ R!Skip(q, c)
    BY <2>1, <2>2, WriteRefines
  <2>4. R!CallStep(q)
    BY <2>3 DEF R!CallStep
  <2> QED BY <1>7, <2>4
<1>10. ASSUME NEW r \in Req, EndWithdraw(r) PROVE Goal
  <2>1. R!Return(r)
    BY <1>10, ReturnRefines DEF EndWithdraw
  <2> QED BY <1>7, <2>1 DEF R!CallStep
<1>11. ASSUME NEW q \in Qry, DeleteQuery(q) PROVE Goal
  <2>1. R!Return(q)
    BY <1>11, ReturnRefines DEF DeleteQuery
  <2> QED BY <1>7, <2>1 DEF R!CallStep
<1>12. ASSUME NEW k \in Call, TakeAnswer(k) \/ ContextDone(k) PROVE Goal
  <2>1. UNCHANGED R!routerVars
    <3>1. pc[k] = "waiting" /\ pc' = [pc EXCEPT ![k] = "cleanup"]
          /\ UNCHANGED <<conn, accounts, acct, todo, reached>>
      BY <1>12 DEF TakeAnswer, ContextDone
    <3>2. \A l \in Call : l # k => outcome'[l] = outcome[l] /\ answer'[l] = answer[l]
      BY <1>12 DEF TakeAnswer, ContextDone, Typed, TypeOK
    <3> QED BY <3>1, <3>2, CallStutters
  <2> QED BY <2>1
<1>13. ASSUME NEW r \in Req, RegisterRequest(r) \/ DeleteRequest(r) PROVE Goal
  <2>1. UNCHANGED R!routerVars
    BY <1>13, CallStutters DEF RegisterRequest, DeleteRequest
  <2> QED BY <2>1
<1>14. ASSUME NEW r \in Req, EndFanout(r) PROVE Goal
  <2>1. UNCHANGED R!routerVars
    <3>1. pc[r] = "sending" /\ todo[r] = <<>>
          /\ UNCHANGED <<conn, accounts, acct, todo, reached, answer>>
      BY <1>14 DEF EndFanout
    <3>2. \E s \in {"waiting", "cleanup"} : pc' = [pc EXCEPT ![r] = s]
      BY <1>14 DEF EndFanout
    <3>3. \A l \in Call : l # r => outcome'[l] = outcome[l]
      BY <1>14 DEF EndFanout, Typed, TypeOK
    <3> QED BY <3>1, <3>2, <3>3, CallStutters
  <2> QED BY <2>1
<1>15. ASSUME NEW r \in Req, WithdrawSnapshot(r) PROVE Goal
  <2>1. UNCHANGED R!routerVars
    BY <1>15, CallStutters DEF WithdrawSnapshot, Typed, TypeOK
  <2> QED BY <2>1
<1>16. ASSUME NEW r \in Req, WriteWithdraw(r) PROVE Goal
  <2>1. UNCHANGED R!routerVars
    <3>1. pc[r] = "withdrawing" /\ pc' = [pc EXCEPT ![r] = "withdrawing"]
      BY <1>16 DEF WriteWithdraw, Typed, TypeOK
    <3>2. /\ UNCHANGED <<conn, accounts, acct, reached, outcome, answer>>
          /\ \A l \in Call : l # r => todo'[l] = todo[l]
      BY <1>16 DEF WriteWithdraw, Typed, TypeOK
    <3> QED BY <3>1, <3>2, CallStutters
  <2> QED BY <2>1
<1>17. ASSUME NEW q \in Qry, RegisterQuery(q) PROVE Goal
  <2>1. UNCHANGED R!routerVars
    BY <1>17, CallStutters DEF RegisterQuery
  <2> QED BY <2>1
<1>18. ASSUME NEW q \in Qry, QueryUnsent(q) PROVE Goal
  <2>1. UNCHANGED R!routerVars
    BY <1>18, CallStutters DEF QueryUnsent, Typed, TypeOK
  <2> QED BY <2>1
<1> HIDE DEF Goal
<1> QED
  <2> USE DEF PingFails, ReadAnswer, Deliver, AgentGone
  <2> QED
    BY <1>1, <1>2, <1>3, <1>4, <1>5, <1>6, <1>8, <1>9, <1>10, <1>11, <1>12, <1>13, <1>14,
       <1>15, <1>16, <1>17, <1>18
    DEF Next, ConnStep, RequestStep, QueryStep, Terminated, vars

\* The hub starts where the router does.
LEMMA InitRefines == Init => R!Init
<1> SUFFICES ASSUME Init PROVE R!Init
  OBVIOUS
<1>1. Range(<<>>) = {}
  BY DEF Range
<1>2. provedBar = [c \in Conn |-> {}] /\ boundBar = {}
  BY <1>1 DEF Init, provedBar, boundBar, IsBound
<1>3. /\ retBar = [k \in Call |-> "idle"] /\ offerBar = [k \in Call |-> {}]
      /\ byBar = [k \in Call |-> None]
  BY DEF Init, retBar, offerBar, byBar
<1>4. acct = [k \in Call |-> None] /\ reached = [k \in Call |-> {}]
  BY DEF Init
<1> QED BY <1>2, <1>3, <1>4
        DEF R!Init, provedBar, boundBar, retBar, offerBar, byBar, Call

\* The hub keeps the router's promises.
THEOREM HubImplementsRouter == Spec => ImplementsRouter
<1> DEFINE Inv == Typed /\ BindingsExact /\ Routed /\ Dialled /\ Sent /\ Decided /\ Heard
<1>1. Init => Inv
  BY InitTyped, InitSent, InitRouted, InitDecided
<1>2. Inv /\ [Next]_vars => Inv'
  BY NextTyped, NextBindings, NextRouted, NextDialled, NextSent, NextDecided, NextHeard
<1>3. Inv /\ [Next]_vars => [R!Next]_(R!routerVars)
  BY NextRefines
<1> HIDE DEF Inv
<1> QED BY <1>1, <1>2, <1>3, InitRefines, PTL DEF Spec, ImplementsRouter, R!Spec
=============================================================================

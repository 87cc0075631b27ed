------------------------- MODULE X402GatewayProofs -------------------------
(***************************************************************************)
(* Proofs about X402Gateway, for any number of containers, sessions,       *)
(* payments and views, any lifetimes of tokens and any number of faults.   *)
(***************************************************************************)
EXTENDS X402Gateway, TLAPS

Container ==
    [pc : {"idle", "fetch", "issued", "transit", "invoke"},
     req : Requests \cup {None}, waited : Nat, secret : SUBSET Nat,
     coming : SUBSET Tokens, token : SUBSET Tokens, refresh : Nat]

Session ==
    [pc : {"free", "begin", "settle", "posted", "done"},
     req : Requests \cup {None}, flaw : AgentFlaws \cup {"none"},
     caller : Containers \cup {None}, code : Codes]

\* The time limit of a container's step, by its pc.
LimitOf(pc) == CASE pc \in {"fetch", "issued"} -> FetchTimeout
                 [] pc = "transit" -> Transit
                 [] pc = "invoke" -> InvokeTimeout
                 [] OTHER -> 0

\* What TypeOK says of one container beyond its fields' sets.
Bounded(g, v) ==
    /\ g.pc # "idle" => g.req \in Requests
    /\ g.waited <= LimitOf(g.pc)
    /\ \A t \in g.token \cup g.coming : t.left <= t.life
    /\ \A n \in g.secret : n <= v

\* What TokenAges says of one container.
Aged(g) ==
    /\ g.refresh > 0 => \A t \in g.token : t.left >= g.refresh + Transit
    /\ \A t \in g.coming : g.pc = "issued" /\ t.left + g.waited >= t.life
    /\ g.pc = "transit" => g.token # {} /\ \A t \in g.token : t.left + g.waited > Transit

\* A container in order.
Sane(g, v) == g \in Container /\ Bounded(g, v) /\ Aged(g)

\* TypeOK without the containers.
Rest ==
    /\ secret \in 0..faults
    /\ run \in [Sessions -> Session]
    /\ job \in [Payments -> {"none", "settling", "paid", "rejected"}]
    /\ charge \in [Payments -> {"none", "posted", "paid", "refused", "void"}]
    /\ buyer \in [Requests -> {"idle", "waiting", "retry", "limited", "accepted", "failed", "refused"}]
    /\ faults \in 0..MaxFaults

AllSane == gw \in [Containers -> Container] /\ \A c \in Containers : Sane(gw[c], secret)

\* The type invariant and the token invariant, container by container.
LEMMA ByContainer == TypeOK /\ TokenAges <=> AllSane /\ Rest
<1>1. \A c \in Containers : Limit(c) = LimitOf(gw[c].pc)
  BY DEF Limit, LimitOf, Is
<1>2. TypeOK <=> /\ gw \in [Containers -> Container] /\ Rest
                 /\ \A c \in Containers : Bounded(gw[c], secret)
  BY <1>1, Zenon DEF TypeOK, Container, Session, Rest, Bounded, Is
<1>3. TokenAges <=> \A c \in Containers : Aged(gw[c])
  BY Zenon DEF TokenAges, Aged
<1>4. ASSUME gw \in [Containers -> Container]
      PROVE  \A c \in Containers : gw[c] \in Container
  BY <1>4
<1> QED BY <1>2, <1>3, <1>4, Zenon DEF AllSane, Sane

\* A step of one container keeps all in order when it leaves that one in order.
LEMMA OneSane ==
    ASSUME AllSane, NEW c \in Containers, NEW g, Sane(g, secret),
           gw' = [gw EXCEPT ![c] = g], secret' = secret
    PROVE  AllSane'
<1>1. g \in Container
  BY DEF Sane
<1>2. gw' \in [Containers -> Container]
  BY <1>1 DEF AllSane
<1>3. ASSUME NEW d \in Containers PROVE Sane(gw'[d], secret')
  <2>1. gw'[d] = IF d = c THEN g ELSE gw[d]
    BY DEF AllSane
  <2> QED BY <2>1 DEF AllSane
<1> QED BY <1>2, <1>3 DEF AllSane
-----------------------------------------------------------------------------
(* What one step does to a container.                                      *)

LEMMA LimitNat == \A q : LimitOf(q) \in Nat
  BY GatewayAssumption DEF LimitOf

LEMMA ColdSane == ASSUME NEW v \in Nat PROVE Sane(Cold, v)
  BY GatewayAssumption DEF Sane, Cold, Container, Bounded, Aged, LimitOf

\* Reply
LEMMA IdleSane ==
    ASSUME NEW v \in Nat, NEW g, Sane(g, v)
    PROVE  Sane([g EXCEPT !.pc = "idle", !.req = None, !.waited = 0, !.coming = {}], v)
<1> DEFINE h == [g EXCEPT !.pc = "idle", !.req = None, !.waited = 0, !.coming = {}]
<1>1. g \in Container /\ \A t \in g.token \cup g.coming : t.left \in Nat /\ t.life \in Lifetimes
  BY DEF Sane, Container, Tokens
<1>2. h \in Container
  BY <1>1, GatewayAssumption DEF Sane, Container, Tokens
<1>3. /\ h.pc = "idle" /\ h.waited = 0 /\ h.coming = {}
      /\ h.token = g.token /\ h.refresh = g.refresh /\ h.secret = g.secret
  BY <1>1 DEF Container
<1> HIDE DEF h
<1>4. Bounded(h, v)
  BY <1>1, <1>2, <1>3, GatewayAssumption DEF Sane, Container, Bounded, Aged, LimitOf
<1>5. Aged(h)
  BY <1>1, <1>2, <1>3, GatewayAssumption DEF Sane, Container, Bounded, Aged, LimitOf
<1> QED BY <1>2, <1>4, <1>5 DEF Sane, h

\* Receive with a token that is not due.
LEMMA HitSane ==
    ASSUME NEW v \in Nat, NEW g, Sane(g, v), g.pc = "idle", NEW r \in Requests, CacheHit(g)
    PROVE  Sane([g EXCEPT !.pc = "transit", !.req = r, !.waited = 0], v)
<1> DEFINE h == [g EXCEPT !.pc = "transit", !.req = r, !.waited = 0]
<1>1. g \in Container /\ \A t \in g.token \cup g.coming : t.left \in Nat /\ t.life \in Lifetimes
  BY DEF Sane, Container, Tokens
<1>2. h \in Container
  BY <1>1, GatewayAssumption DEF Sane, Container, Tokens
<1>3. /\ h.pc = "transit" /\ h.waited = 0 /\ h.req = r
      /\ h.token = g.token /\ h.coming = g.coming /\ h.refresh = g.refresh /\ h.secret = g.secret
  BY <1>1 DEF Container
<1> HIDE DEF h
<1>4. Bounded(h, v)
  BY <1>1, <1>2, <1>3, GatewayAssumption DEF Sane, Container, Bounded, Aged, LimitOf
<1>5. Aged(h)
  BY <1>1, <1>2, <1>3, GatewayAssumption DEF Sane, Container, Bounded, Aged, LimitOf, CacheHit
<1> QED BY <1>2, <1>4, <1>5 DEF Sane, h

\* Receive without one.
LEMMA FetchSane ==
    ASSUME NEW v \in Nat, NEW g, Sane(g, v), g.pc = "idle", NEW r \in Requests,
           NEW read, read = {v} \/ read = g.secret
    PROVE  Sane([g EXCEPT !.pc = "fetch", !.req = r, !.waited = 0, !.secret = read], v)
<1> DEFINE h == [g EXCEPT !.pc = "fetch", !.req = r, !.waited = 0, !.secret = read]
<1>1. g \in Container /\ \A t \in g.token \cup g.coming : t.left \in Nat /\ t.life \in Lifetimes
  BY DEF Sane, Container, Tokens
<1>2. h \in Container
  BY <1>1, GatewayAssumption DEF Sane, Container, Tokens
<1>3. /\ h.pc = "fetch" /\ h.waited = 0 /\ h.req = r /\ h.secret = read
      /\ h.token = g.token /\ h.coming = g.coming /\ h.refresh = g.refresh
  BY <1>1 DEF Container
<1> HIDE DEF h
<1>4. Bounded(h, v)
  BY <1>1, <1>2, <1>3, GatewayAssumption DEF Sane, Container, Bounded, Aged, LimitOf
<1>5. Aged(h)
  BY <1>1, <1>2, <1>3, GatewayAssumption DEF Sane, Container, Bounded, Aged, LimitOf
<1> QED BY <1>2, <1>4, <1>5 DEF Sane, h

LEMMA IssueSane ==
    ASSUME NEW v \in Nat, NEW g, Sane(g, v), g.pc = "fetch", NEW life \in Lifetimes
    PROVE  Sane([g EXCEPT !.pc = "issued", !.coming = {[left |-> life, life |-> life]}], v)
<1> DEFINE h == [g EXCEPT !.pc = "issued", !.coming = {[left |-> life, life |-> life]}]
<1>1. g \in Container /\ \A t \in g.token \cup g.coming : t.left \in Nat /\ t.life \in Lifetimes
  BY DEF Sane, Container, Tokens
<1>2. h \in Container
  <2>1. life \in Nat
    BY GatewayAssumption
  <2>2. {[left |-> life, life |-> life]} \in SUBSET Tokens
    BY <2>1 DEF Tokens
  <2> QED BY <1>1, <2>2 DEF Container
<1>3. /\ h.pc = "issued" /\ h.coming = {[left |-> life, life |-> life]}
      /\ h.token = g.token /\ h.refresh = g.refresh /\ h.secret = g.secret /\ h.waited = g.waited
      /\ h.req = g.req
  BY <1>1 DEF Container
<1> HIDE DEF h
<1>4. Bounded(h, v)
  BY <1>1, <1>2, <1>3, GatewayAssumption DEF Sane, Container, Bounded, Aged, LimitOf
<1>5. Aged(h)
  BY <1>1, <1>2, <1>3, GatewayAssumption DEF Sane, Container, Bounded, Aged, LimitOf
<1> QED BY <1>2, <1>4, <1>5 DEF Sane, h

\* The margin covers the wait for the token and the way to the agent.
LEMMA ArriveSane ==
    ASSUME NEW v \in Nat, NEW g, Sane(g, v), g.pc = "issued", NEW t \in g.coming
    PROVE  Sane([g EXCEPT !.pc = "transit", !.waited = 0, !.coming = {},
                          !.token = {t}, !.refresh = RefreshAfter(t.life)], v)
<1> DEFINE h == [g EXCEPT !.pc = "transit", !.waited = 0, !.coming = {},
                             !.token = {t}, !.refresh = RefreshAfter(t.life)]
<1>1. g \in Container /\ \A u \in g.token \cup g.coming : u.left \in Nat /\ u.life \in Lifetimes
  BY DEF Sane, Container, Tokens
<1>2. h \in Container
  <2>1. t.life \in Nat /\ Margin \in Nat
    BY <1>1, GatewayAssumption
  <2>3. RefreshAfter(t.life) \in Nat
    BY <2>1 DEF RefreshAfter
  <2>2. {t} \in SUBSET Tokens /\ {} \in SUBSET Tokens
    BY <1>1 DEF Container
  <2> QED BY <1>1, <2>2, <2>3 DEF Container
<1>3. /\ h.pc = "transit" /\ h.waited = 0 /\ h.coming = {} /\ h.token = {t}
      /\ h.refresh = RefreshAfter(t.life)
      /\ h.secret = g.secret /\ h.req = g.req
  BY <1>1 DEF Container
<1> HIDE DEF h
<1>4. Bounded(h, v)
  BY <1>1, <1>2, <1>3, GatewayAssumption DEF Sane, Container, Bounded, Aged, LimitOf
<1>5. Aged(h)
  BY <1>1, <1>2, <1>3, GatewayAssumption DEF Sane, Container, Bounded, Aged, LimitOf, RefreshAfter
<1> QED BY <1>2, <1>4, <1>5 DEF Sane, h

LEMMA InvokeSane ==
    ASSUME NEW v \in Nat, NEW g, Sane(g, v), g.pc = "transit"
    PROVE  Sane([g EXCEPT !.pc = "invoke"], v)
<1> DEFINE h == [g EXCEPT !.pc = "invoke"]
<1>1. g \in Container /\ \A t \in g.token \cup g.coming : t.left \in Nat /\ t.life \in Lifetimes
  BY DEF Sane, Container, Tokens
<1>2. h \in Container
  BY <1>1, GatewayAssumption DEF Sane, Container, Tokens
<1>3. /\ h.pc = "invoke"
      /\ h.token = g.token /\ h.coming = g.coming /\ h.refresh = g.refresh /\ h.secret = g.secret /\ h.waited = g.waited
      /\ h.req = g.req
  BY <1>1 DEF Container
<1> HIDE DEF h
<1>4. Bounded(h, v)
  BY <1>1, <1>2, <1>3, GatewayAssumption DEF Sane, Container, Bounded, Aged, LimitOf
<1>5. Aged(h)
  BY <1>1, <1>2, <1>3, GatewayAssumption DEF Sane, Container, Bounded, Aged, LimitOf
<1> QED BY <1>2, <1>4, <1>5 DEF Sane, h

Older(T) == {[t EXCEPT !.left = Down(@)] : t \in T}

Ticked(g) ==
    [g EXCEPT !.waited = IF g.pc = "idle" THEN 0 ELSE @ + 1, !.refresh = Down(@),
              !.token = Older(@), !.coming = Older(@)]

LEMMA TickSane ==
    ASSUME NEW v \in Nat, NEW g, Sane(g, v), g.pc = "idle" \/ g.waited < LimitOf(g.pc)
    PROVE  Sane(Ticked(g), v)
<1>1. \A T \in SUBSET Tokens :
         /\ Older(T) \in SUBSET Tokens
         /\ T # {} => Older(T) # {}
         /\ \A u \in Older(T) : \E t \in T : u.life = t.life /\ u.left = Down(t.left)
  <2> SUFFICES ASSUME NEW T \in SUBSET Tokens
               PROVE  /\ Older(T) \in SUBSET Tokens
                      /\ T # {} => Older(T) # {}
                      /\ \A u \in Older(T) : \E t \in T : u.life = t.life /\ u.left = Down(t.left)
    OBVIOUS
  <2>1. ASSUME NEW t \in T
        PROVE  LET u == [t EXCEPT !.left = Down(@)]
               IN  u \in Tokens /\ u.life = t.life /\ u.left = Down(t.left)
    BY DEF Tokens, Down
  <2> QED BY <2>1 DEF Older
<1>2. /\ Ticked(g) \in Container
      /\ Ticked(g).pc = g.pc /\ Ticked(g).refresh = Down(g.refresh)
      /\ Ticked(g).token = Older(g.token) /\ Ticked(g).coming = Older(g.coming)
      /\ Ticked(g).waited = IF g.pc = "idle" THEN 0 ELSE g.waited + 1
      /\ Ticked(g).secret = g.secret /\ Ticked(g).req = g.req
  <2>1. g \in Container /\ Older(g.token) \in SUBSET Tokens /\ Older(g.coming) \in SUBSET Tokens
    BY <1>1 DEF Sane, Container
  <2>2. Down(g.refresh) \in Nat /\ (IF g.pc = "idle" THEN 0 ELSE g.waited + 1) \in Nat
    BY <2>1 DEF Container, Down
  <2> QED BY <2>1, <2>2 DEF Container, Ticked
<1> DEFINE h == Ticked(g)
<1>3. g.token \in SUBSET Tokens /\ g.coming \in SUBSET Tokens /\ g.waited \in Nat /\ g.refresh \in Nat
  BY DEF Sane, Container
<1>4. Bounded(h, v)
  <2>1. h.waited <= LimitOf(h.pc)
    BY <1>2, <1>3, LimitNat DEF Sane, Bounded
  <2>2. \A t \in h.token \cup h.coming : t.left <= t.life
    <3>1. \A t \in Tokens : t.left <= t.life => Down(t.left) <= t.life
      <4> SUFFICES ASSUME NEW t \in Tokens, t.left <= t.life PROVE Down(t.left) <= t.life
        OBVIOUS
      <4>1. t.left \in Nat /\ t.life \in Nat
        BY GatewayAssumption DEF Tokens
      <4> QED BY <4>1 DEF Down
    <3> QED BY <1>1, <1>2, <1>3, <3>1 DEF Sane, Bounded
  <2> QED BY <1>2, <2>1, <2>2 DEF Sane, Bounded
<1>5. h.refresh > 0 => \A t \in h.token : t.left >= h.refresh + Transit
  BY <1>1, <1>2, <1>3, GatewayAssumption DEF Sane, Aged, Down, Tokens
<1>6. \A t \in h.coming : h.pc = "issued" /\ t.left + h.waited >= t.life
  BY <1>1, <1>2, <1>3, GatewayAssumption DEF Sane, Aged, Bounded, Down, Tokens, LimitOf
<1>7. h.pc = "transit" => h.token # {} /\ \A t \in h.token : t.left + h.waited > Transit
  BY <1>1, <1>2, <1>3, GatewayAssumption DEF Sane, Aged, Bounded, Down, Tokens, LimitOf
<1> QED BY <1>2, <1>4, <1>5, <1>6, <1>7 DEF Sane, Aged
-----------------------------------------------------------------------------
(* The type invariant and the tokens.                                      *)

Buyers == {"idle", "waiting", "retry", "limited", "accepted", "failed", "refused"}

LEMMA ConclusionTyped == \A r, status, code : Conclusion(r, status, code) \in Buyers
  BY DEF Conclusion, Buyers

\* An answer leaves its container in order, and tells the buyer something.
LEMMA ReplySane ==
    ASSUME AllSane, Rest, secret' = secret, NEW c \in Containers, NEW status, NEW code,
           Reply(c, status, code)
    PROVE  AllSane' /\ buyer' \in [Requests -> Buyers]
<1>1. secret \in Nat
  BY DEF Rest
<1>2. Sane(gw[c], secret)
  BY DEF AllSane
<1> DEFINE g == [gw[c] EXCEPT !.pc = "idle", !.req = None, !.waited = 0, !.coming = {}]
<1>3. Sane(g, secret)
  BY <1>1, <1>2, IdleSane, Zenon
<1>4. gw' = [gw EXCEPT ![c] = g]
  BY DEF Reply
<1>5. AllSane'
  <2> HIDE DEF g
  <2> QED BY <1>3, <1>4, OneSane, Zenon
<1>6. buyer' \in [Requests -> Buyers]
  BY ConclusionTyped DEF Reply, Rest, Buyers
<1> QED BY <1>5, <1>6

\* A change of one session keeps the type of all.
LEMMA DoneTyped ==
    ASSUME Rest, NEW s \in Sessions, NEW code \in Codes, Done(s, code)
    PROVE  run' \in [Sessions -> Session]
<1> DEFINE z == [run[s] EXCEPT !.pc = "done", !.code = code]
<1>1. run' = [run EXCEPT ![s] = z] /\ run \in [Sessions -> Session]
  BY DEF Done, Rest
<1>2. z \in Session
  BY <1>1 DEF Session
<1> HIDE DEF z
<1> QED BY <1>1, <1>2

LEMMA FreeTyped == Free \in Session
  BY DEF Free, Session, Codes

LEMMA FaultTyped ==
    ASSUME Rest, Fault
    PROVE  faults' \in 0..MaxFaults /\ faults < faults' /\ secret \in 0..faults'
  BY GatewayAssumption DEF Rest, Fault

LEMMA SaneInit == Init => AllSane /\ Rest
<1> SUFFICES ASSUME Init PROVE AllSane /\ Rest
  OBVIOUS
<1>1. Sane(Cold, 0)
  BY ColdSane
<1>2. gw = [c \in Containers |-> Cold] /\ secret = 0 /\ Cold \in Container
  BY <1>1 DEF Init, Sane
<1>3. gw \in [Containers -> Container] /\ \A c \in Containers : gw[c] = Cold
  BY <1>2
<1>4. AllSane
  BY <1>1, <1>2, <1>3, Zenon DEF AllSane
<1>5. Rest
  BY FreeTyped, GatewayAssumption DEF Init, Rest
<1> QED BY <1>4, <1>5

\* One case per action.
LEMMA SaneStep == AllSane /\ Rest /\ [Next]_vars => AllSane' /\ Rest'
<1> SUFFICES ASSUME AllSane, Rest, [Next]_vars PROVE AllSane' /\ Rest'
  OBVIOUS
<1>0. secret \in Nat /\ \A c \in Containers : Sane(gw[c], secret)
  BY DEF AllSane, Rest
<1>1. CASE UNCHANGED vars
  BY <1>1 DEF vars, AllSane, Rest
<1>2. ASSUME NEW c \in Containers, NEW r \in Requests, Receive(c, r) PROVE AllSane' /\ Rest'
  <2>1. Rest'
    BY <1>2 DEF Receive, Rest
  <2> DEFINE h == [gw[c] EXCEPT !.pc = "transit", !.req = r, !.waited = 0]
  <2> DEFINE k(read) == [gw[c] EXCEPT !.pc = "fetch", !.req = r, !.waited = 0, !.secret = read]
  <2>2. gw[c].pc = "idle" /\ secret' = secret
    BY <1>2 DEF Receive, Is
  <2>3. PICK read : /\ read = {secret} \/ read = gw[c].secret
                    /\ gw' = [gw EXCEPT ![c] = IF CacheHit(gw[c]) THEN h ELSE k(read)]
    BY <1>2, Zenon DEF Receive
  <2>4. CacheHit(gw[c]) => Sane(h, secret)
    BY <1>0, <2>2, HitSane, Zenon
  <2>5. Sane(k(read), secret)
    BY <1>0, <2>2, <2>3, FetchSane, Zenon
  <2> HIDE DEF h, k
  <2>6. CASE CacheHit(gw[c])
    <3>1. gw' = [gw EXCEPT ![c] = h]
      BY <2>3, <2>6
    <3> QED BY <2>1, <2>2, <2>4, <2>6, <3>1, OneSane
  <2>7. CASE ~CacheHit(gw[c])
    <3>1. gw' = [gw EXCEPT ![c] = k(read)]
      BY <2>3, <2>7
    <3> QED BY <2>1, <2>2, <2>5, <3>1, OneSane
  <2> QED BY <2>6, <2>7
<1>3. ASSUME NEW c \in Containers, NEW r \in Requests, Refuse(c, r) PROVE AllSane' /\ Rest'
  <2>1. PICK status : buyer' = [buyer EXCEPT ![r] = Conclusion(r, status, "none")]
    BY <1>3, ZenonT(60) DEF Refuse
  <2> QED BY <1>3, <2>1, ConclusionTyped DEF Refuse, AllSane, Rest, Buyers
<1>4. ASSUME NEW c \in Containers, NEW r \in Requests, SecretUnavailable(c, r)
      PROVE  AllSane' /\ Rest'
  <2>1. AllSane'
    BY <1>4 DEF SecretUnavailable, AllSane
  <2>2. Rest'
    BY <1>4, FaultTyped, ConclusionTyped DEF SecretUnavailable, Rest, Buyers
  <2> QED BY <2>1, <2>2
<1>5. ASSUME NEW c \in Containers, Issue(c) PROVE AllSane' /\ Rest'
  <2> DEFINE h(life) == [gw[c] EXCEPT !.pc = "issued", !.coming = {[left |-> life, life |-> life]}]
  <2>1. PICK life \in Lifetimes : gw' = [gw EXCEPT ![c] = h(life)]
    BY <1>5 DEF Issue
  <2>2. gw[c].pc = "fetch" /\ secret' = secret
    BY <1>5 DEF Issue, Is
  <2>3. Sane(h(life), secret)
    BY <1>0, <2>2, IssueSane, Zenon
  <2>4. AllSane'
    <3> HIDE DEF h
    <3> QED BY <2>1, <2>2, <2>3, OneSane
  <2> QED BY <1>5, <2>4 DEF Issue, Rest
<1>6. ASSUME NEW c \in Containers, TokenArrives(c) PROVE AllSane' /\ Rest'
  <2> DEFINE h(t) == [gw[c] EXCEPT !.pc = "transit", !.waited = 0, !.coming = {},
                                   !.token = {t}, !.refresh = RefreshAfter(t.life)]
  <2>1. PICK t \in gw[c].coming : gw' = [gw EXCEPT ![c] = h(t)]
    BY <1>6 DEF TokenArrives
  <2>2. gw[c].pc = "issued" /\ secret' = secret
    BY <1>6 DEF TokenArrives, Is
  <2>3. Sane(h(t), secret)
    BY <1>0, <2>2, ArriveSane, Zenon
  <2>4. AllSane'
    <3> HIDE DEF h
    <3> QED BY <2>1, <2>2, <2>3, OneSane
  <2> QED BY <1>6, <2>4 DEF TokenArrives, Rest
<1>7. ASSUME NEW c \in Containers, TokenFails(c) PROVE AllSane' /\ Rest'
  BY <1>7, ReplySane, FaultTyped DEF TokenFails, NoFault, Rest, Buyers
<1>8. ASSUME NEW c \in Containers, InvokeFails(c) PROVE AllSane' /\ Rest'
  BY <1>8, ReplySane, FaultTyped DEF InvokeFails, NoFault, Rest, Buyers
<1>9. ASSUME NEW c \in Containers, GiveUp(c) PROVE AllSane' /\ Rest'
  <2>1. AllSane' /\ buyer' \in [Requests -> Buyers]
    BY <1>9, ReplySane DEF GiveUp
  <2>2. run' \in [Sessions -> Session]
    BY <1>9 DEF GiveUp, Detach, Rest, Session
  <2> QED BY <1>9, <2>1, <2>2, FaultTyped DEF GiveUp, Rest, Buyers
<1>10. ASSUME NEW c \in Containers, NEW s \in Sessions, Invoke(c, s) PROVE AllSane' /\ Rest'
  <2> DEFINE h == [gw[c] EXCEPT !.pc = "invoke"]
  <2>1. gw[c].pc = "transit" /\ gw' = [gw EXCEPT ![c] = h] /\ secret' = secret
    BY <1>10 DEF Invoke, Is
  <2>2. Sane(h, secret)
    BY <1>0, <2>1, InvokeSane, Zenon
  <2>3. AllSane'
    <3> HIDE DEF h
    <3> QED BY <2>1, <2>2, OneSane
  <2>4. run' \in [Sessions -> Session]
    <3>1. PICK flaw \in Passing(gw[c].req) :
             run' = [run EXCEPT ![s] = [Free EXCEPT !.pc = "begin", !.req = gw[c].req,
                                                    !.flaw = flaw, !.caller = c]]
      BY <1>10 DEF Invoke
    <3>2. flaw \in AgentFlaws \cup {"none"} /\ gw[c].req \in Requests \cup {None}
      <4>1. gw[c].req \in Requests
        BY <1>0, <2>1 DEF Sane, Bounded
      <4>2. Flaws[gw[c].req] \subseteq GatewayFlaws \cup AgentFlaws \cup {"none"}
        BY <4>1, GatewayAssumption
      <4> QED BY <3>1, <4>1, <4>2 DEF Passing
    <3> QED BY <3>1, <3>2, FreeTyped DEF Session, Free, Rest
  <2> QED BY <1>10, <2>3, <2>4 DEF Invoke, Rest
<1>11. ASSUME NEW c \in Containers, NEW s \in Sessions, Return(c, s) PROVE AllSane' /\ Rest'
  <2>1. AllSane' /\ buyer' \in [Requests -> Buyers]
    BY <1>11, ReplySane DEF Return
  <2>2. run' \in [Sessions -> Session]
    BY <1>11, FreeTyped DEF Return, Rest
  <2> QED BY <1>11, <2>1, <2>2, FaultTyped DEF Return, NoFault, Rest, Buyers
<1>12. ASSUME NEW c \in Containers, Recycle(c) PROVE AllSane' /\ Rest'
  <2>1. Sane(Cold, secret)
    BY <1>0, ColdSane
  <2>2. AllSane'
    BY <1>12, <2>1, OneSane DEF Recycle
  <2> QED BY <1>12, <2>2 DEF Recycle, Rest
<1>13. ASSUME NEW s \in Sessions, Agent(s) PROVE AllSane' /\ Rest'
  <2>1. AllSane'
    BY <1>13 DEF AllSane, Agent, RefuseAtAgent, View, Admit, Resume, Post, Settled,
           RejectUnasked, Unsettled, Drop
  <2>2. CASE RefuseAtAgent(s)
    BY <2>1, <2>2, DoneTyped DEF RefuseAtAgent, Rest, Codes
  <2>3. CASE View(s)
    BY <2>1, <2>3, DoneTyped DEF View, Rest, Codes
  <2>4. CASE Admit(s)
    <3>1. run' \in [Sessions -> Session]
      BY <2>4, DoneTyped DEF Admit, Rest, Session, Codes
    <3>2. job' \in [Payments -> {"none", "settling", "paid", "rejected"}]
      BY <2>4 DEF Admit, Rest
    <3> QED BY <2>1, <2>4, <3>1, <3>2, FaultTyped DEF Admit, NoFault, Rest
  <2>5. CASE Resume(s)
    <3>1. run' \in [Sessions -> Session]
      <4>1. ASSUME NEW code \in {"accepted", "job_failed", "unavailable"}, Done(s, code)
            PROVE  run' \in [Sessions -> Session]
        BY <4>1, DoneTyped DEF Codes
      <4>2. CASE run' = [run EXCEPT ![s].pc = "settle"]
        BY <4>2 DEF Rest, Session
      <4> QED BY <2>5, <4>1, <4>2 DEF Resume
    <3> QED BY <2>1, <2>5, <3>1, FaultTyped DEF Resume, NoFault, Rest
  <2>6. CASE Post(s)
    BY <2>1, <2>6, ZenonT(60) DEF Post, Rest, Session
  <2>7. CASE Settled(s)
    BY <2>1, <2>7, DoneTyped DEF Settled, Rest, Codes
  <2>8. CASE Unsettled(s)
    BY <2>1, <2>8, DoneTyped, FaultTyped DEF Unsettled, Rest, Codes
  <2>10. CASE RejectUnasked(s)
    BY <2>1, <2>10, DoneTyped DEF RejectUnasked, Rest, Codes
  <2>9. CASE Drop(s)
    BY <2>1, <2>9, FreeTyped DEF Drop, Rest
  <2> QED BY <1>13, <2>2, <2>3, <2>4, <2>5, <2>6, <2>7, <2>8, <2>9, <2>10 DEF Agent
<1>14. ASSUME NEW p \in Payments, Decide(p) \/ Expire(p) PROVE AllSane' /\ Rest'
  BY <1>14 DEF Decide, Expire, AllSane, Rest
<1>15. CASE Tick
  <2>1. gw' = [c \in Containers |-> Ticked(gw[c])] /\ secret' = secret
    BY <1>15 DEF Tick, Ticked, Older, Is
  <2>2. \A c \in Containers : gw[c].pc = "idle" \/ gw[c].waited < LimitOf(gw[c].pc)
    BY <1>15 DEF Tick, Is, Limit, LimitOf
  <2>3. \A c \in Containers : Sane(Ticked(gw[c]), secret)
    BY <1>0, <2>2, TickSane, Zenon
  <2>4. \A c \in Containers : Ticked(gw[c]) \in Container
    BY <2>3 DEF Sane
  <2>5. AllSane'
    <3> HIDE DEF Ticked
    <3> QED BY <2>1, <2>3, <2>4 DEF AllSane
  <2> QED BY <1>15, <2>5 DEF Tick, Rest
<1>16. CASE RotateSecret
  <2>1. secret' = secret + 1 /\ gw' = gw
    BY <1>16 DEF RotateSecret
  <2>2. \A c \in Containers : Sane(gw[c], secret + 1)
    BY <1>0 DEF Sane, Bounded, Container
  <2>3. AllSane'
    BY <2>1, <2>2 DEF AllSane
  <2> QED BY <1>16, <2>3, GatewayAssumption DEF RotateSecret, Fault, Rest
<1> QED
  BY <1>1, <1>2, <1>3, <1>4, <1>5, <1>6, <1>7, <1>8, <1>9, <1>10, <1>11, <1>12, <1>13,
     <1>14, <1>15, <1>16 DEF Next, Arrive, Lambda
-----------------------------------------------------------------------------
(* Containers and the sessions they wait for.                              *)

\* What the other invariants need of the types.
Shapes ==
    /\ gw \in [Containers -> Container] /\ run \in [Sessions -> Session]
    /\ \A c \in Containers : ~Is(c, "idle") => gw[c].req \in Requests
    /\ job \in [Payments -> {"none", "settling", "paid", "rejected"}]
    /\ charge \in [Payments -> {"none", "posted", "paid", "refused", "void"}]
    /\ buyer \in [Requests -> Buyers]

LEMMA TypeGivesShapes == AllSane /\ Rest => Shapes
  BY DEF AllSane, Rest, Shapes, Sane, Bounded, Is, Buyers

\* A container may change at will once nobody has it for a caller.
LEMMA DetachMatch ==
    ASSUME Shapes, CallersMatch, NEW c \in Containers, NEW g, gw' = [gw EXCEPT ![c] = g],
           run' = [s \in Sessions |-> Detach(c, s)]
    PROVE  CallersMatch'
<1>1. \A d \in Containers : d # c => gw'[d] = gw[d]
  BY DEF Shapes
<1>2. ASSUME NEW s \in Sessions
      PROVE  /\ run'[s].pc = run[s].pc /\ run'[s].req = run[s].req /\ run'[s].flaw = run[s].flaw
             /\ run'[s].caller # None => run'[s].caller = run[s].caller /\ run[s].caller # c
  BY DEF Shapes, Session, Detach
<1>3. \A s \in Sessions : run[s].caller \in Containers \cup {None}
  BY DEF Shapes, Session
<1> QED BY <1>1, <1>2, <1>3 DEF CallersMatch, Is

\* Nobody waits in a container that has not invoked the agent.
LEMMA NotCaller ==
    ASSUME Shapes, CallersMatch, NEW c \in Containers, ~Is(c, "invoke"), run' = run
    PROVE  run' = [s \in Sessions |-> Detach(c, s)]
<1>1. c # None
  BY GatewayAssumption
<1>2. \A s \in Sessions : Detach(c, s) = run[s]
  BY <1>1 DEF CallersMatch, Detach
<1> QED BY <1>2 DEF Shapes

LEMMA ReplyMatch ==
    ASSUME Shapes, CallersMatch, NEW c \in Containers, NEW status, NEW code, Reply(c, status, code),
           run' = [s \in Sessions |-> Detach(c, s)]
    PROVE  CallersMatch'
  BY DetachMatch DEF Reply

\* A step of one session under way keeps whose request it is.
LEMMA SessionMatch ==
    ASSUME Shapes, CallersMatch, gw' = gw, NEW s \in Sessions,
           \A z \in Sessions : z # s => run'[z] = run[z],
           \/ /\ run'[s].pc # "free" /\ run[s].pc # "free"
              /\ run'[s].req = run[s].req /\ run'[s].flaw = run[s].flaw
              /\ run'[s].caller = run[s].caller
           \/ run'[s] = Free
    PROVE  CallersMatch'
  BY DEF CallersMatch, Is, Free

\* What a step of a session does to the sessions.
LEMMA AgentRuns ==
    ASSUME Shapes, NEW s \in Sessions, Agent(s)
    PROVE  /\ gw' = gw
           /\ \A z \in Sessions : z # s => run'[z] = run[z]
           /\ \/ /\ run'[s].pc # "free" /\ run[s].pc # "free"
                 /\ run'[s].req = run[s].req /\ run'[s].flaw = run[s].flaw
                 /\ run'[s].caller = run[s].caller
              \/ run'[s] = Free
<1>1. \A code : Done(s, code) =>
         /\ \A z \in Sessions : z # s => run'[z] = run[z]
         /\ run'[s].pc = "done" /\ run'[s].req = run[s].req /\ run'[s].flaw = run[s].flaw
         /\ run'[s].caller = run[s].caller
  BY DEF Done, Shapes, Session
<1>2. \A q : run' = [run EXCEPT ![s].pc = q] =>
         /\ \A z \in Sessions : z # s => run'[z] = run[z]
         /\ run'[s].pc = q /\ run'[s].req = run[s].req /\ run'[s].flaw = run[s].flaw
         /\ run'[s].caller = run[s].caller
  BY DEF Shapes, Session
<1>3. CASE RefuseAtAgent(s)
  BY <1>1, <1>3 DEF RefuseAtAgent
<1>4. CASE View(s)
  BY <1>1, <1>4 DEF View, Sound
<1>5. CASE Admit(s)
  BY <1>1, <1>2, <1>5 DEF Admit, Sound
<1>6. CASE Resume(s)
  BY <1>1, <1>2, <1>6 DEF Resume, Sound
<1>7. CASE Post(s)
  BY <1>2, <1>7 DEF Post
<1>8. CASE Settled(s)
  BY <1>1, <1>8 DEF Settled
<1>9. CASE Unsettled(s)
  BY <1>1, <1>9 DEF Unsettled
<1>10. CASE Drop(s)
  BY <1>10 DEF Drop, Shapes
<1>11. CASE RejectUnasked(s)
  BY <1>1, <1>11 DEF RejectUnasked
<1> QED BY <1>3, <1>4, <1>5, <1>6, <1>7, <1>8, <1>9, <1>10, <1>11 DEF Agent

\* One case per action.
LEMMA CallersStep == Shapes /\ CallersMatch /\ [Next]_vars => CallersMatch'
<1> SUFFICES ASSUME Shapes, CallersMatch, [Next]_vars PROVE CallersMatch'
  OBVIOUS
<1>0. ASSUME NEW c \in Containers, NEW g, gw' = [gw EXCEPT ![c] = g], run' = run, ~Is(c, "invoke")
      PROVE  CallersMatch'
  BY <1>0, NotCaller, DetachMatch
<1>1. CASE gw' = gw /\ run' = run
  BY <1>1 DEF CallersMatch, Is
<1>2. ASSUME NEW c \in Containers, Arrive(c) \/ Recycle(c) PROVE CallersMatch'
  <2>1. CASE \E r \in Requests : Receive(c, r)
    <3>1. Is(c, "idle") /\ run' = run /\ \E g : gw' = [gw EXCEPT ![c] = g]
      BY <2>1 DEF Receive
    <3> QED BY <1>0, <3>1 DEF Is
  <2>2. CASE \E r \in Requests : Refuse(c, r) \/ SecretUnavailable(c, r)
    BY <1>1, <2>2 DEF Refuse, SecretUnavailable
  <2>3. CASE Recycle(c)
    BY <1>0, <2>3 DEF Recycle, Is
  <2> QED BY <1>2, <2>1, <2>2, <2>3 DEF Arrive
<1>3. ASSUME NEW c \in Containers, Issue(c) \/ TokenArrives(c) PROVE CallersMatch'
  <2>1. ~Is(c, "invoke") /\ run' = run /\ \E g : gw' = [gw EXCEPT ![c] = g]
    BY <1>3 DEF Issue, TokenArrives, Is
  <2> QED BY <1>0, <2>1
<1>4. ASSUME NEW c \in Containers, TokenFails(c) \/ InvokeFails(c) PROVE CallersMatch'
  <2>1. ~Is(c, "invoke") /\ run' = run /\ Reply(c, 503, "none")
    BY <1>4 DEF TokenFails, InvokeFails, Is
  <2> QED BY <2>1, NotCaller, ReplyMatch
<1>5. ASSUME NEW c \in Containers, GiveUp(c) PROVE CallersMatch'
  BY <1>5, ReplyMatch DEF GiveUp
<1>6. ASSUME NEW c \in Containers, NEW s \in Sessions, Invoke(c, s) PROVE CallersMatch'
  <2>1. PICK flaw \in Passing(gw[c].req) :
           run' = [run EXCEPT ![s] = [Free EXCEPT !.pc = "begin", !.req = gw[c].req,
                                                  !.flaw = flaw, !.caller = c]]
    BY <1>6 DEF Invoke
  <2>2. gw[c].req \in Requests /\ flaw \in Flaws[gw[c].req] /\ c # None
    BY <1>6, <2>1, GatewayAssumption DEF Invoke, Is, Shapes, Passing
  <2>3. /\ run'[s].pc = "begin" /\ run'[s].req = gw[c].req /\ run'[s].flaw = flaw
        /\ run'[s].caller = c
        /\ \A z \in Sessions : z # s => run'[z] = run[z]
    BY <2>1 DEF Shapes, Free
  <2>4. /\ gw'[c].pc = "invoke" /\ gw'[c].req = gw[c].req
        /\ \A d \in Containers : d # c => gw'[d] = gw[d]
    BY <1>6 DEF Invoke, Shapes, Container
  <2>5. \A z \in Sessions : run[z].caller # c /\ run[z].caller \in Containers \cup {None}
    BY <1>6, <2>2 DEF Invoke, Is, CallersMatch, Shapes, Session
  <2> QED BY <2>2, <2>3, <2>4, <2>5 DEF CallersMatch, Is
<1>7. ASSUME NEW c \in Containers, NEW s \in Sessions, Return(c, s) PROVE CallersMatch'
  <2>1. run[s].caller = c /\ run' = [run EXCEPT ![s] = Free] /\ c # None
    BY <1>7, GatewayAssumption DEF Return
  <2>2. \A d \in Containers : d # c => gw'[d] = gw[d]
    BY <1>7 DEF Return, Reply, Shapes
  <2>3. run'[s] = Free /\ \A z \in Sessions : z # s => run'[z] = run[z] /\ run[z].caller # c
    BY <2>1 DEF Shapes, CallersMatch
  <2>4. \A z \in Sessions : run[z].caller \in Containers \cup {None}
    BY DEF Shapes, Session
  <2> QED BY <2>2, <2>3, <2>4 DEF CallersMatch, Is, Free
<1>8. ASSUME NEW s \in Sessions, Agent(s) PROVE CallersMatch'
  BY <1>8, AgentRuns, SessionMatch
<1>9. CASE Tick
  <2>1. run' = run /\ \A c \in Containers : gw'[c].pc = gw[c].pc /\ gw'[c].req = gw[c].req
    BY <1>9, ZenonT(60) DEF Tick, Shapes, Container
  <2>2. \A z \in Sessions : run[z].caller \in Containers \cup {None}
    BY DEF Shapes, Session
  <2> QED BY <2>1, <2>2 DEF CallersMatch, Is
<1>10. CASE UNCHANGED vars \/ RotateSecret \/ \E p \in Payments : Decide(p) \/ Expire(p)
  BY <1>1, <1>10 DEF vars, RotateSecret, Decide, Expire
<1> QED
  BY <1>2, <1>3, <1>4, <1>5, <1>6, <1>7, <1>8, <1>9, <1>10 DEF Next, Lambda
-----------------------------------------------------------------------------
(* The records and the facilitator.                                        *)

\* A session past its begin is what it was before the step.
Kept(z) ==
    run'[z].pc \in {"settle", "posted", "done"} =>
      run'[z].pc = run[z].pc /\ run'[z].req = run[z].req /\ run'[z].code = run[z].code

\* No step of a container takes a session further than its begin.
LEMMA ContainerKeeps ==
    ASSUME Shapes, NEW c \in Containers, Arrive(c) \/ Lambda(c) \/ Recycle(c)
    PROVE  (\A z \in Sessions : Kept(z)) /\ job' = job /\ charge' = charge
<1>1. run' = run => \A z \in Sessions : Kept(z)
  BY DEF Kept
<1>2. CASE Arrive(c) \/ Recycle(c) \/ Issue(c) \/ TokenArrives(c) \/ TokenFails(c) \/ InvokeFails(c)
  BY <1>1, <1>2
     DEF Arrive, Receive, Refuse, SecretUnavailable, Recycle, Issue, TokenArrives, TokenFails,
         InvokeFails
<1>3. CASE GiveUp(c)
  <2>1. \A z \in Sessions : Kept(z)
    BY <1>3 DEF GiveUp, Detach, Kept, Shapes, Session
  <2> QED BY <1>3, <2>1 DEF GiveUp
<1>4. ASSUME NEW s \in Sessions, Invoke(c, s) PROVE (\A z \in Sessions : Kept(z)) /\ job' = job /\ charge' = charge
  BY <1>4 DEF Invoke, Kept, Shapes, Free
<1>5. ASSUME NEW s \in Sessions, Return(c, s) PROVE (\A z \in Sessions : Kept(z)) /\ job' = job /\ charge' = charge
  BY <1>5 DEF Return, Kept, Shapes, Free
<1> QED BY <1>2, <1>3, <1>4, <1>5 DEF Lambda

LEMMA RecordsKept ==
    ASSUME RecordsMatch, \A z \in Sessions : Kept(z), job' = job, charge' = charge
    PROVE  RecordsMatch'
  BY DEF RecordsMatch, Kept, Settles

\* What the end of a session does to the sessions.
LEMMA DoneRuns ==
    ASSUME Shapes, NEW s \in Sessions, NEW code, Done(s, code)
    PROVE  /\ run'[s].pc = "done" /\ run'[s].req = run[s].req /\ run'[s].code = code
           /\ \A z \in Sessions : z # s => run'[z] = run[z]
  BY DEF Done, Shapes, Session

LEMMA MoveRuns ==
    ASSUME Shapes, NEW s \in Sessions, NEW q, run' = [run EXCEPT ![s].pc = q]
    PROVE  /\ run'[s].pc = q /\ run'[s].req = run[s].req
           /\ \A z \in Sessions : z # s => run'[z] = run[z]
  BY DEF Shapes, Session

\* The two halves of RecordsMatch: a record and the money, and a session at work.
RecordOf(p) ==
    /\ job[p] = "none" => charge[p] \in {"none", "void"}
    /\ job[p] = "rejected" => charge[p] \in {"none", "refused", "void"} \/ p \in RotatedLate
    /\ job[p] = "paid" => charge[p] = "paid"
    /\ job[p] # "none" => "none" \in Flaws[p]

SettlerOf(s) ==
    run[s].pc \in {"settle", "posted"} =>
      /\ run[s].req \in Payments /\ job[run[s].req] = "settling"
      /\ run[s].pc = "posted" => charge[run[s].req] # "none"
      /\ \A z \in Sessions : Settles(z, run[s].req) => s = z

LEMMA RecordsSplit ==
    RecordsMatch <=> (\A p \in Payments : RecordOf(p)) /\ (\A s \in Sessions : SettlerOf(s))
  BY Zenon DEF RecordsMatch, RecordOf, SettlerOf

\* A step that ends or frees session s, touching no record but its own.
LEMMA RecordsDone ==
    ASSUME RecordsMatch, NEW s \in Sessions, run'[s].pc \notin {"settle", "posted"},
           \A z \in Sessions : z # s => run'[z] = run[z],
           charge' = charge,
           \/ job' = job
           \/ /\ run[s].pc \in {"settle", "posted"} /\ run'[s].req = run[s].req
              /\ \A q \in Payments : q # run[s].req => job'[q] = job[q]
              /\ RecordOf(run[s].req)'
    PROVE  RecordsMatch'
<1>1. ASSUME NEW p \in Payments PROVE RecordOf(p)'
  BY <1>1, RecordsSplit DEF RecordOf
<1>2. ASSUME NEW z \in Sessions PROVE SettlerOf(z)'
  <2>1. CASE z = s
    BY <2>1 DEF SettlerOf
  <2>2. CASE z # s
    <3>1. SettlerOf(z) /\ SettlerOf(s) /\ run'[z] = run[z]
      BY <2>2, RecordsSplit
    <3>2. run[z].pc \in {"settle", "posted"} => job'[run[z].req] = job[run[z].req]
      BY <2>2, <3>1 DEF SettlerOf, Settles
    <3>3. \A y \in Sessions : Settles(y, run[z].req)' => Settles(y, run[z].req)
      BY <2>2, <3>1 DEF Settles
    <3> QED BY <3>1, <3>2, <3>3 DEF SettlerOf
  <2> QED BY <2>1, <2>2
<1> QED BY <1>1, <1>2, Zenon DEF RecordsMatch, RecordOf, SettlerOf

\* A step of session s to the settlement, or on with it.
LEMMA RecordsMove ==
    ASSUME RecordsMatch, NEW s \in Sessions, run'[s].req = run[s].req, run'[s].pc \in {"settle", "posted"},
           run[s].req \in Payments,
           \A z \in Sessions : z # s => run'[z] = run[z] /\ ~Settles(z, run[s].req),
           \A q \in Payments : q # run[s].req => job'[q] = job[q] /\ charge'[q] = charge[q],
           job'[run[s].req] = "settling", "none" \in Flaws[run[s].req],
           run'[s].pc = "posted" => charge'[run[s].req] # "none"
    PROVE  RecordsMatch'
<1>1. ASSUME NEW p \in Payments PROVE RecordOf(p)'
  BY <1>1, RecordsSplit DEF RecordOf
<1>2. ASSUME NEW z \in Sessions PROVE SettlerOf(z)'
  <2>1. CASE z = s
    <3>1. \A y \in Sessions : y # s => ~Settles(y, run[s].req)'
      BY DEF Settles
    <3> QED BY <2>1, <3>1 DEF SettlerOf
  <2>2. CASE z # s
    <3>1. SettlerOf(z) /\ run'[z] = run[z] /\ ~Settles(z, run[s].req)
      BY <2>2, RecordsSplit
    <3>2. run[z].pc \in {"settle", "posted"} => run[z].req # run[s].req
      BY <3>1 DEF Settles
    <3>3. \A y \in Sessions : run[z].req # run[s].req /\ Settles(y, run[z].req)' => Settles(y, run[z].req)
      BY DEF Settles
    <3> QED BY <3>1, <3>2, <3>3 DEF SettlerOf
  <2> QED BY <2>1, <2>2
<1> QED BY <1>1, <1>2, Zenon DEF RecordsMatch, RecordOf, SettlerOf

\* One case per action that touches a record, a settlement or its session.
LEMMA RecordsStep == Shapes /\ CallersMatch /\ RecordsMatch /\ [Next]_vars => RecordsMatch'
<1> SUFFICES ASSUME Shapes, CallersMatch, RecordsMatch, [Next]_vars PROVE RecordsMatch'
  OBVIOUS
<1>0. (\A p \in Payments : RecordOf(p)) /\ (\A s \in Sessions : SettlerOf(s))
  BY RecordsSplit
<1>1. ASSUME NEW c \in Containers, Arrive(c) \/ Lambda(c) \/ Recycle(c) PROVE RecordsMatch'
  BY <1>1, ContainerKeeps, RecordsKept
<1>2. CASE UNCHANGED vars \/ Tick \/ RotateSecret
  <2>1. run' = run /\ job' = job /\ charge' = charge
    BY <1>2 DEF vars, Tick, RotateSecret
  <2> QED BY <2>1, RecordsKept DEF Kept
<1>3. ASSUME NEW p \in Payments, Decide(p) \/ Expire(p) PROVE RecordsMatch'
  <2>1. /\ charge[p] \in {"posted", "none", "refused"} /\ run' = run /\ job' = job
        /\ charge[p] = "none" => charge'[p] = "void"
    BY <1>3 DEF Decide, Expire, Shapes
  <2>2. /\ charge'[p] = "void" \/ (charge[p] = "posted" /\ charge'[p] \in {"paid", "refused"})
        /\ \A q \in Payments : q # p => charge'[q] = charge[q]
    BY <1>3 DEF Decide, Expire, Shapes
  <2>3. ASSUME NEW q \in Payments PROVE RecordOf(q)'
    BY <1>0, <2>1, <2>2 DEF RecordOf
  <2>4. ASSUME NEW s \in Sessions PROVE SettlerOf(s)'
    <3>1. charge[run[s].req] # "none" /\ run[s].req \in Payments => charge'[run[s].req] # "none"
      BY <2>1, <2>2
    <3>2. \A z \in Sessions : Settles(z, run[s].req)' => Settles(z, run[s].req)
      BY <2>1 DEF Settles
    <3> QED BY <1>0, <2>1, <3>1, <3>2 DEF SettlerOf
  <2> QED BY <2>3, <2>4, Zenon DEF RecordsMatch, RecordOf, SettlerOf
<1>4. ASSUME NEW s \in Sessions, \E code : Done(s, code), job' = job, charge' = charge
      PROVE  RecordsMatch'
  BY <1>4, DoneRuns, RecordsDone
<1>5. ASSUME NEW s \in Sessions, Drop(s) PROVE RecordsMatch'
  BY <1>5, RecordsDone DEF Drop, Shapes, Free
<1>6. ASSUME NEW s \in Sessions, Admit(s) PROVE RecordsMatch'
  <2>1. run[s].req \in Payments /\ job[run[s].req] = "none" /\ "none" \in Flaws[run[s].req]
    BY <1>6 DEF Admit, Sound, CallersMatch
  <2>2. CASE /\ job' = [job EXCEPT ![run[s].req] = "settling"]
             /\ run' = [run EXCEPT ![s].pc = "settle"]
             /\ charge' = charge
    <3>1. job'[run[s].req] = "settling" /\ \A q \in Payments : q # run[s].req => job'[q] = job[q]
      BY <2>1, <2>2 DEF Shapes
    <3>2. \A z \in Sessions : ~Settles(z, run[s].req)
      BY <1>0, <2>1 DEF Settles, SettlerOf
    <3>3. /\ run'[s].pc = "settle" /\ run'[s].req = run[s].req
          /\ \A z \in Sessions : z # s => run'[z] = run[z]
      BY <2>2, MoveRuns
    <3> QED BY <2>1, <2>2, <3>1, <3>2, <3>3, RecordsMove
  <2>3. CASE (\E code : Done(s, code)) /\ job' = job /\ charge' = charge
    BY <1>4, <2>3
  <2> QED BY <1>6, <2>2, <2>3 DEF Admit
<1>7. ASSUME NEW s \in Sessions, Resume(s) PROVE RecordsMatch'
  <2>1. run[s].req \in Payments /\ job[run[s].req] # "none" /\ job' = job /\ charge' = charge
    BY <1>7 DEF Resume, Sound
  <2>2. CASE \E code : Done(s, code)
    BY <1>4, <2>1, <2>2
  <2>3. CASE /\ job[run[s].req] = "settling" /\ \A z \in Sessions : ~Settles(z, run[s].req)
             /\ run' = [run EXCEPT ![s].pc = "settle"]
    <3>1. "none" \in Flaws[run[s].req]
      BY <1>0, <2>1 DEF RecordOf
    <3>2. /\ run'[s].pc = "settle" /\ run'[s].req = run[s].req
          /\ \A z \in Sessions : z # s => run'[z] = run[z]
      BY <2>3, MoveRuns
    <3> QED BY <2>1, <2>3, <3>1, <3>2, RecordsMove
  <2> QED BY <1>7, <2>2, <2>3 DEF Resume
<1>8. ASSUME NEW s \in Sessions, Post(s) PROVE RecordsMatch'
  <2>1. /\ run[s].req \in Payments /\ job[run[s].req] = "settling" /\ job' = job
        /\ \A z \in Sessions : z # s => ~Settles(z, run[s].req)
    BY <1>0, <1>8 DEF Post, SettlerOf
  <2>2. /\ charge'[run[s].req] # "none"
        /\ \A q \in Payments : q # run[s].req => charge'[q] = charge[q]
    BY <1>8, <2>1 DEF Post, Shapes
  <2>3. run' = [run EXCEPT ![s].pc = "posted"]
    BY <1>8 DEF Post
  <2>4. "none" \in Flaws[run[s].req]
    BY <1>0, <2>1 DEF RecordOf
  <2>5. /\ run'[s].pc = "posted" /\ run'[s].req = run[s].req
        /\ \A z \in Sessions : z # s => run'[z] = run[z]
    BY <2>3, MoveRuns
  <2> QED BY <2>1, <2>2, <2>4, <2>5, RecordsMove
<1>9. ASSUME NEW s \in Sessions, Settled(s) \/ RejectUnasked(s) PROVE RecordsMatch'
  <2>1. /\ run[s].req \in Payments /\ job[run[s].req] = "settling" /\ charge' = charge
        /\ run[s].pc \in {"settle", "posted"}
    BY <1>0, <1>9 DEF Settled, RejectUnasked, SettlerOf
  <2>2. "none" \in Flaws[run[s].req]
    BY <1>0, <2>1 DEF RecordOf
  <2>3. \A q \in Payments : q # run[s].req => job'[q] = job[q]
    BY <1>9, <2>1 DEF Settled, RejectUnasked, Shapes
  <2>4. CASE Settled(s)
    <3>1. job'[run[s].req] = IF charge[run[s].req] = "paid" THEN "paid" ELSE "rejected"
      BY <2>1, <2>4 DEF Settled, Shapes
    <3>2. charge[run[s].req] \in {"paid", "refused", "void"}
      BY <2>4 DEF Settled
    <3>3. RecordOf(run[s].req)'
      <4>1. run'[s].req = run[s].req
        BY <2>4, DoneRuns DEF Settled
      <4> QED BY <2>1, <2>2, <3>1, <3>2, <4>1 DEF RecordOf
    <3> QED BY <2>1, <2>3, <2>4, <3>3, DoneRuns, RecordsDone DEF Settled
  <2>5. CASE RejectUnasked(s)
    <3>1. job'[run[s].req] = "rejected" /\ Rejectable(run[s].req)
      BY <2>1, <2>5 DEF RejectUnasked, Shapes
    <3>2. charge[run[s].req] \in {"none", "refused", "void"} \/ run[s].req \in RotatedLate
      BY <2>1, <3>1 DEF Rejectable, Shapes
    <3>3. RecordOf(run[s].req)'
      <4>1. run'[s].req = run[s].req
        BY <2>5, DoneRuns DEF RejectUnasked
      <4> QED BY <2>1, <2>2, <3>1, <3>2, <4>1 DEF RecordOf
    <3> QED BY <2>1, <2>3, <2>5, <3>3, DoneRuns, RecordsDone DEF RejectUnasked
  <2> QED BY <1>9, <2>4, <2>5
<1>10. ASSUME NEW s \in Sessions, RefuseAtAgent(s) \/ View(s) \/ Unsettled(s) PROVE RecordsMatch'
  <2>1. (\E code : Done(s, code)) /\ job' = job /\ charge' = charge
    BY <1>10 DEF RefuseAtAgent, View, Unsettled
  <2> QED BY <1>4, <2>1
<1> QED
  BY <1>1, <1>2, <1>3, <1>5, <1>6, <1>7, <1>8, <1>9, <1>10 DEF Next, Agent

-----------------------------------------------------------------------------
(* Refusals.                                                               *)

NeverChargedNext(p) ==
    \/ "none" \notin Flaws[p] \/ charge'[p] = "void"
    \/ job'[p] = "rejected" /\ charge'[p] \in {"none", "refused"}
    \/ p \in RotatedLate

\* What never can be charged stays so.
LEMMA NeverChargedFinal ==
    ASSUME Shapes, RecordsMatch, [Next]_vars, NEW p \in Payments, NeverCharged(p)
    PROVE  NeverChargedNext(p)
<1>1. CASE "none" \notin Flaws[p] \/ p \in RotatedLate
  BY <1>1 DEF NeverChargedNext
<1>2. CASE charge[p] = "void"
  <2>1. ASSUME NEW c \in Containers, Arrive(c) \/ Lambda(c) \/ Recycle(c) PROVE charge' = charge
    BY <2>1, ContainerKeeps
  <2>2. ASSUME NEW q \in Payments, Decide(q) \/ Expire(q) PROVE charge'[p] = "void"
    BY <1>2, <2>2 DEF Decide, Expire, Shapes
  <2>3. ASSUME NEW s \in Sessions, Agent(s) PROVE charge'[p] = "void"
    BY <1>2, <2>3
       DEF Agent, RefuseAtAgent, View, Admit, Resume, Post, Settled, RejectUnasked, Unsettled, Drop,
           Shapes
  <2>4. CASE UNCHANGED vars \/ Tick \/ RotateSecret
    BY <1>2, <2>4 DEF vars, Tick, RotateSecret, NeverChargedNext
  <2> QED BY <1>2, <2>1, <2>2, <2>3, <2>4 DEF Next, NeverChargedNext
<1>3. CASE job[p] = "rejected" /\ charge[p] \in {"none", "refused"}
  <2>1. ASSUME NEW c \in Containers, Arrive(c) \/ Lambda(c) \/ Recycle(c)
        PROVE  job' = job /\ charge' = charge
    BY <2>1, ContainerKeeps
  <2>2. ASSUME NEW q \in Payments, Decide(q) \/ Expire(q)
        PROVE  job' = job /\ charge'[p] \in {charge[p], "void"}
    BY <1>3, <2>2 DEF Decide, Expire, Shapes
  <2>3. ASSUME NEW s \in Sessions, Agent(s) PROVE job'[p] = job[p] /\ charge'[p] = charge[p]
    <3>1. CASE RefuseAtAgent(s) \/ View(s) \/ Resume(s) \/ Unsettled(s) \/ Drop(s)
      BY <3>1 DEF RefuseAtAgent, View, Resume, Unsettled, Drop
    <3>2. CASE Admit(s)
      BY <1>3, <3>2 DEF Admit, Shapes
    <3>3. CASE Post(s) \/ Settled(s) \/ RejectUnasked(s)
      <4>1. run[s].pc \in {"settle", "posted"}
        BY <3>3 DEF Post, Settled, RejectUnasked
      <4>2. run[s].req # p
        BY <1>3, <4>1, RecordsSplit DEF SettlerOf
      <4> QED BY <3>3, <4>2 DEF Post, Settled, RejectUnasked, Shapes
    <3> QED BY <2>3, <3>1, <3>2, <3>3 DEF Agent
  <2>4. CASE UNCHANGED vars \/ Tick \/ RotateSecret
    <3>1. job' = job /\ charge' = charge
      BY <2>4 DEF vars, Tick, RotateSecret
    <3> QED BY <1>3, <3>1 DEF NeverChargedNext
  <2> QED BY <1>3, <2>1, <2>2, <2>3, <2>4 DEF Next, NeverChargedNext
<1> QED BY <1>1, <1>2, <1>3 DEF NeverCharged

\* What the buyer is told of a payment that is refused for good.
RefusedNext(p) == buyer'[p] \in {"refused", "failed"}

LEMMA RefusedBy ==
    ASSUME NEW p \in Payments, NEW status \in Nat, NEW code,
           Conclusion(p, status, code) \in {"refused", "failed"}
    PROVE  /\ p \notin Views /\ status < 500
           /\ code = "job_failed" \/ (300 <= status /\ status # 429)
<1>1. p \notin Views
  BY GatewayAssumption
<1>2. CASE status >= 500
  BY <1>1, <1>2 DEF Conclusion
<1>3. CASE status = 429
  BY <1>1, <1>3 DEF Conclusion
<1>4. CASE status < 300
  BY <1>1, <1>4 DEF Conclusion
<1> QED BY <1>1, <1>2, <1>3, <1>4

\* Of the answers of the agent, those in Final.
LEMMA FinalStatus ==
    ASSUME NEW p \in Payments, NEW code \in Codes \ {"fault"}, code # "none",
           Conclusion(p, Status(code), code) \in {"refused", "failed"}
    PROVE  code \in Final
<1>1. Status(code) \in Nat
  BY DEF Status, Codes
<1>2. Status(code) < 500 /\ (code = "job_failed" \/ (300 <= Status(code) /\ Status(code) # 429))
  BY <1>1, RefusedBy
<1> QED BY <1>2 DEF Status, Codes, Final

\* A container tells the buyer to go on, or passes on a refusal.
LEMMA ReplyRefuses ==
    ASSUME Shapes, NEW c \in Containers, NEW status, NEW code, Reply(c, status, code),
           NEW p \in Payments, RefusedNext(p)
    PROVE  Refused(p) \/ (p = gw[c].req /\ Conclusion(p, status, code) \in {"refused", "failed"})
  BY DEF Reply, Shapes, Requests, Refused, RefusedNext

\* A flaw that ends in a refusal is there each time, so nothing was charged before.
LEMMA FlawFinal ==
    ASSUME NEW p \in Payments, NEW flaw \in Flaws[p], flaw \notin {"none", "context", "base"}
    PROVE  "none" \notin Flaws[p]
  BY GatewayAssumption

\* The sessions of a step that ends at most one, s, and the buyers of one that
\* tells at most p a refusal.
LEMMA RefusalsKept ==
    ASSUME Shapes, RecordsMatch, RefusalsFinal, [Next]_vars,
           \A p \in Payments : RefusedNext(p) => Refused(p) \/ NeverChargedNext(p),
           \A z \in Sessions :
             \/ Kept(z)
             \/ run'[z].pc # "done"
             \/ /\ run'[z].code # "none"
                /\ run'[z].req \in Payments /\ run'[z].code \in Final => NeverChargedNext(run'[z].req)
    PROVE  RefusalsFinal'
<1>1. \A p \in Payments : NeverCharged(p) => NeverChargedNext(p)
  BY NeverChargedFinal
<1>2. \A p \in Payments : RefusedNext(p) => NeverChargedNext(p)
  BY <1>1 DEF RefusalsFinal
<1>3. ASSUME NEW z \in Sessions, run'[z].pc = "done"
      PROVE  /\ run'[z].code # "none"
             /\ run'[z].req \in Payments /\ run'[z].code \in Final => NeverChargedNext(run'[z].req)
  BY <1>1, <1>3 DEF RefusalsFinal, Kept
<1> QED BY <1>2, <1>3, Zenon DEF RefusalsFinal, NeverCharged, NeverChargedNext, Refused, RefusedNext

\* One case per action that answers or decides.
LEMMA RefusalsStep ==
    Shapes /\ CallersMatch /\ RecordsMatch /\ RefusalsFinal /\ [Next]_vars => RefusalsFinal'
<1> SUFFICES ASSUME Shapes, CallersMatch, RecordsMatch, RefusalsFinal, [Next]_vars
             PROVE  RefusalsFinal'
  OBVIOUS
<1> DEFINE Told == \A p \in Payments :
                     RefusedNext(p) => Refused(p) \/ NeverChargedNext(p)
<1>0. (\A z \in Sessions : Kept(z)) /\ Told => RefusalsFinal'
  BY RefusalsKept
<1>1. \A status \in {502, 503, 504} : \A p \in Payments : \A code :
         Conclusion(p, status, code) \notin {"refused", "failed"}
  BY RefusedBy
<1>2. ASSUME NEW c \in Containers, NEW status \in {502, 503, 504}, NEW code, Reply(c, status, code)
      PROVE  Told
  BY <1>1, <1>2, ReplyRefuses
<1>3. ASSUME NEW c \in Containers, Arrive(c) \/ Recycle(c) PROVE Told
  <2>1. ASSUME NEW r \in Requests, Receive(c, r) PROVE Told
    BY <2>1 DEF Receive, Shapes, Requests, Refused, RefusedNext
  <2>2. ASSUME NEW r \in Requests, SecretUnavailable(c, r) PROVE Told
    BY <1>1, <2>2 DEF SecretUnavailable, Shapes, Requests, Refused, RefusedNext
  <2>3. ASSUME NEW r \in Requests, Refuse(c, r) PROVE Told
    <3>1. PICK flaw \in Flaws[r] \cap GatewayFlaws :
             buyer' = [buyer EXCEPT ![r] = Conclusion(r, CASE flaw = "context" -> 503
                                                           [] flaw = "large" -> 413
                                                           [] OTHER -> 400, "none")]
      BY <2>3 DEF Refuse
    <3>2. CASE flaw = "context"
      BY <1>1, <3>1, <3>2 DEF Shapes, Requests, Refused, RefusedNext
    <3>3. CASE flaw # "context"
      <4>1. r \in Payments => "none" \notin Flaws[r]
        BY <3>3, FlawFinal DEF GatewayFlaws
      <4> QED BY <3>1, <4>1 DEF Shapes, Requests, NeverChargedNext, Refused, RefusedNext
    <3> QED BY <3>2, <3>3
  <2>4. CASE Recycle(c)
    BY <2>4 DEF Recycle, Refused, RefusedNext
  <2> QED BY <1>3, <2>1, <2>2, <2>3, <2>4 DEF Arrive
<1>4. ASSUME NEW c \in Containers, NEW s \in Sessions, Return(c, s) PROVE Told
  <2>1. CASE Reply(c, 504, "none")
    BY <1>2, <2>1
  <2>2. CASE Reply(c, IF run[s].code = "fault" THEN 502 ELSE Status(run[s].code), run[s].code)
    <3>1. CASE run[s].code = "fault"
      BY <1>2, <2>2, <3>1
    <3>2. CASE run[s].code # "fault"
      <4>1. run[s].pc = "done" /\ run[s].caller = c /\ c # None
        BY <1>4, GatewayAssumption DEF Return
      <4>2. run[s].code \in Codes \ {"fault"} /\ run[s].code # "none" /\ gw[c].req = run[s].req
        BY <3>2, <4>1 DEF Shapes, Session, RefusalsFinal, CallersMatch
      <4>3. Reply(c, Status(run[s].code), run[s].code)
        BY <2>2, <3>2
      <4>4. ASSUME NEW p \in Payments, RefusedNext(p), ~Refused(p)
            PROVE  NeverChargedNext(p)
        <5>1. /\ p = run[s].req
              /\ Conclusion(p, Status(run[s].code), run[s].code) \in {"refused", "failed"}
          BY <4>2, <4>3, <4>4, ReplyRefuses
        <5>2. run[s].code \in Final
          BY <4>2, <5>1, FinalStatus
        <5>3. NeverCharged(p)
          BY <4>1, <5>1, <5>2 DEF RefusalsFinal
        <5> QED BY <5>3, NeverChargedFinal
      <4> QED BY <4>4
    <3> QED BY <3>1, <3>2
  <2> QED BY <1>4, <2>1, <2>2 DEF Return
<1>5. ASSUME NEW c \in Containers, Lambda(c) PROVE Told
  <2>1. CASE TokenFails(c) \/ InvokeFails(c)
    BY <1>2, <2>1 DEF TokenFails, InvokeFails
  <2>2. CASE GiveUp(c)
    BY <1>2, <2>2 DEF GiveUp, TimeoutStatus
  <2>3. CASE Issue(c) \/ TokenArrives(c) \/ \E s \in Sessions : Invoke(c, s)
    BY <2>3 DEF Issue, TokenArrives, Invoke, Refused, RefusedNext
  <2> QED BY <1>4, <1>5, <2>1, <2>2, <2>3 DEF Lambda
<1>6. ASSUME NEW c \in Containers, Arrive(c) \/ Lambda(c) \/ Recycle(c) PROVE RefusalsFinal'
  BY <1>0, <1>3, <1>5, <1>6, ContainerKeeps
<1>7. CASE UNCHANGED vars \/ Tick \/ RotateSecret \/ \E p \in Payments : Decide(p) \/ Expire(p)
  <2>1. run' = run /\ buyer' = buyer
    BY <1>7 DEF vars, Tick, RotateSecret, Decide, Expire
  <2> QED BY <1>0, <2>1 DEF Kept, Refused, RefusedNext
<1>8. ASSUME NEW s \in Sessions, NEW code, Done(s, code), code # "none", buyer' = buyer,
             run[s].req \in Payments /\ code \in Final =>
               NeverCharged(run[s].req) \/ NeverChargedNext(run[s].req)
      PROVE  RefusalsFinal'
  <2>1. /\ run'[s].pc = "done" /\ run'[s].req = run[s].req /\ run'[s].code = code
        /\ \A z \in Sessions : z # s => run'[z] = run[z]
    BY <1>8, DoneRuns
  <2>2. run[s].req \in Payments /\ code \in Final => NeverChargedNext(run[s].req)
    BY <1>8, NeverChargedFinal
  <2> QED BY <1>8, <2>1, <2>2, RefusalsKept DEF Kept, Refused, RefusedNext
<1>9. ASSUME NEW s \in Sessions, Agent(s) PROVE RefusalsFinal'
  <2>1. buyer' = buyer
    BY <1>9 DEF Agent, RefuseAtAgent, View, Admit, Resume, Post, Settled,
           RejectUnasked, Unsettled, Drop
  <2>2. CASE RefuseAtAgent(s)
    <3>1. run[s].req \in Payments /\ run[s].flaw # "base" => NeverCharged(run[s].req)
      <4>1. run[s].flaw \in Flaws[run[s].req] /\ run[s].flaw \in {"base", "json", "encoding"}
        BY <2>2 DEF RefuseAtAgent, CallersMatch
      <4> QED BY <4>1, FlawFinal DEF NeverCharged
    <3>2. CASE Done(s, "fault")
      BY <1>8, <2>1, <3>2 DEF Final
    <3>3. CASE run[s].flaw # "base" /\ \E code : Done(s, code) /\ code # "none"
      BY <1>8, <2>1, <3>1, <3>3
    <3> QED BY <2>2, <3>2, <3>3 DEF RefuseAtAgent
  <2>3. CASE \E code \in {"view", "wallet_rate_limited", "unavailable", "accepted", "settlement_pending"} :
               Done(s, code)
    BY <1>8, <2>1, <2>3 DEF Final
  <2>4. CASE \E q \in {"settle", "posted"} : run' = [run EXCEPT ![s].pc = q]
    <3>1. run'[s].pc # "done" /\ \A z \in Sessions : z # s => run'[z] = run[z]
      BY <2>4, MoveRuns
    <3> QED BY <2>1, <3>1, RefusalsKept DEF Kept, Refused, RefusedNext
  <2>5. CASE Resume(s) /\ job[run[s].req] = "rejected" /\ Done(s, "job_failed")
    <3>1. NeverCharged(run[s].req)
      BY <2>5, RecordsSplit DEF Resume, Sound, RecordOf, NeverCharged
    <3> QED BY <1>8, <2>1, <2>5, <3>1
  <2>6. CASE (Settled(s) /\ charge[run[s].req] # "paid") \/ RejectUnasked(s)
    <3>1. /\ run[s].req \in Payments /\ job'[run[s].req] = "rejected" /\ charge' = charge
          /\ Done(s, "payment_rejected")
      <4>1. run[s].req \in Payments
        BY <2>6, RecordsSplit DEF Settled, RejectUnasked, SettlerOf
      <4> QED BY <2>6, <4>1 DEF Settled, RejectUnasked, Shapes
    <3>2. charge[run[s].req] \in {"none", "refused", "void"} \/ run[s].req \in RotatedLate
      BY <2>6, <3>1 DEF Settled, RejectUnasked, Rejectable, Shapes
    <3>3. NeverChargedNext(run[s].req)
      BY <3>1, <3>2 DEF NeverChargedNext
    <3> QED BY <1>8, <2>1, <3>1, <3>3
  <2>7. CASE Drop(s)
    BY <2>1, <2>7, RefusalsKept DEF Drop, Shapes, Free, Kept, Refused, RefusedNext
  <2>8. CASE View(s) \/ Unsettled(s)
    BY <2>3, <2>8 DEF View, Unsettled
  <2>9. CASE Admit(s)
    <3>1. CASE charge[run[s].req] = "void" /\ Done(s, "payment_rejected")
      BY <1>8, <2>1, <3>1 DEF NeverCharged
    <3> QED BY <2>3, <2>4, <2>9, <3>1 DEF Admit
  <2>10. CASE Resume(s)
    BY <2>3, <2>4, <2>5, <2>10 DEF Resume
  <2>11. CASE Settled(s)
    BY <2>3, <2>6, <2>11 DEF Settled
  <2>12. CASE Post(s)
    BY <2>4, <2>12 DEF Post
  <2> QED BY <1>9, <2>2, <2>6, <2>7, <2>8, <2>9, <2>10, <2>11, <2>12 DEF Agent
<1> QED BY <1>6, <1>7, <1>9 DEF Next

-----------------------------------------------------------------------------
(* The theorems.                                                           *)

GatewayInv == AllSane /\ Rest /\ CallersMatch /\ RecordsMatch /\ RefusalsFinal

LEMMA GatewayInit == Init => GatewayInv
<1> SUFFICES ASSUME Init PROVE GatewayInv
  OBVIOUS
<1>1. AllSane /\ Rest
  BY SaneInit
<1>2. /\ \A s \in Sessions : run[s] = Free
      /\ \A p \in Payments : job[p] = "none" /\ charge[p] = "none"
      /\ \A r \in Requests : buyer[r] = "idle"
  BY DEF Init
<1>3. CallersMatch /\ RecordsMatch
  BY <1>2 DEF CallersMatch, RecordsMatch, Settles, Free
<1>4. RefusalsFinal
  BY <1>2 DEF RefusalsFinal, Refused, Free, Requests
<1> QED BY <1>1, <1>3, <1>4 DEF GatewayInv

LEMMA GatewayStep == GatewayInv /\ [Next]_vars => GatewayInv'
  BY SaneStep, TypeGivesShapes, CallersStep, RecordsStep, RefusalsStep DEF GatewayInv

LEMMA GatewayAlways == Spec => []GatewayInv
  BY GatewayInit, GatewayStep, PTL DEF Spec

\* The Lambda's token cache and its time limits: for any lifetimes of tokens that
\* exceed the time limit of the token request and the way to the agent, and with
\* a margin (30 s in oauth_client.py) that covers both, no request goes out with a
\* token that has run out when the runtime checks it, through slow answers of the
\* token endpoint, failed refreshes and replaced secrets.
THEOREM TokensNeverStale == Spec => []TokensSound
<1>1. ASSUME AllSane, NEW c \in Containers, Is(c, "transit") PROVE ~Expired(c)
  <2>1. /\ gw[c].token # {} /\ gw[c].waited <= Transit /\ gw[c].waited \in Nat
        /\ \A t \in gw[c].token : t.left + gw[c].waited > Transit /\ t.left \in Nat
    BY <1>1 DEF AllSane, Sane, Bounded, Aged, Is, LimitOf, Container, Tokens
  <2> QED BY <2>1, GatewayAssumption DEF Expired
<1>2. GatewayInv => TokensSound
  BY <1>1, ByContainer DEF GatewayInv, TokensSound, TokenUsable
<1> QED BY <1>2, GatewayAlways, PTL

\* Whatever times out, is repeated or gets lost between buyer, Lambda, agent and
\* facilitator, and whether the service rejects with or without asking: a buyer who
\* is told for good that its payment is refused, by an error or in the receipt of a
\* failed job, has not been charged, and no session still at work for it has it
\* charged later.  The theorem takes over from X402Settlement that the lease admits
\* one settler at a time, and that no earlier request can land when a later settler
\* rejects without asking (the guards of Resume and Rejectable); it says nothing of
\* the Permit2 payments in RotatedLate.
THEOREM RefusalIsFinal == Spec => []RefusedMeansUncharged
<1>1. GatewayInv => RefusedMeansUncharged
  <2> SUFFICES ASSUME GatewayInv, NEW p \in Payments \ RotatedLate, Refused(p)
               PROVE  charge[p] \in {"none", "refused", "void"}
    BY DEF RefusedMeansUncharged
  <2>1. NeverCharged(p)
    BY DEF GatewayInv, RefusalsFinal
  <2>2. RecordOf(p)
    BY RecordsSplit DEF GatewayInv
  <2> QED BY <2>1, <2>2 DEF NeverCharged, RecordOf
<1> QED BY <1>1, GatewayAlways, PTL
=============================================================================

------------------------- MODULE TokenServiceProofs -------------------------
(***************************************************************************)
(* Proofs about TokenService for any number of names, pairs and requests:  *)
(* typing, and the safety properties of registration, login, refresh and   *)
(* logout, however requests, clock and purge interleave.                   *)
(***************************************************************************)
EXTENDS TokenService, TLAPS

-----------------------------------------------------------------------------
(* The inductive invariant.                                                *)

\* create_tokens has made the pair p.
Issued(p) == p \in Pairs /\ pairs[p] # None

\* Whatever a client holds or a reply carries has been made, and a pair made
\* by a refresh has a spent parent of the same user, delivered or not.
PairsOK ==
    /\ \A p \in delivered : Issued(p)
    /\ \A p \in Pairs : Issued(p) /\ pairs[p].parent # None =>
          /\ Issued(pairs[p].parent)
          /\ Spent(pairs[p].parent, "refresh")
          /\ pairs[pairs[p].parent].user = pairs[p].user

\* A row of the denylist purged between the two halves of verify_token.
Purged(t) == Purging /\ Exp(t[1], t[2]) < now

\* The stages before verify_token has decoded t, and those before it has
\* looked t up: a logout verifies its refresh token second.
Second(r, t) == call[r].op = "logout" /\ t[2] = "refresh"

Undecoded(r, t) ==
    pc[r] \in IF Second(r, t) THEN {"decode", "denylist", "decodeRefresh"} ELSE {"decode"}

Unlooked(r, t) ==
    pc[r] = IF Second(r, t) THEN "denylistRefresh" ELSE "denylist"

\* How a token that was not good on arrival may have got as far as this.
Excused(r, t) ==
    \/ Purged(t)
    \/ Undecoded(r, t) /\ Spent(t[1], t[2])
    \/ Unlooked(r, t) /\ t \in denylist

\* A request still being served, or answered with 200.
LiveOK(r) ==
    \/ live[r]
    \/ pc[r] = "done" /\ status[r] # 200
    \/ \E t \in Presented(call[r]) : Excused(r, t)

\* Which handler runs which statement.
StageOK(r) ==
    /\ pc[r] = "lookup" => call[r].op \in {"register", "login"}
    /\ pc[r] \in {"insert", "recheck"} => call[r].op = "register"
    /\ pc[r] \in {"decode", "denylist"} => call[r].op \in {"refresh", "logout", "use"}
    /\ pc[r] \in {"decodeRefresh", "denylistRefresh", "revoke"} => call[r].op = "logout"
    /\ pc[r] = "rotate" => call[r].op = "refresh"

\* What the status says of the tables.
StatusOK(r) ==
    /\ status[r] # 0 => pc[r] \in {"reply", "done"}
    /\ pc[r] = "reply" => status[r] \in {200, 201}
    /\ status[r] = 201 => call[r].op = "register" /\ call[r].name \in users
    /\ call[r].op = "logout" /\ (pc[r] = "revoke" \/ status[r] = 200) =>
          pairs[call[r].access].user = pairs[call[r].refresh].user
    /\ call[r].op = "logout" /\ status[r] = 200 =>
          \A t \in Presented(call[r]) : Spent(t[1], t[2])

\* A slot is idle, or serves a call whose tokens exist.
SlotOK(r) ==
    \/ pc[r] = "idle" /\ status[r] = 0 /\ made[r] = {}
    \/ /\ pc[r] # "idle"
       /\ call[r] \in Calls
       /\ \A t \in Presented(call[r]) : Issued(t[1])
       /\ \A p \in made[r] : Issued(p)
       /\ StageOK(r) /\ StatusOK(r) /\ LiveOK(r)

TokenInv ==
    /\ TypeOK /\ PairsOK /\ NamesGivenOnce
    /\ \A r \in Requests : SlotOK(r)

-----------------------------------------------------------------------------
(* Calls, pairs and tokens.                                                *)

\* The fields of a call.
LEMMA CallFields ==
    ASSUME NEW c \in Calls
    PROVE  /\ c # None
           /\ c.op \in {"register", "login", "refresh", "logout", "use"}
           /\ c.op \in {"register", "login"} =>
                 c.name \in Names /\ c.access = None /\ c.refresh = None
           /\ c.op = "refresh" => c.access = None /\ c.refresh \in Pairs
           /\ c.op = "logout" => c.access \in Pairs /\ c.refresh \in Pairs
           /\ c.op = "use" => c.access \in Pairs /\ c.refresh = None
BY NoneIsFresh DEF Calls

\* The tokens each kind of call presents.
LEMMA PresentedTokens ==
    ASSUME NEW c \in Calls
    PROVE  /\ Presented(c) \subseteq Pairs \X {"access", "refresh"}
           /\ c.op \in {"register", "login"} => Presented(c) = {}
           /\ c.op = "refresh" => Presented(c) = {<<c.refresh, "refresh">>}
           /\ c.op = "use" => Presented(c) = {<<c.access, "access">>}
           /\ c.op = "logout" =>
                 Presented(c) = {<<c.access, "access">>, <<c.refresh, "refresh">>}
<1>1. None \notin Pairs
  BY NoneIsFresh
<1> QED
  BY <1>1, CallFields DEF Presented

\* What create_tokens has made is a pair record.
LEMMA IssuedData ==
    ASSUME TypeOK, NEW p \in Pairs, Issued(p)
    PROVE  /\ pairs[p] \in PairData
           /\ pairs[p].user \in Names /\ pairs[p].iat \in Nat
           /\ pairs[p].parent \in Pairs \cup {None}
BY DEF TypeOK, Issued, PairData

\* Its tokens expire at a time.
LEMMA ExpNat ==
    ASSUME TypeOK, NEW p \in Pairs, Issued(p), NEW type
    PROVE  Exp(p, type) \in Nat
BY IssuedData, TokenAssumptions DEF Exp

-----------------------------------------------------------------------------
(* What no step undoes.                                                    *)

\* The clock, the users and the pairs only grow; the denylist loses nothing
\* but expired rows, and those only to a purge.
Evolves ==
    /\ now <= now'
    /\ users \subseteq users'
    /\ \A p \in Pairs : Issued(p) => pairs'[p] = pairs[p]
    /\ \A t \in denylist : Issued(t[1]) =>
          t \in denylist' \/ (Purging /\ Exp(t[1], t[2]) < now')

\* A pair stays what it was made.
LEMMA IssuedStays ==
    ASSUME Evolves, NEW p \in Pairs, Issued(p), NEW type
    PROVE  Issued(p)' /\ pairs'[p] = pairs[p] /\ Exp(p, type)' = Exp(p, type)
BY DEF Evolves, Issued, Exp

\* A spent token stays spent.
LEMMA SpentStays ==
    ASSUME TypeOK, TypeOK', Evolves,
           NEW p \in Pairs, Issued(p), NEW type, Spent(p, type)
    PROVE  Spent(p, type)'
<1>1. now \in Nat /\ now' \in Nat /\ now <= now'
  BY DEF TypeOK, Evolves
<1>2. Exp(p, type) \in Nat /\ Exp(p, type)' = Exp(p, type)
  BY ExpNat, IssuedStays
<1>3. CASE now >= Exp(p, type)
  BY <1>1, <1>2, <1>3 DEF Spent
<1>4. CASE <<p, type>> \in denylist
  <2>1. <<p, type>> \in denylist' \/ Exp(p, type) < now'
    BY <1>4 DEF Evolves
  <2> QED
    BY <2>1, <1>1, <1>2 DEF Spent
<1> QED
  BY <1>3, <1>4 DEF Spent

\* So does the excuse of a token let through after its row was purged.
LEMMA PurgedStays ==
    ASSUME TypeOK, TypeOK', Evolves, NEW t \in Pairs \X {"access", "refresh"},
           Issued(t[1])
    PROVE  /\ Purged(t) => Purged(t)'
           /\ t \in denylist => t \in denylist' \/ Purged(t)'
<1>1. now \in Nat /\ now' \in Nat /\ now <= now'
  BY DEF TypeOK, Evolves
<1>2. Exp(t[1], t[2]) \in Nat /\ Exp(t[1], t[2])' = Exp(t[1], t[2])
  BY ExpNat, IssuedStays
<1>3. t \in denylist => t \in denylist' \/ (Purging /\ Exp(t[1], t[2]) < now')
  BY DEF Evolves
<1> QED
  BY <1>1, <1>2, <1>3 DEF Purged

\* The slot of q is untouched.
Same(q) ==
    /\ call'[q] = call[q] /\ pc'[q] = pc[q] /\ status'[q] = status[q]
    /\ made'[q] = made[q] /\ live'[q] = live[q]

\* A token's excuse outlives every step of the others.
LEMMA ExcuseStays ==
    ASSUME TypeOK, TypeOK', Evolves, NEW r \in Requests,
           NEW t \in Pairs \X {"access", "refresh"}, Issued(t[1]), Excused(r, t),
           call'[r] = call[r], pc'[r] = pc[r]
    PROVE  Excused(r, t)'
<1>1. t = <<t[1], t[2]>> /\ t[1] \in Pairs
  OBVIOUS
<1>2. Spent(t[1], t[2]) => Spent(t[1], t[2])'
  BY <1>1, SpentStays
<1>3. Undecoded(r, t)' = Undecoded(r, t) /\ Unlooked(r, t)' = Unlooked(r, t)
  BY DEF Undecoded, Unlooked, Second
<1> QED
  BY <1>1, <1>2, <1>3, PurgedStays DEF Excused

\* A slot keeps its part of the invariant while others move.
LEMMA SlotStays ==
    ASSUME TypeOK, TypeOK', Evolves, NEW r \in Requests, SlotOK(r), Same(r)
    PROVE  SlotOK(r)'
<1>1. CASE pc[r] = "idle" /\ status[r] = 0 /\ made[r] = {}
  BY <1>1 DEF SlotOK, Same
<1>2. CASE pc[r] # "idle" /\ ~ (pc[r] = "idle" /\ status[r] = 0 /\ made[r] = {})
  <2>1. /\ call[r] \in Calls /\ StageOK(r) /\ StatusOK(r) /\ LiveOK(r)
        /\ \A t \in Presented(call[r]) : Issued(t[1])
        /\ \A p \in made[r] : Issued(p)
    BY <1>2 DEF SlotOK
  <2>2. Presented(call[r])' = Presented(call[r])
    BY DEF Same, Presented
  <2>3. Presented(call[r]) \subseteq Pairs \X {"access", "refresh"}
    BY <2>1, PresentedTokens
  <2>4. \A t \in Presented(call[r]) : Issued(t[1])'
    BY <2>1, <2>3, IssuedStays
  <2>5. \A p \in made'[r] : Issued(p)'
    BY <2>1, IssuedStays DEF Same, TypeOK
  <2>6. StageOK(r)'
    BY <2>1 DEF StageOK, Same
  <2>7. StatusOK(r)'
    <3>1. users \subseteq users'
      BY DEF Evolves
    <3>2. \A t \in Presented(call[r]) : Spent(t[1], t[2]) => Spent(t[1], t[2])'
      BY <2>1, <2>3, SpentStays
    <3>3. call[r].op = "logout" =>
             /\ pairs'[call[r].access] = pairs[call[r].access]
             /\ pairs'[call[r].refresh] = pairs[call[r].refresh]
      <4> SUFFICES ASSUME call[r].op = "logout"
                   PROVE  /\ pairs'[call[r].access] = pairs[call[r].access]
                          /\ pairs'[call[r].refresh] = pairs[call[r].refresh]
        OBVIOUS
      <4>1. call[r].access \in Pairs /\ call[r].refresh \in Pairs
        BY <2>1, CallFields
      <4>2. Presented(call[r]) = {<<call[r].access, "access">>, <<call[r].refresh, "refresh">>}
        BY <2>1, PresentedTokens
      <4>3. Issued(call[r].access) /\ Issued(call[r].refresh)
        BY <2>1, <4>2
      <4> QED
        BY <4>1, <4>3, IssuedStays
    <3> QED
      BY <2>1, <2>2, <3>1, <3>2, <3>3 DEF StatusOK, Same
  <2>8. LiveOK(r)'
    <3>1. CASE live[r] \/ (pc[r] = "done" /\ status[r] # 200)
      BY <3>1 DEF LiveOK, Same
    <3>2. CASE \E t \in Presented(call[r]) : Excused(r, t)
      BY <3>2, <2>1, <2>2, <2>3, ExcuseStays DEF LiveOK, Same
    <3> QED
      BY <2>1, <3>1, <3>2 DEF LiveOK
  <2> QED
    BY <1>2, <2>1, <2>2, <2>4, <2>5, <2>6, <2>7, <2>8 DEF SlotOK, Same
<1> QED
  BY <1>1, <1>2 DEF SlotOK

-----------------------------------------------------------------------------
(* How a statement ends for its handler.                                   *)

\* What a busy slot is known to hold.
LEMMA BusySlot ==
    ASSUME TokenInv, NEW r \in Requests, pc[r] # "idle"
    PROVE  /\ call[r] \in Calls
           /\ \A t \in Presented(call[r]) : Issued(t[1])
           /\ \A p \in made[r] : Issued(p)
           /\ StageOK(r) /\ StatusOK(r) /\ LiveOK(r)
           /\ pc[r] \notin {"reply", "done"} => status[r] = 0
BY DEF TokenInv, SlotOK, StatusOK

\* Nothing about a pair is lost when no pair is made or delivered.
LEMMA PairsKept ==
    ASSUME TypeOK, TypeOK', Evolves, PairsOK, UNCHANGED <<pairs, delivered>>
    PROVE  PairsOK'
<1>1. \A p \in delivered' : Issued(p)'
  BY DEF PairsOK, Issued
<1>2. ASSUME NEW p \in Pairs, Issued(p)', pairs'[p].parent # None
      PROVE  /\ Issued(pairs[p].parent)'
             /\ Spent(pairs[p].parent, "refresh")'
             /\ (pairs[pairs[p].parent].user = pairs[p].user)'
  <2>1. Issued(p) /\ pairs[p].parent # None
    BY <1>2 DEF Issued
  <2>2. /\ Issued(pairs[p].parent) /\ pairs[p].parent \in Pairs
        /\ Spent(pairs[p].parent, "refresh")
        /\ pairs[pairs[p].parent].user = pairs[p].user
    BY <2>1 DEF PairsOK, Issued
  <2>3. \A q \in Pairs : Issued(q) /\ Spent(q, "refresh") => Spent(q, "refresh")'
    BY SpentStays
  <2>4. Spent(pairs[p].parent, "refresh")'
    <3> DEFINE f == pairs[p].parent
    <3>1. Spent(f, "refresh")'
      BY <2>2, <2>3
    <3> QED
      BY <3>1 DEF Spent, Exp
  <2> QED
    BY <2>2, <2>4 DEF Issued
<1> QED
  BY <1>1, <1>2 DEF PairsOK

\* One slot moves, and the whole invariant holds again.
LEMMA OneSlotMoves ==
    ASSUME TokenInv, NEW r \in Requests, TypeOK', Evolves,
           \A q \in Requests \ {r} : Same(q),
           PairsOK', SlotOK(r)',
           status'[r] = 201 =>
              \/ status[r] = 201 /\ call'[r] = call[r]
              \/ call'[r].name \notin users
    PROVE  TokenInv'
<1>1. \A q \in Requests : SlotOK(q)'
  BY SlotStays DEF TokenInv
<1>2. NamesGivenOnce'
  <2> SUFFICES ASSUME NEW q \in Requests, NEW s \in Requests, q # s,
                      status'[q] = 201, status'[s] = 201
               PROVE  call'[q].name # call'[s].name
    BY DEF NamesGivenOnce
  <2>1. \A x \in Requests \ {r} : status'[x] = 201 =>
           status[x] = 201 /\ call'[x] = call[x] /\ call[x].name \in users
    BY BusySlot DEF Same, TokenInv, SlotOK, StatusOK
  <2> QED
    BY <2>1 DEF TokenInv, NamesGivenOnce
<1> QED
  BY <1>1, <1>2 DEF TokenInv

\* Going on to another statement.
LEMMA GoesOn ==
    ASSUME TokenInv, NEW r \in Requests,
           NEW stage \in Stages \ {"idle", "reply", "done"},
           pc[r] \notin {"idle", "reply", "done"},
           Goto(r, stage), UNCHANGED Tables,
           StageOK(r)', LiveOK(r)',
           stage = "revoke" => pairs[call[r].access].user = pairs[call[r].refresh].user
    PROVE  TokenInv'
<1>1. TypeOK'
  BY DEF TokenInv, TypeOK, Goto, Tables
<1>2. Evolves
  BY DEF TokenInv, TypeOK, Goto, Tables, Evolves
<1>3. \A q \in Requests \ {r} : Same(q)
  BY DEF TokenInv, TypeOK, Goto, Same
<1>4. PairsOK'
  BY <1>1, <1>2, PairsKept DEF Goto, TokenInv
<1>5. /\ pc'[r] = stage /\ status'[r] = 0 /\ call'[r] = call[r] /\ made'[r] = made[r]
      /\ Presented(call[r])' = Presented(call[r])
  BY BusySlot DEF Goto, TokenInv, TypeOK, Presented
<1>6. StatusOK(r)'
  BY <1>5, BusySlot DEF StatusOK, Goto
<1>7. SlotOK(r)'
  BY <1>5, <1>6, BusySlot DEF SlotOK, Goto, Issued
<1> QED
  BY <1>1, <1>2, <1>3, <1>4, <1>5, <1>7, OneSlotMoves

\* Answering.
LEMMA Answers ==
    ASSUME TokenInv, NEW r \in Requests, NEW code \in {200, 401, 409, 500},
           pc[r] # "idle", Answer(r, code), UNCHANGED Tables,
           code = 200 => call[r].op # "logout" /\ LiveOK(r)'
    PROVE  TokenInv'
<1>1. TypeOK'
  BY DEF TokenInv, TypeOK, Answer, Tables, Stages, Statuses
<1>2. Evolves
  BY DEF TokenInv, TypeOK, Answer, Tables, Evolves
<1>3. \A q \in Requests \ {r} : Same(q)
  BY DEF TokenInv, TypeOK, Answer, Same
<1>4. PairsOK'
  BY <1>1, <1>2, PairsKept DEF Answer, TokenInv
<1>5. /\ pc'[r] = "done" /\ status'[r] = code /\ call'[r] = call[r] /\ made'[r] = made[r]
      /\ Presented(call[r])' = Presented(call[r])
  BY DEF Answer, TokenInv, TypeOK, Presented
<1>6. StatusOK(r)' /\ StageOK(r)'
  BY <1>5 DEF StatusOK, StageOK
<1>7. LiveOK(r)'
  BY <1>5 DEF LiveOK
<1>8. SlotOK(r)'
  BY <1>5, <1>6, <1>7, BusySlot DEF SlotOK, Answer, Issued
<1> QED
  BY <1>1, <1>2, <1>3, <1>4, <1>5, <1>8, OneSlotMoves

\* A handler whose tests and writes entitle it to a pair for u.
Entitled(r, u, parent, code) ==
    /\ u \in Names /\ code \in {200, 201}
    /\ pc[r] \notin {"idle", "reply", "done"} /\ call[r].op # "logout"
    /\ now' = now
    /\ users \subseteq users' /\ users' \subseteq Names
    /\ denylist \subseteq denylist' /\ denylist' \subseteq Pairs \X {"access", "refresh"}
    /\ \/ parent = None
       \/ /\ parent \in Pairs /\ Issued(parent) /\ pairs[parent].user = u
          /\ <<parent, "refresh">> \in denylist'
    /\ \/ code = 200
       \/ call[r].op = "register" /\ call[r].name \in users' \ users
    /\ LiveOK(r)'

\* Making a pair and returning it.
LEMMA Issues ==
    ASSUME TokenInv, NEW r \in Requests, NEW u, NEW parent, NEW code,
           Entitled(r, u, parent, code), Issue(r, u, parent, code)
    PROVE  TokenInv'
<1> USE DEF Entitled
<1>1. PICK p \in Pairs :
         /\ pairs[p] = None
         /\ pairs' = [pairs EXCEPT ![p] = [user |-> u, iat |-> now, parent |-> parent]]
         /\ made' = [made EXCEPT ![r] = {p}]
         /\ pc' = [pc EXCEPT ![r] = "reply"]
         /\ status' = [status EXCEPT ![r] = code]
         /\ UNCHANGED <<delivered, call, live>>
  BY DEF Issue
<1> DEFINE d == [user |-> u, iat |-> now, parent |-> parent]
<1>2. d \in PairData /\ d # None
  BY NoneIsFresh DEF PairData, TokenInv, TypeOK
<1>3. /\ pairs' \in [Pairs -> PairData \cup {None}]
      /\ pairs'[p] = d
      /\ \A q \in Pairs \ {p} : pairs'[q] = pairs[q]
  BY <1>1, <1>2 DEF TokenInv, TypeOK
<1>4. TypeOK'
  BY <1>1, <1>3 DEF TokenInv, TypeOK, Stages, Statuses
<1>5. Evolves
  BY <1>1, <1>3 DEF TokenInv, TypeOK, Evolves, Issued
<1>6. \A q \in Requests \ {r} : Same(q)
  BY <1>1 DEF TokenInv, TypeOK, Same
<1>7. \A q \in Pairs : Issued(q) => Issued(q)'
  BY <1>5, IssuedStays
<1>8. Issued(p)' /\ ~ Issued(p)
  BY <1>1, <1>2, <1>3 DEF Issued
<1>9. PairsOK'
  <2>1. \A q \in delivered' : Issued(q)'
    BY <1>1, <1>7 DEF TokenInv, PairsOK, TypeOK
  <2>2. ASSUME NEW q \in Pairs, Issued(q)', pairs'[q].parent # None
        PROVE  \E f \in Pairs :
                 /\ pairs'[q].parent = f
                 /\ Issued(f)' /\ Spent(f, "refresh")'
                 /\ pairs'[f].user = pairs'[q].user
    <3>1. CASE q = p
      <4>1. parent # None /\ pairs'[q].parent = parent /\ parent # p /\ parent \in Pairs
        BY <3>1, <2>2, <1>3, <1>8
      <4>2. Spent(parent, "refresh")'
        BY <4>1 DEF Spent
      <4> QED
        BY <3>1, <4>1, <4>2, <1>3, <1>7
    <3>2. CASE q # p
      <4>1. pairs'[q] = pairs[q] /\ Issued(q)
        BY <3>2, <2>2, <1>3 DEF Issued
      <4>2. PICK f \in Pairs :
               /\ pairs[q].parent = f /\ Issued(f) /\ Spent(f, "refresh")
               /\ pairs[f].user = pairs[q].user
        BY <4>1, <2>2 DEF TokenInv, PairsOK, Issued
      <4>3. Spent(f, "refresh")' /\ Issued(f)' /\ pairs'[f] = pairs[f]
        BY <4>2, <1>4, <1>5, SpentStays, IssuedStays DEF TokenInv
      <4> QED
        BY <4>1, <4>2, <4>3
    <3> QED
      BY <3>1, <3>2
  <2>3. ASSUME NEW q \in Pairs, Issued(q)', pairs'[q].parent # None
        PROVE  /\ Issued(pairs[q].parent)'
               /\ Spent(pairs[q].parent, "refresh")'
               /\ (pairs[pairs[q].parent].user = pairs[q].user)'
    <3>1. PICK f \in Pairs :
             /\ pairs'[q].parent = f
             /\ Issued(f)' /\ Spent(f, "refresh")'
             /\ pairs'[f].user = pairs'[q].user
      BY <2>2, <2>3
    <3> QED
      BY <3>1 DEF Issued, Spent, Exp
  <2> QED
    BY <2>1, <2>3 DEF PairsOK
<1>10. /\ pc'[r] = "reply" /\ status'[r] = code /\ call'[r] = call[r] /\ made'[r] = {p}
       /\ Presented(call[r])' = Presented(call[r])
  BY <1>1 DEF TokenInv, TypeOK, Presented
<1>11. StatusOK(r)' /\ StageOK(r)'
  BY <1>10 DEF StatusOK, StageOK
<1>12. SlotOK(r)'
  <2>1. call[r] \in Calls /\ \A t \in Presented(call[r]) : Issued(t[1]) /\ t[1] \in Pairs
    BY BusySlot, PresentedTokens
  <2> QED
    BY <2>1, <1>7, <1>8, <1>10, <1>11 DEF SlotOK
<1> QED
  BY <1>4, <1>5, <1>6, <1>9, <1>10, <1>12, OneSlotMoves

-----------------------------------------------------------------------------
(* The steps.                                                              *)

\* A request keeps its excuse when each of its tokens does.
LEMMA LiveMoves ==
    ASSUME NEW r \in Requests, LiveOK(r), pc[r] # "done",
           call'[r] = call[r], live'[r] = live[r],
           \A t \in Presented(call[r]) : Excused(r, t) => Excused(r, t)'
    PROVE  LiveOK(r)'
<1>1. Presented(call[r])' = Presented(call[r])
  BY DEF Presented
<1> QED
  BY <1>1 DEF LiveOK

\* A call arrives: a token that is not good now is denied or expired.
LEMMA ReceiveInv ==
    ASSUME TokenInv, NEW r \in Requests, NEW c \in Calls, Receive(r, c)
    PROVE  TokenInv'
<1> DEFINE good == \A t \in Presented(c) : now < Exp(t[1], t[2]) /\ t \notin denylist
<1>1. /\ call' = [call EXCEPT ![r] = c] /\ live' = [live EXCEPT ![r] = good]
      /\ UNCHANGED <<now, users, denylist, pairs, delivered, status, made>>
  BY DEF Receive, Tables
<1>2. TypeOK'
  BY <1>1 DEF TokenInv, TypeOK, Receive, Stages
<1>3. Evolves
  BY <1>1 DEF TokenInv, TypeOK, Evolves
<1>4. \A q \in Requests \ {r} : Same(q)
  BY DEF TokenInv, TypeOK, Receive, Same
<1>5. PairsOK'
  BY <1>1, <1>2, <1>3, PairsKept DEF TokenInv
<1>6. /\ call'[r] = c /\ live'[r] = good
      /\ pc'[r] = IF c.op \in {"register", "login"} THEN "lookup" ELSE "decode"
      /\ status'[r] = 0 /\ made'[r] = {}
  BY <1>1 DEF Receive, TokenInv, TypeOK, SlotOK
<1>7. \A t \in Presented(c) : t \in Pairs \X {"access", "refresh"} /\ Issued(t[1])
  <2>1. \A p \in {c.access, c.refresh} \ {None} : Issued(p)
    BY DEF Receive, TokenInv, PairsOK
  <2> QED
    BY <2>1, PresentedTokens DEF Presented
<1>8. LiveOK(r)'
  <2> SUFFICES ASSUME ~ good
               PROVE  \E t \in Presented(c) : Excused(r, t)'
    BY <1>6 DEF LiveOK, Presented
  <2>1. PICK t \in Presented(c) : ~ (now < Exp(t[1], t[2]) /\ t \notin denylist)
    OBVIOUS
  <2>2. t = <<t[1], t[2]>> /\ t[1] \in Pairs
    BY <1>7
  <2>3. Exp(t[1], t[2]) \in Nat /\ now \in Nat
    BY <2>2, <1>7, ExpNat DEF TokenInv, TypeOK
  <2>4. Spent(t[1], t[2])
    BY <2>1, <2>2, <2>3 DEF Spent
  <2>5. Spent(t[1], t[2])'
    BY <2>4, <1>1 DEF Spent, Exp
  <2>6. Undecoded(r, t)'
    BY <1>6, PresentedTokens DEF Undecoded, Second
  <2> QED
    BY <2>5, <2>6 DEF Excused
<1>9. StageOK(r)' /\ StatusOK(r)'
  BY <1>6, CallFields DEF StageOK, StatusOK
<1>10. SlotOK(r)'
  BY <1>1, <1>6, <1>7, <1>8, <1>9 DEF SlotOK, Issued, Presented
<1> QED
  BY <1>2, <1>3, <1>4, <1>5, <1>6, <1>10, OneSlotMoves

\* Registration and login present no token.
LEMMA AccountInv ==
    ASSUME TokenInv, NEW r \in Requests,
           RegisterLookup(r) \/ RegisterInsert(r) \/ RegisterRecheck(r) \/ Login(r)
    PROVE  TokenInv'
<1>1. pc[r] \in {"lookup", "insert", "recheck"} /\ call[r].op \in {"register", "login"}
  BY DEF RegisterLookup, RegisterInsert, RegisterRecheck, Login, At
<1>2. call[r] \in Calls /\ LiveOK(r) /\ Presented(call[r]) = {} /\ call[r].name \in Names
  BY <1>1, BusySlot, CallFields, PresentedTokens
<1>3. live[r]
  BY <1>1, <1>2 DEF LiveOK
<1>4. live' = live => LiveOK(r)'
  BY <1>3 DEF LiveOK
<1>5. CASE RegisterLookup(r)
  <2>1. CASE call[r].name \in users
    BY <1>1, <1>5, <2>1, Answers DEF RegisterLookup
  <2>2. CASE call[r].name \notin users
    <3>1. Goto(r, "insert") /\ UNCHANGED Tables /\ call[r].op = "register"
      BY <1>5, <2>2 DEF RegisterLookup, At
    <3>2. StageOK(r)'
      BY <3>1 DEF StageOK, Goto, TokenInv, TypeOK
    <3> QED
      BY <1>1, <1>4, <3>1, <3>2, GoesOn DEF Goto, Stages
  <2> QED
    BY <2>1, <2>2
<1>6. CASE RegisterInsert(r)
  <2>1. CASE call[r].name \in users
    <3>1. Goto(r, "recheck") /\ UNCHANGED Tables /\ call[r].op = "register"
      BY <1>6, <2>1 DEF RegisterInsert, At, Tables
    <3>2. StageOK(r)'
      BY <3>1 DEF StageOK, Goto, TokenInv, TypeOK
    <3> QED
      BY <1>1, <1>4, <3>1, <3>2, GoesOn DEF Goto, Stages
  <2>2. CASE call[r].name \notin users
    <3>1. /\ users' = users \cup {call[r].name} /\ call[r].op = "register"
          /\ Issue(r, call[r].name, None, 201) /\ now' = now /\ denylist' = denylist
      BY <1>6, <2>2 DEF RegisterInsert, At
    <3>2. live' = live
      BY <3>1 DEF Issue
    <3>3. Entitled(r, call[r].name, None, 201)
      BY <1>1, <1>2, <1>4, <2>2, <3>1, <3>2 DEF Entitled, TokenInv, TypeOK
    <3> QED
      BY <3>1, <3>3, Issues
  <2> QED
    BY <2>1, <2>2
<1>7. CASE RegisterRecheck(r)
  BY <1>1, <1>7, Answers DEF RegisterRecheck
<1>8. CASE Login(r)
  <2>1. CASE Issue(r, call[r].name, None, 200)
    <3>1. live' = live /\ UNCHANGED <<now, users, denylist>>
      BY <1>8, <2>1 DEF Issue, Login, Tables
    <3>2. Entitled(r, call[r].name, None, 200)
      BY <1>1, <1>2, <1>4, <3>1 DEF Entitled, TokenInv, TypeOK
    <3> QED
      BY <2>1, <3>2, Issues
  <2>2. CASE Answer(r, 401)
    BY <1>1, <1>8, <2>2, Answers DEF Login
  <2> QED
    BY <1>8, <2>1, <2>2 DEF Login
<1> QED
  BY <1>5, <1>6, <1>7, <1>8

\* verify_token of the first token.
LEMMA VerifyInv ==
    ASSUME TokenInv, NEW r \in Requests, Decode(r) \/ CheckDenylist(r)
    PROVE  TokenInv'
<1>1. pc[r] \in {"decode", "denylist"} /\ call[r].op \in {"refresh", "logout", "use"}
      /\ UNCHANGED Tables
  BY DEF Decode, CheckDenylist, At
<1>2. call[r] \in Calls /\ LiveOK(r)
  BY <1>1, BusySlot
<1> DEFINE first == IF call[r].op = "refresh" THEN <<call[r].refresh, "refresh">>
                                              ELSE <<call[r].access, "access">>
<1>3. /\ first \in Presented(call[r])
      /\ \A t \in Presented(call[r]) : t = first <=> ~ Second(r, t)
  BY <1>1, <1>2, PresentedTokens, CallFields DEF Second
<1>4. \A t \in Presented(call[r]) : Issued(t[1]) /\ t[1] \in Pairs
  BY <1>1, <1>2, BusySlot, PresentedTokens
<1>5. now \in Nat /\ \A t \in Presented(call[r]) : Exp(t[1], t[2]) \in Nat
  BY <1>4, ExpNat DEF TokenInv, TypeOK
<1>6. CASE Decode(r)
  <2>1. pc[r] = "decode"
    BY <1>6 DEF Decode, At
  <2>2. CASE now < Exp(first[1], first[2])
    <3>1. Goto(r, "denylist")
      BY <1>6, <2>2 DEF Decode, Decodes
    <3>2. /\ pc'[r] = "denylist" /\ call'[r] = call[r] /\ live'[r] = live[r]
          /\ UNCHANGED <<now, denylist, pairs>>
      BY <3>1, <1>1 DEF Goto, TokenInv, TypeOK, Tables
    <3>3. ASSUME NEW t \in Presented(call[r]), Excused(r, t)
          PROVE  Excused(r, t)'
      <4>1. Purged(t)' = Purged(t) /\ Spent(t[1], t[2])' = Spent(t[1], t[2])
        BY <3>2 DEF Purged, Spent, Exp
      <4>2. t = first => (Spent(t[1], t[2]) => t \in denylist')
        BY <2>2, <1>5, <3>2 DEF Spent
      <4>3. CASE t = first
        BY <4>1, <4>2, <4>3, <1>3, <2>1, <3>2, <3>3
           DEF Excused, Undecoded, Unlooked, Second
      <4>4. CASE t # first
        BY <4>1, <4>4, <1>3, <2>1, <3>2, <3>3 DEF Excused, Undecoded, Unlooked, Second
      <4> QED
        BY <4>3, <4>4
    <3>4. LiveOK(r)'
      BY <1>2, <2>1, <3>2, <3>3, LiveMoves
    <3>5. StageOK(r)'
      BY <1>1, <3>2 DEF StageOK
    <3> QED
      BY <1>1, <2>1, <3>1, <3>4, <3>5, GoesOn DEF Stages
  <2>3. CASE ~ (now < Exp(first[1], first[2]))
    <3>1. Answer(r, 401)
      BY <1>6, <2>3 DEF Decode, Decodes
    <3> QED
      BY <1>1, <3>1, Answers
  <2> QED
    BY <2>2, <2>3
<1>7. CASE CheckDenylist(r)
  <2>1. pc[r] = "denylist"
    BY <1>7 DEF CheckDenylist, At
  <2>2. CASE first \in denylist
    <3>1. Answer(r, 401)
      BY <1>7, <2>2 DEF CheckDenylist
    <3> QED
      BY <1>1, <3>1, Answers
  <2>3. CASE first \notin denylist
    <3>1. ASSUME NEW stage \in {"rotate", "decodeRefresh", "done"},
                 pc'[r] = stage, call'[r] = call[r], live'[r] = live[r],
                 UNCHANGED <<now, denylist, pairs>>,
                 call[r].op = "logout" <=> stage = "decodeRefresh"
          PROVE  LiveOK(r)'
      <4>1. ASSUME NEW t \in Presented(call[r]), Excused(r, t)
            PROVE  Excused(r, t)'
        <5>1. Purged(t)' = Purged(t) /\ Spent(t[1], t[2])' = Spent(t[1], t[2])
          BY <3>1 DEF Purged, Spent, Exp
        <5>2. CASE t = first
          BY <5>1, <5>2, <1>3, <2>1, <2>3, <3>1, <4>1
             DEF Excused, Undecoded, Unlooked, Second
        <5>3. CASE t # first
          BY <5>1, <5>3, <1>3, <2>1, <3>1, <4>1 DEF Excused, Undecoded, Unlooked, Second
        <5> QED
          BY <5>2, <5>3
      <4> QED
        BY <1>2, <2>1, <3>1, <4>1, LiveMoves
    <3>2. CASE call[r].op = "use"
      <4>1. Answer(r, 200)
        BY <1>7, <2>3, <3>2 DEF CheckDenylist
      <4>2. /\ pc'[r] = "done" /\ call'[r] = call[r] /\ live'[r] = live[r]
            /\ UNCHANGED <<now, denylist, pairs>>
        BY <4>1, <1>1 DEF Answer, TokenInv, TypeOK, Tables
      <4>3. LiveOK(r)'
        BY <3>1, <3>2, <4>2
      <4> QED
        BY <1>1, <3>2, <4>1, <4>3, Answers
    <3>3. CASE call[r].op \in {"refresh", "logout"}
      <4> DEFINE stage == IF call[r].op = "refresh" THEN "rotate" ELSE "decodeRefresh"
      <4>1. Goto(r, stage)
        BY <1>7, <2>3, <3>3 DEF CheckDenylist
      <4>2. /\ pc'[r] = stage /\ call'[r] = call[r] /\ live'[r] = live[r]
            /\ UNCHANGED <<now, denylist, pairs>>
        BY <4>1, <1>1 DEF Goto, TokenInv, TypeOK, Tables
      <4>3. LiveOK(r)' /\ StageOK(r)'
        BY <3>1, <3>3, <4>2 DEF StageOK
      <4>4. stage \in Stages \ {"idle", "reply", "done"} /\ stage # "revoke"
        BY DEF Stages
      <4> QED
        BY <1>1, <4>1, <4>3, <4>4, GoesOn
    <3> QED
      BY <1>1, <3>2, <3>3
  <2> QED
    BY <2>2, <2>3
<1> QED
  BY <1>6, <1>7

\* verify_token of a logout's refresh token, and the match of the two users.
LEMMA VerifySecondInv ==
    ASSUME TokenInv, NEW r \in Requests, DecodeRefresh(r) \/ CheckDenylistRefresh(r)
    PROVE  TokenInv'
<1>1. /\ pc[r] \in {"decodeRefresh", "denylistRefresh"} /\ call[r].op = "logout"
      /\ UNCHANGED Tables
  BY DEF DecodeRefresh, CheckDenylistRefresh, At
<1>2. call[r] \in Calls /\ LiveOK(r)
  BY <1>1, BusySlot
<1> DEFINE a == <<call[r].access, "access">>
           f == <<call[r].refresh, "refresh">>
<1>3. Presented(call[r]) = {a, f} /\ Second(r, f) /\ ~ Second(r, a)
  BY <1>1, <1>2, PresentedTokens DEF Second
<1>4. now \in Nat /\ Exp(f[1], f[2]) \in Nat
  <2>1. Issued(f[1]) /\ f[1] \in Pairs
    BY <1>1, <1>2, <1>3, BusySlot, CallFields
  <2> QED
    BY <2>1, ExpNat DEF TokenInv, TypeOK
<1>5. ASSUME NEW stage \in Stages \ {"idle", "reply", "done"}, Goto(r, stage),
             Excused(r, f) => Excused(r, f)', StageOK(r)',
             stage = "revoke" =>
                pairs[call[r].access].user = pairs[call[r].refresh].user
      PROVE  TokenInv'
  <2>1. UNCHANGED <<now, denylist, pairs>> /\ call'[r] = call[r] /\ live'[r] = live[r]
    BY <1>1, <1>5 DEF Goto, Tables
  <2>2. Excused(r, a) => Excused(r, a)'
    BY <1>1, <1>3, <2>1 DEF Excused, Undecoded, Unlooked, Purged, Spent, Exp, Second
  <2>3. LiveOK(r)'
    BY <1>1, <1>2, <1>3, <1>5, <2>1, <2>2, LiveMoves
  <2> QED
    BY <1>1, <1>5, <2>3, GoesOn
<1>6. CASE DecodeRefresh(r)
  <2>1. pc[r] = "decodeRefresh"
    BY <1>6 DEF DecodeRefresh, At
  <2>2. CASE now < Exp(f[1], f[2])
    <3>1. Goto(r, "denylistRefresh")
      BY <1>6, <2>2 DEF DecodeRefresh, Decodes
    <3>2. /\ pc'[r] = "denylistRefresh" /\ call'[r] = call[r]
          /\ UNCHANGED <<now, denylist, pairs>>
      BY <3>1, <1>1 DEF Goto, TokenInv, TypeOK, Tables
    <3>3. Spent(f[1], f[2]) => f \in denylist'
      BY <2>2, <1>4, <3>2 DEF Spent
    <3>4. Excused(r, f) => Excused(r, f)'
      BY <1>3, <2>1, <3>2, <3>3 DEF Excused, Undecoded, Unlooked, Purged, Exp, Second
    <3>5. StageOK(r)'
      BY <1>1, <3>2 DEF StageOK
    <3> QED
      BY <3>1, <3>4, <3>5, <1>5 DEF Stages
  <2>3. CASE ~ (now < Exp(f[1], f[2]))
    BY <1>1, <1>6, <2>3, Answers DEF DecodeRefresh, Decodes
  <2> QED
    BY <2>2, <2>3
<1>7. CASE CheckDenylistRefresh(r)
  <2>1. pc[r] = "denylistRefresh"
    BY <1>7 DEF CheckDenylistRefresh, At
  <2>2. CASE f \in denylist \/ pairs[call[r].refresh].user # pairs[call[r].access].user
    BY <1>1, <1>7, <2>2, Answers DEF CheckDenylistRefresh
  <2>3. CASE f \notin denylist /\ pairs[call[r].refresh].user = pairs[call[r].access].user
    <3>1. Goto(r, "revoke")
      BY <1>7, <2>3 DEF CheckDenylistRefresh
    <3>2. /\ pc'[r] = "revoke" /\ call'[r] = call[r]
          /\ UNCHANGED <<now, denylist, pairs>>
      BY <3>1, <1>1 DEF Goto, TokenInv, TypeOK, Tables
    <3>3. Excused(r, f) => Excused(r, f)'
      BY <1>3, <2>1, <2>3, <3>2 DEF Excused, Undecoded, Unlooked, Purged, Exp, Second
    <3>4. StageOK(r)'
      BY <1>1, <3>2 DEF StageOK
    <3> QED
      BY <2>3, <3>1, <3>3, <3>4, <1>5 DEF Stages
  <2> QED
    BY <2>2, <2>3
<1> QED
  BY <1>6, <1>7

\* refresh: the row is in the denylist before the new pair exists.
LEMMA RotateInv ==
    ASSUME TokenInv, NEW r \in Requests, Rotate(r)
    PROVE  TokenInv'
<1> DEFINE f == call[r].refresh
<1>1. /\ pc[r] = "rotate" /\ call[r].op = "refresh"
      /\ denylist' = denylist \cup {<<f, "refresh">>}
      /\ Issue(r, pairs[f].user, f, 200) /\ UNCHANGED <<now, users>>
  BY DEF Rotate, At
<1>2. call[r] \in Calls /\ LiveOK(r) /\ f \in Pairs /\ f # None
  BY <1>1, BusySlot, CallFields, NoneIsFresh
<1>3. Presented(call[r]) = {<<f, "refresh">>}
  BY <1>1, <1>2, PresentedTokens
<1>4. Issued(f) /\ pairs[f].user \in Names
  <2>1. \A t \in Presented(call[r]) : Issued(t[1])
    BY <1>1, BusySlot
  <2>2. Issued(<<f, "refresh">>[1])
    BY <1>3, <2>1
  <2>3. Issued(f)
    BY <2>2
  <2> QED
    BY <1>2, <2>3, IssuedData DEF TokenInv
<1>5. LiveOK(r)'
  <2>1. PICK p \in Pairs : /\ pairs[p] = None
                           /\ \A q \in Pairs \ {p} : pairs'[q] = pairs[q]
    BY <1>1 DEF Issue, TokenInv, TypeOK
  <2>2. pairs'[f] = pairs[f] /\ pc' = [pc EXCEPT ![r] = "reply"] /\ UNCHANGED <<call, live>>
    BY <1>1, <1>2, <1>4, <2>1 DEF Issue, Issued
  <2>3. pc'[r] = "reply"
    BY <2>2 DEF TokenInv, TypeOK
  <2>4. \A t \in Presented(call[r]) : Excused(r, t) => Excused(r, t)'
    BY <1>1, <1>3, <2>2, <2>3 DEF Excused, Undecoded, Unlooked, Second, Purged, Exp
  <2> QED
    BY <1>1, <1>2, <2>2, <2>4, LiveMoves
<1>6. Entitled(r, pairs[f].user, f, 200)
  BY <1>1, <1>2, <1>4, <1>5 DEF Entitled, TokenInv, TypeOK
<1>7. Issue(r, pairs[f].user, f, 200)
  BY <1>1
<1> QED
  BY <1>6, <1>7, Issues

\* logout: both rows at once.
LEMMA RevokeInv ==
    ASSUME TokenInv, NEW r \in Requests, Revoke(r)
    PROVE  TokenInv'
<1>1. /\ pc[r] = "revoke" /\ call[r].op = "logout"
      /\ denylist' = denylist \cup Presented(call[r])
      /\ pc' = [pc EXCEPT ![r] = "reply"] /\ status' = [status EXCEPT ![r] = 200]
      /\ UNCHANGED <<now, users, pairs, delivered, call, made, live>>
  BY DEF Revoke, At
<1>2. /\ call[r] \in Calls /\ LiveOK(r) /\ StatusOK(r)
      /\ Presented(call[r]) \subseteq Pairs \X {"access", "refresh"}
      /\ \A t \in Presented(call[r]) : Issued(t[1])
      /\ \A p \in made[r] : Issued(p)
  BY <1>1, BusySlot, PresentedTokens
<1>3. TypeOK'
  BY <1>1, <1>2 DEF TokenInv, TypeOK, Stages, Statuses
<1>4. Evolves
  BY <1>1 DEF TokenInv, TypeOK, Evolves
<1>5. \A q \in Requests \ {r} : Same(q)
  BY <1>1 DEF TokenInv, TypeOK, Same
<1>6. PairsOK'
  BY <1>1, <1>3, <1>4, PairsKept DEF TokenInv
<1>7. pc'[r] = "reply" /\ status'[r] = 200
  BY <1>1 DEF TokenInv, TypeOK
<1>8. LiveOK(r)'
  <2>1. \A t \in Presented(call[r]) : Excused(r, t) => Excused(r, t)'
    BY <1>1, <1>7 DEF Excused, Undecoded, Unlooked, Second, Purged, Exp
  <2> QED
    BY <1>1, <1>2, <2>1, LiveMoves
<1>9. StageOK(r)' /\ StatusOK(r)'
  <2>1. \A t \in Presented(call[r]) : Spent(t[1], t[2])'
    BY <1>1, <1>2 DEF Spent
  <2> QED
    BY <1>1, <1>2, <1>7, <2>1 DEF StageOK, StatusOK, Presented
<1>10. SlotOK(r)'
  BY <1>1, <1>2, <1>7, <1>8, <1>9 DEF SlotOK, Presented, Issued
<1> QED
  BY <1>3, <1>4, <1>5, <1>6, <1>7, <1>10, OneSlotMoves

\* The reply delivers the pairs it carries.
LEMMA ReplyInv ==
    ASSUME TokenInv, NEW r \in Requests, Reply(r)
    PROVE  TokenInv'
<1>1. /\ pc[r] = "reply" /\ pc' = [pc EXCEPT ![r] = "done"]
      /\ delivered' = delivered \cup made[r]
      /\ UNCHANGED <<now, users, denylist, pairs, call, status, made, live>>
  BY DEF Reply, Tables
<1>2. /\ call[r] \in Calls /\ LiveOK(r) /\ StatusOK(r)
      /\ \A t \in Presented(call[r]) : Issued(t[1])
      /\ \A p \in made[r] : Issued(p)
  BY <1>1, BusySlot
<1>3. TypeOK'
  BY <1>1 DEF TokenInv, TypeOK, Stages
<1>4. Evolves
  BY <1>1 DEF TokenInv, TypeOK, Evolves
<1>5. \A q \in Requests \ {r} : Same(q)
  BY <1>1 DEF TokenInv, TypeOK, Same
<1>6. PairsOK'
  BY <1>1, <1>2 DEF TokenInv, PairsOK, Issued, Spent, Exp
<1>7. pc'[r] = "done"
  BY <1>1 DEF TokenInv, TypeOK
<1>8. LiveOK(r)'
  <2>1. \A t \in Presented(call[r]) : Excused(r, t) => Excused(r, t)'
    BY <1>1, <1>7 DEF Excused, Undecoded, Unlooked, Second, Purged, Exp
  <2> QED
    BY <1>1, <1>2, <2>1, LiveMoves
<1>9. StageOK(r)' /\ StatusOK(r)'
  BY <1>1, <1>2, <1>7 DEF StageOK, StatusOK, Presented, Spent, Exp
<1>10. SlotOK(r)'
  BY <1>1, <1>2, <1>7, <1>8, <1>9 DEF SlotOK, Presented, Issued
<1> QED
  BY <1>1, <1>3, <1>4, <1>5, <1>6, <1>10, OneSlotMoves

\* A failure answers 500; a finished slot is free again.
LEMMA EndInv ==
    ASSUME TokenInv, NEW r \in Requests, Fail(r) \/ Finish(r)
    PROVE  TokenInv'
<1>1. CASE Fail(r)
  BY <1>1, Answers DEF Fail
<1>2. CASE Finish(r)
  <2>1. /\ call' = [call EXCEPT ![r] = None] /\ pc' = [pc EXCEPT ![r] = "idle"]
        /\ status' = [status EXCEPT ![r] = 0] /\ made' = [made EXCEPT ![r] = {}]
        /\ live' = [live EXCEPT ![r] = TRUE]
        /\ UNCHANGED <<now, users, denylist, pairs, delivered>>
    BY <1>2 DEF Finish, Tables
  <2>2. TypeOK'
    BY <2>1 DEF TokenInv, TypeOK, Stages, Statuses
  <2>3. Evolves
    BY <2>1 DEF TokenInv, TypeOK, Evolves
  <2>4. \A q \in Requests \ {r} : Same(q)
    BY <2>1 DEF TokenInv, TypeOK, Same
  <2>5. PairsOK'
    BY <2>1, <2>2, <2>3, PairsKept DEF TokenInv
  <2>6. SlotOK(r)' /\ status'[r] = 0
    BY <2>1 DEF SlotOK, TokenInv, TypeOK
  <2> QED
    BY <2>2, <2>3, <2>4, <2>5, <2>6, OneSlotMoves
<1> QED
  BY <1>1, <1>2

\* Time and the purge leave every slot alone.
LEMMA ClockInv ==
    ASSUME TokenInv, Tick \/ Purge
    PROVE  TokenInv'
<1>1. /\ UNCHANGED <<users, pairs, delivered, call, pc, status, made, live>>
      /\ now' \in 0..MaxTime /\ denylist' \subseteq denylist
  BY TokenAssumptions DEF Tick, Purge, TokenInv, TypeOK
<1>2. TypeOK'
  BY <1>1 DEF TokenInv, TypeOK
<1>3. Evolves
  <2>1. now <= now'
    BY DEF Tick, Purge, TokenInv, TypeOK
  <2>2. ASSUME NEW t \in denylist, Issued(t[1])
        PROVE  t \in denylist' \/ (Purging /\ Exp(t[1], t[2]) < now')
    <3>1. Exp(t[1], t[2]) \in Nat /\ now \in Nat
      BY <2>2, ExpNat DEF TokenInv, TypeOK, Issued
    <3> QED
      BY <2>2, <3>1 DEF Tick, Purge
  <2> QED
    BY <1>1, <2>1, <2>2 DEF Evolves, Issued
<1>4. PairsOK'
  BY <1>1, <1>2, <1>3, PairsKept DEF TokenInv
<1>5. \A r \in Requests : SlotOK(r)'
  BY <1>1, <1>2, <1>3, SlotStays DEF TokenInv, Same
<1>6. NamesGivenOnce'
  BY <1>1 DEF TokenInv, NamesGivenOnce
<1> QED
  BY <1>2, <1>4, <1>5, <1>6 DEF TokenInv

LEMMA InitInv == Init => TokenInv
<1> SUFFICES ASSUME Init PROVE TokenInv
  OBVIOUS
<1>1. TypeOK
  BY TokenAssumptions DEF Init, TypeOK, Stages, Statuses
<1>2. PairsOK
  BY DEF Init, PairsOK, Issued
<1>3. NamesGivenOnce
  BY DEF Init, NamesGivenOnce
<1>4. \A r \in Requests : SlotOK(r)
  BY DEF Init, SlotOK
<1> QED
  BY <1>1, <1>2, <1>3, <1>4 DEF TokenInv

LEMMA NextInv == TokenInv /\ Next => TokenInv'
<1> SUFFICES ASSUME TokenInv, Next PROVE TokenInv'
  OBVIOUS
<1>1. CASE Tick \/ Purge
  BY <1>1, ClockInv
<1>2. ASSUME NEW r \in Requests, NEW c \in Calls, Receive(r, c)
      PROVE  TokenInv'
  BY <1>2, ReceiveInv
<1>3. ASSUME NEW r \in Requests, Handle(r)
      PROVE  TokenInv'
  BY <1>3, AccountInv, VerifyInv, VerifySecondInv, RotateInv, RevokeInv, ReplyInv, EndInv
     DEF Handle
<1>4. ASSUME NEW r \in Requests, Finish(r)
      PROVE  TokenInv'
  BY <1>4, EndInv
<1> QED
  BY <1>1, <1>2, <1>3, <1>4 DEF Next

LEMMA StutterInv == TokenInv /\ UNCHANGED vars => TokenInv'
<1> SUFFICES ASSUME TokenInv, UNCHANGED vars PROVE TokenInv'
  OBVIOUS
<1>1. TypeOK' /\ Evolves /\ \A r \in Requests : Same(r)
  BY DEF TokenInv, TypeOK, vars, Evolves, Same
<1>2. PairsOK'
  BY <1>1, PairsKept DEF TokenInv, vars
<1>3. \A r \in Requests : SlotOK(r)'
  BY <1>1, SlotStays DEF TokenInv
<1>4. NamesGivenOnce'
  BY DEF TokenInv, NamesGivenOnce, vars
<1> QED
  BY <1>1, <1>2, <1>3, <1>4 DEF TokenInv

-----------------------------------------------------------------------------
(* The theorems.                                                           *)

\* Every step of every request preserves the invariant.
THEOREM TokenInvariance == Spec => []TokenInv
BY InitInv, NextInv, StutterInv, PTL DEF Spec

\* The variables of auth_routes.py and its tables keep their types.
THEOREM TokenTypesHold == Spec => []TypeOK
<1>1. TokenInv => TypeOK
  BY DEF TokenInv
<1> QED
  BY <1>1, TokenInvariance, PTL

\* token_required, refresh and logout succeed only with tokens that were good
\* on arrival, but for a row purged between the halves of verify_token.
THEOREM OnlyLiveTokensAccepted == Spec => []AcceptedWereLive
<1>1. TokenInv => AcceptedWereLive
  <2> SUFFICES ASSUME TokenInv, NEW r \in Requests, status[r] = 200, ~ live[r]
               PROVE  Purging /\ \E t \in Presented(call[r]) : Exp(t[1], t[2]) < now
    BY DEF AcceptedWereLive
  <2>1. pc[r] \in {"reply", "done"} /\ LiveOK(r)
    BY DEF TokenInv, SlotOK, StatusOK
  <2>2. PICK t \in Presented(call[r]) : Excused(r, t)
    BY <2>1 DEF LiveOK
  <2>3. Purged(t)
    BY <2>1, <2>2 DEF Excused, Undecoded, Unlooked
  <2> QED
    BY <2>3 DEF Purged
<1> QED
  BY <1>1, TokenInvariance, PTL

\* An acknowledged logout has spent both tokens, which were of one user.
THEOREM LogoutIsFinal == Spec => []LogoutEndsBoth
<1>1. TokenInv => LogoutEndsBoth
  BY DEF TokenInv, LogoutEndsBoth, SlotOK, StatusOK
<1> QED
  BY <1>1, TokenInvariance, PTL

\* The token a refresh consumed is spent before its successor is delivered.
THEOREM ParentIsSpent == Spec => []RotationSpendsParent
<1>1. TokenInv => RotationSpendsParent
  BY DEF TokenInv, TypeOK, RotationSpendsParent, PairsOK, Issued
<1> QED
  BY <1>1, TokenInvariance, PTL

\* No username goes to two registrations.
THEOREM NamesAreUnique == Spec => []NamesGivenOnce
<1>1. TokenInv => NamesGivenOnce
  BY DEF TokenInv
<1> QED
  BY <1>1, TokenInvariance, PTL
=============================================================================

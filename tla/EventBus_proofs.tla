--------------------------- MODULE EventBus_proofs ---------------------------
(***************************************************************************)
(* The bus never skips a lifecycle event of a subscriber it keeps, and     *)
(* never sends on a closed channel, for any number of publishers and       *)
(* subscribers and any capacity.  What a subscriber was last given agrees  *)
(* with what each publisher has published, except for the event that       *)
(* publisher is still bringing round; and who waits to send holds the      *)
(* subscriber's lock, without which nobody closes its channel.             *)
(***************************************************************************)
EXTENDS EventBus, TLAPS

Places == {"idle", "deliver", "grace", "remove", "close"}
Due(ev) == IF ev.class = "render" THEN 0 ELSE 1

Types ==
  /\ subs \subseteq Subs
  /\ ch \in [Subs -> Seq(Event)]
  /\ closed \in [Subs -> BOOLEAN]
  /\ mu \in [Subs -> Pubs \cup {Free}]
  /\ pub \in [Pubs -> [at : Places, todo : SUBSET Subs, s : Subs, ev : Event]]
  /\ life \in [Pubs -> Nat]
  /\ last \in [Subs -> [Pubs -> Nat]]
  /\ reader \in [Subs -> {"new", "reading", "left"}]

\* Nobody delivers to a subscriber that is yet to subscribe.
Strangers == \A s \in Subs : reader[s] = "new" => s \notin subs /\ \A p \in Pubs : s \notin pub[p].todo

\* A publisher brings its latest event round, to the subscribers that remain.
Latest == \A p \in Pubs : /\ pub[p].at = "idle" => pub[p].todo = {}
                          /\ pub[p].at \in {"grace", "remove", "close"} => pub[p].s \in pub[p].todo
                          /\ pub[p].at # "idle" => pub[p].ev.n = life[p]

\* Who waits holds the lock of a subscriber whose channel is open.
Waiters == \A p \in Pubs : pub[p].at = "grace" => mu[pub[p].s] = p /\ ~closed[pub[p].s]

\* An open subscriber lacks at most the event it is about to be given.
Reached == \A s \in Subs, p \in Pubs : ~closed[s] =>
             /\ s \in pub[p].todo => last[s][p] + Due(pub[p].ev) = pub[p].ev.n
             /\ s \in subs /\ s \notin pub[p].todo => last[s][p] = life[p]

\* Inductive.
BusInv == Types /\ Strangers /\ Latest /\ Waiters /\ Reached
----------------------------------------------------------------------------
LEMMA BusInvInit == ASSUME Init PROVE BusInv
<1>1. Idle \in [at : Places, todo : SUBSET Subs, s : Subs, ev : Event]
  BY BusAssumption DEF Idle, Places, Event
<1>2. Types
  BY <1>1, BusAssumption DEF Init, Types
<1>3. Strangers /\ Latest /\ Waiters /\ Reached
  BY BusAssumption DEF Init, Strangers, Latest, Waiters, Reached, Idle
<1> QED
  BY <1>2, <1>3 DEF BusInv

\* Publish: everyone on the bus is up to date, and the new event is next.
LEMMA PublishKeeps ==
  ASSUME BusInv, NEW p \in Pubs, NEW class \in {"life", "render", "end"}, Publish(p, class)
  PROVE  BusInv'
<1> DEFINE ev == [from |-> p, class |-> class, n |-> life'[p]]
<1>1. /\ life' = [life EXCEPT ![p] = @ + (IF class = "render" THEN 0 ELSE 1)]
      /\ life' \in [Pubs -> Nat] /\ ev \in Event
  BY DEF BusInv, Types, Publish, Event
<1>2. /\ pub' = [pub EXCEPT ![p] = IF subs = {} THEN Idle ELSE [Idle EXCEPT !.at = "deliver", !.todo = subs, !.ev = ev]]
      /\ pub[p].at = "idle" /\ pub[p].todo = {}
  BY DEF Publish, BusInv, Latest
<1>3. /\ Idle \in [at : Places, todo : SUBSET Subs, s : Subs, ev : Event]
      /\ Idle.at = "idle" /\ Idle.todo = {}
  BY BusAssumption DEF Idle, Places, Event
<1>4. UNCHANGED <<subs, ch, closed, mu, last, reader>>
  BY DEF Publish
<1>5. pub'[p].todo = subs /\ (subs # {} => pub'[p].at = "deliver" /\ pub'[p].ev = ev)
  BY <1>2, <1>3 DEF BusInv, Types
<1>6. \A q \in Pubs \ {p} : pub'[q] = pub[q] /\ life'[q] = life[q]
  BY <1>1, <1>2 DEF BusInv, Types
<1>7. pub' \in [Pubs -> [at : Places, todo : SUBSET Subs, s : Subs, ev : Event]]
  BY <1>1, <1>2, <1>3 DEF BusInv, Types, Places
<1>8. Types'
  BY <1>1, <1>4, <1>7 DEF BusInv, Types
<1>9. pub'[p].at \in {"idle", "deliver"} /\ (pub'[p].at = "idle" <=> subs = {})
  BY <1>2, <1>3 DEF BusInv, Types
<1>10. Strangers' /\ Waiters'
  BY <1>4, <1>5, <1>6, <1>9 DEF BusInv, Strangers, Waiters
<1>11. Latest'
  BY <1>5, <1>6, <1>9 DEF BusInv, Latest
<1>12. Reached'
  <2> SUFFICES ASSUME NEW s \in Subs, NEW q \in Pubs, ~closed[s]
               PROVE  /\ s \in pub'[q].todo => last[s][q] + Due(pub'[q].ev) = pub'[q].ev.n
                      /\ s \in subs /\ s \notin pub'[q].todo => last[s][q] = life'[q]
    BY <1>4 DEF Reached
  <2>1. CASE q # p
    BY <2>1, <1>6 DEF BusInv, Reached
  <2>2. CASE q = p
    <3>1. s \in subs => last[s][p] = life[p] /\ life[p] \in Nat
      BY <1>2 DEF BusInv, Reached, Types
    <3>2. life'[p] = life[p] + (IF class = "render" THEN 0 ELSE 1)
      BY <1>1 DEF BusInv, Types
    <3>3. Due(ev) = (IF class = "render" THEN 0 ELSE 1) /\ ev.n = life'[p]
      BY DEF Due
    <3>4. s \in subs => last[s][p] + Due(ev) = ev.n
      BY <3>1, <3>2, <3>3
    <3> HIDE DEF ev
    <3> QED
      BY <2>2, <1>5, <3>4
  <2> QED
    BY <2>1, <2>2
<1> QED
  BY <1>8, <1>10, <1>11, <1>12 DEF BusInv
----------------------------------------------------------------------------
\* Publish goes on from s with the rest of its snapshot, when s was given
\* the event, is closed, or was not to be given it.
GoesOn(p, s) ==
  /\ s \in pub[p].todo
  /\ pub[p].at \in {"deliver", "grace", "close"}
  /\ pub' = [pub EXCEPT ![p] = Onward(p, s)]
  /\ ch' \in [Subs -> Seq(Event)] /\ closed' \in [Subs -> BOOLEAN]
  /\ UNCHANGED <<subs, life, reader>>
  /\ mu' \in [Subs -> Pubs \cup {Free}]
  /\ \A r \in Subs : r # s => mu'[r] = mu[r] /\ closed'[r] = closed[r]
  /\ closed[s] => closed'[s]
  /\ \A q \in Pubs \ {p} : mu[s] = q => mu'[s] = q /\ closed'[s] = closed[s]
  /\ \/ UNCHANGED last /\ (closed'[s] \/ pub[p].ev.class = "render")
     \/ last' = [last EXCEPT ![s][p] = pub[p].ev.n]

\* Whatever makes Publish go on, the invariant holds with the next subscriber.
LEMMA OnwardKeeps ==
  ASSUME BusInv, NEW p \in Pubs, NEW s, GoesOn(p, s)
  PROVE  BusInv'
<1> USE DEF GoesOn
<1>1. /\ s \in Subs /\ pub[p] \in [at : Places, todo : SUBSET Subs, s : Subs, ev : Event]
      /\ pub[p].ev \in Event /\ pub[p].ev.n \in Nat
  BY DEF BusInv, Types, Event
<1>2. /\ Onward(p, s) \in [at : Places, todo : SUBSET Subs, s : Subs, ev : Event]
      /\ Onward(p, s).todo = pub[p].todo \ {s}
      /\ Onward(p, s).at = "idle" => Onward(p, s).todo = {}
      /\ Onward(p, s).at \in {"idle", "deliver"}
      /\ Onward(p, s).at # "idle" => Onward(p, s).ev = pub[p].ev
  BY <1>1, BusAssumption DEF Onward, Idle, Places, Event
<1>3. pub'[p] = Onward(p, s) /\ \A q \in Pubs \ {p} : pub'[q] = pub[q]
  BY DEF BusInv, Types
<1>4. pub' \in [Pubs -> [at : Places, todo : SUBSET Subs, s : Subs, ev : Event]]
  BY <1>2 DEF BusInv, Types
<1>5. /\ last' \in [Subs -> [Pubs -> Nat]]
      /\ \A r \in Subs, q \in Pubs : r # s \/ q # p => last'[r][q] = last[r][q]
      /\ ~closed'[s] /\ pub[p].ev.class # "render" => last'[s][p] = pub[p].ev.n
  <2>1. last \in [Subs -> [Pubs -> Nat]] /\ pub[p].ev.n \in Nat
    BY <1>1 DEF BusInv, Types
  <2>2. CASE last' = [last EXCEPT ![s][p] = pub[p].ev.n]
    BY <2>1, <2>2, <1>1
  <2>3. CASE UNCHANGED last /\ (closed'[s] \/ pub[p].ev.class = "render")
    BY <2>1, <2>3
  <2> QED
    BY <2>2, <2>3
<1>6. Types'
  BY <1>4, <1>5 DEF BusInv, Types
<1>7. Strangers'
  BY <1>1, <1>2, <1>3 DEF BusInv, Strangers
<1>8. Latest'
  BY <1>2, <1>3 DEF BusInv, Latest, Places
<1>9. Waiters'
  <2> SUFFICES ASSUME NEW q \in Pubs, pub'[q].at = "grace" PROVE mu'[pub'[q].s] = q /\ ~closed'[pub'[q].s]
    BY DEF Waiters
  <2>1. q # p /\ pub'[q] = pub[q]
    BY <1>2, <1>3
  <2>2. mu[pub[q].s] = q /\ ~closed[pub[q].s] /\ pub[q].s \in Subs
    BY <2>1 DEF BusInv, Waiters, Types
  <2>3. CASE pub[q].s = s
    BY <2>1, <2>2, <2>3
  <2>4. CASE pub[q].s # s
    BY <2>1, <2>2, <2>4
  <2> QED
    BY <2>3, <2>4
<1>10. ~closed'[s] => ~closed[s]
  BY <1>1 DEF BusInv, Types
<1>11. ~closed'[s] => last'[s][p] = life[p]
  <2>1. ~closed'[s] => last[s][p] + Due(pub[p].ev) = pub[p].ev.n /\ last[s][p] \in Nat /\ life[p] = pub[p].ev.n
    <3>1. last[s][p] \in Nat /\ pub[p].at # "idle"
      BY <1>1 DEF BusInv, Types
    <3>2. life[p] = pub[p].ev.n
      BY <3>1 DEF BusInv, Latest
    <3>3. ~closed'[s] => last[s][p] + Due(pub[p].ev) = pub[p].ev.n
      BY <1>1, <1>10 DEF BusInv, Reached
    <3> QED
      BY <3>1, <3>2, <3>3
  <2>2. \/ UNCHANGED last /\ (closed'[s] \/ Due(pub[p].ev) = 0)
        \/ last'[s][p] = pub[p].ev.n
    BY <1>1 DEF BusInv, Types, Due
  <2> QED
    BY <2>1, <2>2
<1>12. Reached'
  <2> SUFFICES ASSUME NEW r \in Subs, NEW q \in Pubs, ~closed'[r]
               PROVE  /\ r \in pub'[q].todo => last'[r][q] + Due(pub'[q].ev) = pub'[q].ev.n
                      /\ r \in subs /\ r \notin pub'[q].todo => last'[r][q] = life[q]
    BY DEF Reached
  <2>1. ~closed[r]
    BY <1>10
  <2>2. CASE q # p
    BY <2>1, <2>2, <1>3, <1>5 DEF BusInv, Reached
  <2>3. CASE q = p /\ r = s
    BY <2>3, <1>2, <1>3, <1>11
  <2>4. CASE q = p /\ r # s
    <3>1. last'[r][p] = last[r][p]
      BY <2>4, <1>5
    <3>2. r \in pub'[p].todo => r \in pub[p].todo /\ pub'[p].ev = pub[p].ev
      BY <1>2, <1>3
    <3>3. r \notin pub'[p].todo => r \notin pub[p].todo
      BY <2>4, <1>2, <1>3
    <3> QED
      BY <2>1, <2>4, <3>1, <3>2, <3>3 DEF BusInv, Reached
  <2> QED
    BY <2>2, <2>3, <2>4
<1> QED
  BY <1>6, <1>7, <1>8, <1>9, <1>12 DEF BusInv

\* Each of the ways deliver may take: sent, passed over, or left waiting.
LEMMA DeliverKeeps == ASSUME BusInv, NEW p \in Pubs, NEW s \in Subs, Deliver(p, s) PROVE BusInv'
<1>1. /\ pub[p].at = "deliver" /\ s \in pub[p].todo /\ mu[s] = Free
      /\ UNCHANGED <<subs, closed, life, reader>>
      /\ pub[p].ev \in Event /\ \A q \in Pubs : mu[s] # q
  BY BusAssumption DEF Deliver, BusInv, Types
<1>2. CASE /\ Put(p, s) /\ UNCHANGED mu
           /\ pub' = [pub EXCEPT ![p] = Onward(p, s)]
  <2>1. ch' \in [Subs -> Seq(Event)] /\ last' = [last EXCEPT ![s][p] = pub[p].ev.n]
    BY <1>1, <1>2 DEF Put, BusInv, Types
  <2>2. closed' = closed /\ closed' \in [Subs -> BOOLEAN] /\ mu' = mu /\ mu' \in [Subs -> Pubs \cup {Free}]
    BY <1>1, <1>2 DEF BusInv, Types
  <2>3. /\ s \in pub[p].todo /\ pub[p].at \in {"deliver", "grace", "close"}
        /\ pub' = [pub EXCEPT ![p] = Onward(p, s)] /\ UNCHANGED <<subs, life, reader>>
    BY <1>1, <1>2
  <2>4. /\ \A r \in Subs : r # s => mu'[r] = mu[r] /\ closed'[r] = closed[r]
        /\ closed[s] => closed'[s]
        /\ \A q \in Pubs \ {p} : mu[s] = q => mu'[s] = q /\ closed'[s] = closed[s]
    BY <2>2
  <2>5. GoesOn(p, s)
    BY <2>1, <2>2, <2>3, <2>4 DEF GoesOn
  <2> QED
    BY <2>5, OnwardKeeps
<1>3. CASE /\ closed[s] \/ Droppable(pub[p].ev)
           /\ pub' = [pub EXCEPT ![p] = Onward(p, s)]
           /\ UNCHANGED <<ch, last, mu>>
  <2>1. /\ closed' = closed /\ closed' \in [Subs -> BOOLEAN] /\ mu' = mu /\ mu' \in [Subs -> Pubs \cup {Free}]
        /\ ch' \in [Subs -> Seq(Event)]
    BY <1>1, <1>3 DEF BusInv, Types
  <2>2. /\ s \in pub[p].todo /\ pub[p].at \in {"deliver", "grace", "close"}
        /\ pub' = [pub EXCEPT ![p] = Onward(p, s)] /\ UNCHANGED <<subs, life, reader>>
    BY <1>1, <1>3
  <2>3. /\ \A r \in Subs : r # s => mu'[r] = mu[r] /\ closed'[r] = closed[r]
        /\ closed[s] => closed'[s]
        /\ \A q \in Pubs \ {p} : mu[s] = q => mu'[s] = q /\ closed'[s] = closed[s]
    BY <2>1
  <2>4. UNCHANGED last /\ (closed'[s] \/ pub[p].ev.class = "render")
    BY <1>3, <2>1 DEF Droppable
  <2>5. GoesOn(p, s)
    BY <2>1, <2>2, <2>3, <2>4 DEF GoesOn
  <2> QED
    BY <2>5, OnwardKeeps
<1>4. CASE /\ ~closed[s]
           /\ mu' = [mu EXCEPT ![s] = p]
           /\ pub' = [pub EXCEPT ![p].at = "grace", ![p].s = s]
           /\ UNCHANGED <<ch, last>>
  <2>1. /\ pub' \in [Pubs -> [at : Places, todo : SUBSET Subs, s : Subs, ev : Event]]
        /\ pub'[p].at = "grace" /\ pub'[p].s = s
        /\ \A q \in Pubs : pub'[q].todo = pub[q].todo /\ pub'[q].ev = pub[q].ev
        /\ \A q \in Pubs \ {p} : pub'[q] = pub[q]
    BY <1>4 DEF BusInv, Types, Places
  <2>2. Types'
    BY <1>1, <1>4, <2>1 DEF BusInv, Types
  <2>3. Strangers' /\ Reached'
    BY <1>1, <1>4, <2>1 DEF BusInv, Strangers, Reached
  <2>4. Latest'
    BY <1>1, <2>1 DEF BusInv, Latest
  <2>5. Waiters'
    <3> SUFFICES ASSUME NEW q \in Pubs, pub'[q].at = "grace" PROVE mu'[pub'[q].s] = q /\ ~closed[pub'[q].s]
      BY <1>1 DEF Waiters
    <3>1. CASE q = p
      BY <3>1, <1>4, <2>1 DEF BusInv, Types
    <3>2. CASE q # p
      <4>1. mu[pub[q].s] = q /\ ~closed[pub[q].s] /\ pub'[q].s = pub[q].s /\ pub[q].s \in Subs
        BY <3>2, <2>1 DEF BusInv, Waiters, Types
      <4> QED
        BY <4>1, <1>1, <1>4 DEF BusInv, Types
    <3> QED
      BY <3>1, <3>2
  <2> QED
    BY <2>2, <2>3, <2>4, <2>5 DEF BusInv
<1> QED
  BY <1>2, <1>3, <1>4 DEF Deliver

\* Waiting ends with the event sent ...
LEMMA GraceSendKeeps == ASSUME BusInv, NEW p \in Pubs, GraceSend(p) PROVE BusInv'
<1> DEFINE s == pub[p].s
<1>1. /\ pub[p].at = "grace" /\ s \in pub[p].todo /\ s \in Subs /\ mu[s] = p
      /\ pub[p].ev \in Event
  BY DEF GraceSend, BusInv, Latest, Waiters, Types
<1>2. /\ Put(p, s) /\ mu' = [mu EXCEPT ![s] = Free]
      /\ pub' = [pub EXCEPT ![p] = Onward(p, s)]
      /\ UNCHANGED <<subs, closed, life, reader>>
  BY DEF GraceSend
<1> HIDE DEF s
<1>3. ch' \in [Subs -> Seq(Event)] /\ last' = [last EXCEPT ![s][p] = pub[p].ev.n]
  BY <1>1, <1>2 DEF Put, BusInv, Types
<1>4. /\ mu' \in [Subs -> Pubs \cup {Free}] /\ closed \in [Subs -> BOOLEAN]
      /\ \A r \in Subs : r # s => mu'[r] = mu[r]
  BY <1>2 DEF BusInv, Types
<1>5. \A q \in Pubs \ {p} : mu[s] # q
  BY <1>1
<1>6. /\ s \in pub[p].todo /\ pub[p].at \in {"deliver", "grace", "close"}
      /\ closed' = closed /\ closed' \in [Subs -> BOOLEAN]
  BY <1>1, <1>2, <1>4
<1>7. /\ \A r \in Subs : r # s => mu'[r] = mu[r] /\ closed'[r] = closed[r]
      /\ closed[s] => closed'[s]
      /\ \A q \in Pubs \ {p} : mu[s] = q => mu'[s] = q /\ closed'[s] = closed[s]
  BY <1>4, <1>5, <1>6
<1>8. GoesOn(p, s)
  BY <1>2, <1>3, <1>4, <1>6, <1>7 DEF GoesOn
<1> QED
  BY <1>8, OnwardKeeps

\* ... or with the subscriber to be cut, which only its publisher knows.
LEMMA CutKeeps == ASSUME BusInv, NEW p \in Pubs, GraceTimer(p) \/ CutRemove(p) PROVE BusInv'
<1>1. PICK place \in {"remove", "close"} : /\ pub' = [pub EXCEPT ![p].at = place]
                                           /\ place = "remove" => pub[p].at = "grace"
                                           /\ place = "close" => pub[p].at = "remove"
  BY DEF GraceTimer, CutRemove
<1>2. /\ subs' \subseteq subs /\ UNCHANGED <<ch, closed, life, last, reader>>
      /\ mu' = mu \/ (pub[p].at = "grace" /\ mu' = [mu EXCEPT ![pub[p].s] = Free])
  BY DEF GraceTimer, CutRemove
<1>3. /\ pub' \in [Pubs -> [at : Places, todo : SUBSET Subs, s : Subs, ev : Event]]
      /\ pub'[p].at = place
      /\ \A q \in Pubs : pub'[q].todo = pub[q].todo /\ pub'[q].ev = pub[q].ev /\ pub'[q].s = pub[q].s
      /\ \A q \in Pubs \ {p} : pub'[q] = pub[q]
  BY <1>1 DEF BusInv, Types, Places
<1>4. Types'
  BY <1>2, <1>3 DEF BusInv, Types
<1>5. Strangers' /\ Reached'
  BY <1>2, <1>3 DEF BusInv, Strangers, Reached
<1>6. Latest'
  BY <1>1, <1>2, <1>3 DEF BusInv, Latest
<1>7. Waiters'
  <2> SUFFICES ASSUME NEW q \in Pubs, pub'[q].at = "grace" PROVE mu'[pub'[q].s] = q /\ ~closed[pub'[q].s]
    BY <1>2 DEF Waiters
  <2>1. q # p /\ pub'[q] = pub[q]
    BY <1>3
  <2>2. mu[pub[q].s] = q /\ ~closed[pub[q].s] /\ pub[q].s \in Subs
    BY <2>1 DEF BusInv, Waiters, Types
  <2>3. pub[p].at = "grace" => mu[pub[p].s] = p
    BY DEF BusInv, Waiters
  <2> QED
    BY <1>2, <2>1, <2>2, <2>3 DEF BusInv, Types
<1> QED
  BY <1>4, <1>5, <1>6, <1>7 DEF BusInv

LEMMA CutCloseKeeps == ASSUME BusInv, NEW p \in Pubs, CutClose(p) PROVE BusInv'
<1> DEFINE s == pub[p].s
<1>1. /\ pub[p].at = "close" /\ s \in pub[p].todo /\ s \in Subs
      /\ mu[s] = Free /\ \A q \in Pubs : mu[s] # q
  BY BusAssumption DEF CutClose, Closes, BusInv, Latest, Types
<1>2. /\ closed' = [closed EXCEPT ![s] = TRUE]
      /\ pub' = [pub EXCEPT ![p] = Onward(p, s)]
      /\ UNCHANGED <<subs, ch, mu, life, last, reader>>
  BY DEF CutClose, Closes
<1> HIDE DEF s
<1>3. closed' \in [Subs -> BOOLEAN] /\ closed'[s]
  BY <1>1, <1>2 DEF BusInv, Types
<1>4. \A r \in Subs : r # s => closed'[r] = closed[r]
  BY <1>2 DEF BusInv, Types
<1>5. /\ s \in pub[p].todo /\ pub[p].at \in {"deliver", "grace", "close"}
      /\ pub' = [pub EXCEPT ![p] = Onward(p, s)]
      /\ UNCHANGED <<subs, life, reader, last>>
  BY <1>1, <1>2
<1>6. ch' \in [Subs -> Seq(Event)] /\ mu' \in [Subs -> Pubs \cup {Free}]
  BY <1>2 DEF BusInv, Types
<1>7. /\ \A r \in Subs : r # s => mu'[r] = mu[r] /\ closed'[r] = closed[r]
      /\ \A q \in Pubs \ {p} : mu[s] = q => mu'[s] = q /\ closed'[s] = closed[s]
  BY <1>1, <1>2, <1>4
<1>8. UNCHANGED last /\ (closed'[s] \/ pub[p].ev.class = "render")
  BY <1>3, <1>5
<1>9. closed[s] => closed'[s]
  BY <1>3
<1>10. GoesOn(p, s)
  BY <1>3, <1>5, <1>6, <1>7, <1>8, <1>9 DEF GoesOn
<1> QED
  BY <1>10, OnwardKeeps
----------------------------------------------------------------------------
LEMMA SubscribeKeeps == ASSUME BusInv, NEW s \in Subs, Subscribe(s) PROVE BusInv'
<1>1. /\ reader[s] = "new" /\ subs' = subs \cup {s}
      /\ reader' = [reader EXCEPT ![s] = "reading"] /\ last' = [last EXCEPT ![s] = life]
      /\ UNCHANGED <<ch, closed, mu, pub, life>>
  BY DEF Subscribe
<1>2. \A p \in Pubs : s \notin pub[p].todo
  BY <1>1 DEF BusInv, Strangers
<1>3. Types' /\ Latest' /\ Waiters'
  BY <1>1 DEF BusInv, Types, Latest, Waiters
<1>4. Strangers'
  BY <1>1 DEF BusInv, Types, Strangers
<1>5. Reached'
  BY <1>1, <1>2 DEF BusInv, Types, Reached
<1> QED
  BY <1>3, <1>4, <1>5 DEF BusInv

\* Consumers take events and leave, and subscribers are taken off the bus.
LEMMA LeavingKeeps ==
  ASSUME BusInv, subs' \subseteq subs, ch' \in [Subs -> Seq(Event)],
         reader' \in [Subs -> {"new", "reading", "left"}],
         \A s \in Subs : reader'[s] = "new" => reader[s] = "new",
         UNCHANGED <<closed, mu, pub, life, last>>
  PROVE  BusInv'
<1>1. Types' /\ Latest' /\ Waiters'
  BY DEF BusInv, Types, Latest, Waiters
<1>2. Strangers' /\ Reached'
  BY DEF BusInv, Strangers, Reached
<1> QED
  BY <1>1, <1>2 DEF BusInv

\* A channel is closed under its lock, so nobody waits to send on it.
LEMMA CloseKeeps ==
  ASSUME BusInv, NEW s \in Subs, Closes(s), UNCHANGED <<subs, ch, mu, pub, life, last, reader>>
  PROVE  BusInv'
<1>1. /\ closed' \in [Subs -> BOOLEAN] /\ mu[s] = Free
      /\ \A r \in Subs : r # s => closed'[r] = closed[r]
      /\ closed'[s]
  BY DEF Closes, BusInv, Types
<1>2. Types' /\ Strangers' /\ Latest'
  BY <1>1 DEF BusInv, Types, Strangers, Latest
<1>3. Waiters'
  BY <1>1, BusAssumption DEF BusInv, Types, Waiters
<1>4. Reached'
  BY <1>1 DEF BusInv, Reached
<1> QED
  BY <1>2, <1>3, <1>4 DEF BusInv

LEMMA SubscriberKeeps ==
  ASSUME BusInv, NEW s \in Subs, Reads(s) \/ Leave(s) \/ Cancelling(s) \/ SweepCloses(s)
  PROVE  BusInv'
<1>1. CASE Receive(s)
  <2>1. ch[s] \in Seq(Event) /\ ch[s] # <<>>
    BY <1>1 DEF Receive, BusInv, Types
  <2>2. ch' \in [Subs -> Seq(Event)]
    BY <1>1, <2>1 DEF Receive, BusInv, Types
  <2>3. /\ reader' \in [Subs -> {"new", "reading", "left"}]
        /\ \A r \in Subs : reader'[r] = "new" => reader[r] = "new"
    BY <1>1 DEF Receive, BusInv, Types
  <2> QED
    BY <1>1, <2>2, <2>3, LeavingKeeps DEF Receive
<1>2. CASE SeesClosed(s) \/ Leave(s)
  <2>1. /\ reader' \in [Subs -> {"new", "reading", "left"}]
        /\ \A r \in Subs : reader'[r] = "new" => reader[r] = "new"
    BY <1>2 DEF SeesClosed, Leave, BusInv, Types
  <2> QED
    BY <1>2, <2>1, LeavingKeeps DEF SeesClosed, Leave, BusInv, Types
<1>3. CASE CancelRemove(s)
  BY <1>3, LeavingKeeps DEF CancelRemove, BusInv, Types
<1>4. CASE CancelClose(s) \/ SweepCloses(s)
  BY <1>4, CloseKeeps DEF CancelClose, SweepCloses
<1> QED
  BY <1>1, <1>2, <1>3, <1>4 DEF Reads, Cancelling

LEMMA CloseAllKeeps == ASSUME BusInv, CloseAll PROVE BusInv'
<1>1. subs' \subseteq subs
  BY DEF CloseAll
<1> QED
  BY <1>1, LeavingKeeps DEF CloseAll, BusInv, Types
----------------------------------------------------------------------------
LEMMA BusInvNext == ASSUME BusInv, [Next]_vars PROVE BusInv'
<1>1. CASE UNCHANGED vars
  BY <1>1, LeavingKeeps DEF vars, BusInv, Types
<1>2. ASSUME NEW p \in Pubs, Publishing(p) PROVE BusInv'
  BY <1>2, DeliverKeeps, GraceSendKeeps, CutKeeps, CutCloseKeeps DEF Publishing
<1> QED
  BY <1>1, <1>2, PublishKeeps, SubscribeKeeps, SubscriberKeeps, CloseAllKeeps DEF Next

\* What WholeOrCut says of one step.
Whole == \A s \in Subs : ch'[s] # ch[s] =>
           \/ ch[s] # <<>> /\ ch'[s] = Tail(ch[s])
           \/ /\ ~closed[s]
              /\ \E p \in Pubs : /\ ch'[s] = Append(ch[s], pub[p].ev)
                                 /\ pub[p].ev.n = last[s][p] + Due(pub[p].ev)

\* Only deliver puts events into channels, and they are the next due.
LEMMA PutsNext ==
  ASSUME BusInv, NEW p \in Pubs, NEW s \in pub[p].todo, Put(p, s), ~closed[s]
  PROVE  Whole
<1>1. /\ s \in Subs /\ ch'[s] = Append(ch[s], pub[p].ev)
      /\ \A r \in Subs : r # s => ch'[r] = ch[r]
  BY DEF Put, BusInv, Types
<1>2. pub[p].ev.n = last[s][p] + Due(pub[p].ev)
  BY <1>1 DEF BusInv, Reached
<1> QED
  BY <1>1, <1>2 DEF Whole

LEMMA WholeNext == ASSUME BusInv, Next PROVE Whole
<1>1. ASSUME NEW p \in Pubs, NEW s \in Subs, Deliver(p, s) PROVE Whole
  <2>1. s \in pub[p].todo
    BY <1>1 DEF Deliver
  <2>2. UNCHANGED ch \/ (Put(p, s) /\ ~closed[s])
    BY <1>1 DEF Deliver
  <2> QED
    BY <2>1, <2>2, PutsNext DEF Whole
<1>2. ASSUME NEW p \in Pubs, GraceSend(p) PROVE Whole
  <2>1. Put(p, pub[p].s) /\ ~closed[pub[p].s] /\ pub[p].s \in pub[p].todo
    BY <1>2 DEF GraceSend, BusInv, Waiters, Latest
  <2> QED
    BY <2>1, PutsNext
<1>3. ASSUME NEW s \in Subs, Receive(s) PROVE Whole
  <2>1. ch[s] # <<>> /\ ch' = [ch EXCEPT ![s] = Tail(@)] /\ ch \in [Subs -> Seq(Event)]
    BY <1>3 DEF Receive, BusInv, Types
  <2> QED
    BY <2>1 DEF Whole
<1>4. ASSUME UNCHANGED ch PROVE Whole
  BY <1>4 DEF Whole
<1>5. ASSUME NEW p \in Pubs, NEW class \in {"life", "render", "end"}, Publish(p, class) PROVE UNCHANGED ch
  BY <1>5 DEF Publish
<1>6. ASSUME NEW p \in Pubs, GraceTimer(p) \/ CutRemove(p) \/ CutClose(p) PROVE UNCHANGED ch
  BY <1>6 DEF GraceTimer, CutRemove, CutClose
<1>7. ASSUME NEW s \in Subs, Subscribe(s) \/ SeesClosed(s) \/ Leave(s) \/ Cancelling(s) \/ SweepCloses(s)
      PROVE UNCHANGED ch
  BY <1>7 DEF Subscribe, SeesClosed, Leave, Cancelling, CancelRemove, CancelClose, SweepCloses
<1>8. ASSUME CloseAll PROVE UNCHANGED ch
  BY <1>8 DEF CloseAll
<1> QED
  BY <1>1, <1>2, <1>3, <1>4, <1>5, <1>6, <1>7, <1>8 DEF Next, Publishing, Reads

\* Whatever publishers wait on a subscriber while it unsubscribes, is cut or
\* swept: what enters its channel is the next lifecycle event of its
\* publisher or a render event, and never enters a closed one (events.go:120).
THEOREM LifecycleWholeOrCut == Spec => WholeOrCut
<1>1. Init => BusInv
  BY BusInvInit
<1>2. BusInv /\ [Next]_vars => BusInv'
  BY BusInvNext
<1>3. BusInv /\ [Next]_vars =>
        [\A s \in Subs : ch'[s] # ch[s] =>
           \/ ch[s] # <<>> /\ ch'[s] = Tail(ch[s])
           \/ /\ ~closed[s]
              /\ \E p \in Pubs : /\ ch'[s] = Append(ch[s], pub[p].ev)
                                 /\ pub[p].ev.n = last[s][p] + (IF pub[p].ev.class = "render" THEN 0 ELSE 1)]_vars
  BY WholeNext DEF Whole, Due
<1> QED
  BY <1>1, <1>2, <1>3, PTL DEF Spec, WholeOrCut

\* A publisher in its grace period holds the lock of a subscriber whose
\* channel is open: nobody closes it under the wait (events.go:153-187).
THEOREM WaitersSendSafely == Spec => []Waiters
<1>1. Init => BusInv
  BY BusInvInit
<1>2. BusInv /\ [Next]_vars => BusInv'
  BY BusInvNext
<1>3. BusInv => Waiters
  BY DEF BusInv
<1> QED
  BY <1>1, <1>2, <1>3, PTL DEF Spec
=============================================================================

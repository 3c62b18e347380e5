------------------------- MODULE InMemoryStore_proofs -------------------------
(***************************************************************************)
(* Theorems about InMemoryStore, for any number of requests and any limit. *)
(***************************************************************************)
EXTENDS InMemoryStore, TLAPS

(***************************************************************************)
(* Every variable keeps its type.                                          *)
(***************************************************************************)
LEMMA InitType == Init => TypeOK
  BY DEF Init, TypeOK, Reading, Stored

\* A listing takes the latest ids, newest first, and no more than Lookback.
LEMMA RecentIdsType ==
  ASSUME TypeOK
  PROVE  /\ RecentIds(Lookback) \in Seq(Requests)
         /\ Len(RecentIds(Lookback)) = IF Len(order) < Lookback THEN Len(order) ELSE Lookback
         /\ \A i \in 1..Len(RecentIds(Lookback)) :
              RecentIds(Lookback)[i] = order[Len(order) + 1 - i]
<1> DEFINE len == IF Len(order) < Lookback THEN Len(order) ELSE Lookback
<1>1. order \in Seq(Requests) /\ Len(order) \in Nat /\ Lookback \in Nat
  BY LookbackAssumption DEF TypeOK
<1>2. RecentIds(Lookback) = [i \in 1..len |-> order[Len(order) + 1 - i]]
  BY DEF RecentIds
<1>3. len \in Nat /\ len <= Len(order)
  BY <1>1
<1>4. \A i \in 1..len : Len(order) + 1 - i \in 1..Len(order)
  BY <1>1, <1>3
<1>5. \A i \in 1..len : order[Len(order) + 1 - i] \in Requests
  BY <1>1, <1>4
<1> HIDE DEF len
<1>6. RecentIds(Lookback) \in Seq(Requests) /\ Len(RecentIds(Lookback)) = len
  BY <1>2, <1>3, <1>5
<1> QED
  BY <1>2, <1>6 DEF len

\* Every step keeps the types.
LEMMA NextType == TypeOK /\ [Next]_vars => TypeOK'
<1> SUFFICES ASSUME TypeOK, [Next]_vars PROVE TypeOK'
  OBVIOUS
<1> USE DEF TypeOK, Reading, Writing, Ended, Stored
<1>1. ASSUME NEW q \in Requests, Arrive(q) PROVE TypeOK'
  BY <1>1 DEF Arrive, Answered
<1>2. ASSUME NEW q \in Requests, Slice(q) PROVE TypeOK'
  BY <1>2, RecentIdsType DEF Slice
<1>3. ASSUME NEW q \in Requests, Look(q) PROVE TypeOK'
  <2>1. Tail(todo[q]) \in Seq(Requests) /\ Head(todo[q]) \in Requests
    BY <1>3 DEF Look
  <2>2. Append(found[q], Head(todo[q])) \in Seq(Requests)
    BY <2>1
  <2> QED
    BY <1>3, <2>1, <2>2 DEF Look
<1>4. ASSUME NEW q \in Requests, LookRaises(q) \/ Listed(q) \/ Think(q) PROVE TypeOK'
  BY <1>4 DEF LookRaises, Listed, Think
<1>5. ASSUME NEW q \in Requests, Enlist(q) PROVE TypeOK'
  <2>1. order' \in Seq(Requests)
    BY <1>5 DEF Enlist
  <2> QED
    BY <1>5, <2>1 DEF Enlist
<1>6. ASSUME NEW q \in Requests, Place(q) PROVE TypeOK'
  BY <1>6 DEF Place, Row
<1>7. ASSUME NEW q \in Requests, AppendRecord(q) PROVE TypeOK'
  <2>1. records' \in Seq([id : Requests, instrument : Instruments])
    BY <1>7 DEF AppendRecord
  <2> QED
    BY <1>7, <2>1 DEF AppendRecord
<1>8. ASSUME NEW q \in Requests, Respond(q) \/ Abort(q) PROVE TypeOK'
  BY <1>8 DEF Respond, Abort
<1>9. CASE UNCHANGED vars
  BY <1>9 DEF vars
<1> QED
  BY <1>1, <1>2, <1>3, <1>4, <1>5, <1>6, <1>7, <1>8, <1>9 DEF Next, Step

\* Every variable keeps its type through every interleaving of requests.
THEOREM TypeCorrect == Spec => []TypeOK
  BY InitType, NextType, PTL DEF Spec

-----------------------------------------------------------------------------
(***************************************************************************)
(* The strengthening: where a thread is says what it has written, and a    *)
(* listing in progress is the end of what _order was when it began.        *)
(***************************************************************************)
Enlisted == {"placing", "auditing", "responding", "answered"}
Placed   == {"auditing", "responding", "answered"}
Recorded == {records[i].id : i \in DOMAIN records}

\* Ids enter the order when their thread enlists them, each once, and get their
\* row and their record when it places and audits them.
PlacesInv ==
  /\ \A q \in Requests : q \in IdsOf(order) <=> pc[q] \in Enlisted
  /\ \A i, j \in DOMAIN order : order[i] = order[j] => i = j
  /\ \A q \in Requests : q \in Stored <=> pc[q] \in Placed
  /\ \A q \in Stored : store[q].instrument = asked[q]
  /\ \A q \in Requests : q \in Recorded <=> pc[q] \in {"responding", "answered"}

\* What a listing copied is the end of the first n ids, for some n at which all
\* that was answered before was already listed.
CopiedFrom(q, n) ==
  /\ Len(sliced[q]) = IF n < Lookback THEN n ELSE Lookback
  /\ \A i \in 1..Len(sliced[q]) : sliced[q][i] = order[n + 1 - i]
  /\ \A s \in answeredBefore[q] : \E k \in 1..n : order[k] = s

SliceInv ==
  \A q \in Requests :
    /\ \A s \in answeredBefore[q] : pc[s] = "answered"
    /\ pc[q] \in {"looking", "answered"} \cup Writing => \E n \in 0..Len(order) : CopiedFrom(q, n)

\* What has been looked up and what has not make up what was copied.
Splits(copy, done, left) ==
  /\ Len(copy) = Len(done) + Len(left)
  /\ \A i \in 1..Len(done) : done[i] = copy[i]
  /\ \A i \in 1..Len(left) : left[i] = copy[Len(done) + i]

LookInv ==
  \A q \in Requests :
    /\ pc[q] \in {"idle", "listing"} => found[q] = << >>
    /\ pc[q] = "looking" => Splits(sliced[q], found[q], todo[q])
    /\ pc[q] \in {"answered"} \cup Writing => found[q] = sliced[q]

IInv == TypeOK /\ PlacesInv /\ SliceInv /\ LookInv

\* The invariant holds initially.
LEMMA InitIInv == Init => IInv
<1> SUFFICES ASSUME Init PROVE IInv
  OBVIOUS
<1>1. IdsOf(order) = {} /\ Recorded = {} /\ Stored = {} /\ DOMAIN order = {}
  BY DEF Init, IdsOf, Recorded, Stored
<1> QED
  BY <1>1, InitType
  DEF Init, IInv, PlacesInv, SliceInv, LookInv, Enlisted, Placed, Writing

\* Enlisting an id adds it to the end of the order.
LEMMA EnlistAppends ==
  ASSUME TypeOK, PlacesInv, NEW q \in Requests, Enlist(q)
  PROVE  /\ Len(order') = Len(order) + 1
         /\ \A i \in 1..Len(order) : order'[i] = order[i]
         /\ order'[Len(order) + 1] = q
         /\ IdsOf(order') = IdsOf(order) \cup {q}
<1>1. order \in Seq(Requests) /\ Len(order) \in Nat
  BY DEF TypeOK
<1>2. order' = Append(order, q)
  BY DEF Enlist, PlacesInv, Placed
<1>3. /\ DOMAIN order = 1..Len(order)
      /\ DOMAIN order' = 1..(Len(order) + 1)
      /\ Len(order') = Len(order) + 1
      /\ \A i \in 1..Len(order) : order'[i] = order[i]
      /\ order'[Len(order) + 1] = q
  BY <1>1, <1>2
<1> QED
  BY <1>1, <1>3 DEF IdsOf

\* Appending a record adds its id to the recorded ones.
LEMMA AppendAdds ==
  ASSUME TypeOK, NEW q \in Requests, AppendRecord(q)
  PROVE  Recorded' = Recorded \cup {q}
<1> DEFINE new == [id |-> q, instrument |-> asked[q]]
<1>1. Len(records) \in Nat /\ DOMAIN records = 1..Len(records)
  BY DEF TypeOK
<1>2. records' = Append(records, new)
  BY DEF AppendRecord
<1>3. /\ DOMAIN records' = 1..(Len(records) + 1)
      /\ \A i \in 1..Len(records) : records'[i] = records[i]
      /\ records'[Len(records) + 1] = new
  BY <1>1, <1>2 DEF TypeOK
<1> QED
  BY <1>1, <1>3 DEF Recorded


\* A step that moves no thread past a write, and writes nothing, keeps PlacesInv.
LEMMA PlacesSteady ==
  ASSUME PlacesInv, UNCHANGED <<store, order, records, asked>>,
         \A r \in Requests : /\ pc'[r] \in Enlisted <=> pc[r] \in Enlisted
                             /\ pc'[r] \in Placed <=> pc[r] \in Placed
                             /\ pc'[r] \in {"responding", "answered"}
                                  <=> pc[r] \in {"responding", "answered"}
  PROVE  PlacesInv'
<1>1. IdsOf(order') = IdsOf(order) /\ Stored' = Stored /\ Recorded' = Recorded
  BY DEF IdsOf, Stored, Recorded
<1> QED
  BY <1>1 DEF PlacesInv

\* Every step keeps what is true of the places in _order.
LEMMA PlacesStep == IInv /\ [Next]_vars => PlacesInv'
<1> SUFFICES ASSUME IInv, [Next]_vars PROVE PlacesInv'
  OBVIOUS
<1>0. PlacesInv /\ TypeOK
  BY DEF IInv
<1>1. ASSUME NEW q \in Requests, Arrive(q) \/ Slice(q) \/ Look(q) PROVE PlacesInv'
  BY <1>0, <1>1, PlacesSteady DEF Arrive, Slice, Look, TypeOK, Enlisted, Placed
<1>2. ASSUME NEW q \in Requests, LookRaises(q) \/ Listed(q) \/ Think(q) PROVE PlacesInv'
  BY <1>0, <1>2, PlacesSteady DEF LookRaises, Listed, Think, TypeOK, Enlisted, Placed
<1>3. ASSUME NEW q \in Requests, Respond(q) \/ Abort(q) PROVE PlacesInv'
  BY <1>0, <1>3, PlacesSteady DEF Respond, Abort, TypeOK, Enlisted, Placed
<1>4. ASSUME NEW q \in Requests, Enlist(q) PROVE PlacesInv'
  <2>1. /\ pc' = [pc EXCEPT ![q] = "placing"] /\ pc[q] = "saving"
        /\ UNCHANGED <<store, records, asked>>
    BY <1>4 DEF Enlist
  <2>2. Stored' = Stored /\ Recorded' = Recorded
    BY <2>1 DEF Stored, Recorded
  <2>3. \A r \in Requests : r \in IdsOf(order') <=> pc'[r] \in Enlisted
    BY <1>0, <1>4, <2>1, EnlistAppends DEF PlacesInv, TypeOK, Enlisted
  <2>4. DOMAIN order' = 1..(Len(order) + 1) /\ DOMAIN order = 1..Len(order) /\ Len(order) \in Nat
    <3>1. q \notin Stored
      BY <1>0, <2>1 DEF PlacesInv, Placed
    <3>2. order' = Append(order, q)
      BY <1>4, <3>1 DEF Enlist
    <3> QED
      BY <1>0, <3>2 DEF TypeOK
  <2>5. q \notin IdsOf(order)
    BY <1>0, <2>1 DEF PlacesInv, Enlisted
  <2>6. \A i \in DOMAIN order : order[i] # q
    BY <2>5 DEF IdsOf
  <2>7. \A i, j \in DOMAIN order' : order'[i] = order'[j] => i = j
    BY <1>0, <1>4, <2>4, <2>6, EnlistAppends DEF PlacesInv
  <2>8. \A r \in Requests : /\ pc'[r] \in Placed <=> pc[r] \in Placed
                            /\ pc'[r] \in {"responding", "answered"}
                                 <=> pc[r] \in {"responding", "answered"}
    BY <1>0, <2>1 DEF TypeOK, Placed
  <2> QED
    BY <1>0, <2>1, <2>2, <2>3, <2>7, <2>8 DEF PlacesInv
<1>5. ASSUME NEW q \in Requests, Place(q) PROVE PlacesInv'
  <2>1. /\ pc' = [pc EXCEPT ![q] = "auditing"] /\ pc[q] = "placing"
        /\ UNCHANGED <<order, records, asked>>
    BY <1>5 DEF Place
  <2>2. IdsOf(order') = IdsOf(order) /\ Recorded' = Recorded
    BY <2>1 DEF IdsOf, Recorded
  <2>3. Stored' = Stored \cup {q}
    BY <1>5 DEF Place, Stored
  <2>4. \A r \in Stored' : store'[r].instrument = asked'[r]
    BY <1>0, <1>5, <2>1, <2>3 DEF Place, PlacesInv
  <2>5. \A r \in Requests : /\ pc'[r] \in Enlisted <=> pc[r] \in Enlisted
                            /\ pc'[r] \in Placed <=> pc[r] \in Placed \/ r = q
                            /\ pc'[r] \in {"responding", "answered"}
                                 <=> pc[r] \in {"responding", "answered"}
    BY <1>0, <2>1 DEF TypeOK, Enlisted, Placed
  <2> QED
    BY <1>0, <2>1, <2>2, <2>3, <2>4, <2>5 DEF PlacesInv
<1>6. ASSUME NEW q \in Requests, AppendRecord(q) PROVE PlacesInv'
  <2>1. /\ pc' = [pc EXCEPT ![q] = "responding"] /\ pc[q] = "auditing"
        /\ UNCHANGED <<store, order, asked>>
    BY <1>6 DEF AppendRecord
  <2>2. Recorded' = Recorded \cup {q}
    BY <1>0, <1>6, AppendAdds
  <2>3. IdsOf(order') = IdsOf(order) /\ Stored' = Stored
    BY <2>1 DEF IdsOf, Stored
  <2>4. \A r \in Requests : /\ pc'[r] \in Enlisted <=> pc[r] \in Enlisted
                            /\ pc'[r] \in Placed <=> pc[r] \in Placed
                            /\ pc'[r] \in {"responding", "answered"}
                                 <=> pc[r] \in {"responding", "answered"} \/ r = q
    BY <1>0, <2>1 DEF TypeOK, Enlisted, Placed
  <2> QED
    BY <1>0, <2>1, <2>2, <2>3, <2>4 DEF PlacesInv
<1>7. CASE UNCHANGED vars
  BY <1>0, <1>7, PlacesSteady DEF vars
<1> QED
  BY <1>1, <1>2, <1>3, <1>4, <1>5, <1>6, <1>7 DEF Next, Step

-----------------------------------------------------------------------------
(***************************************************************************)
(* A listing in progress.                                                  *)
(***************************************************************************)
\* What was copied stays the end of the first n ids: ids only join at the end.
LEMMA CopyStands ==
  ASSUME TypeOK, NEW p \in Requests, NEW n \in 0..Len(order), CopiedFrom(p, n),
         sliced'[p] = sliced[p], answeredBefore'[p] = answeredBefore[p],
         Len(order') >= Len(order), Len(order') \in Nat,
         \A i \in 1..Len(order) : order'[i] = order[i]
  PROVE  n \in 0..Len(order') /\ CopiedFrom(p, n)'
<1>1. Len(order) \in Nat /\ n \in Nat /\ n <= Len(order) /\ Lookback \in Nat
  BY LookbackAssumption DEF TypeOK
<1>2. Len(sliced[p]) <= n
  BY <1>1 DEF CopiedFrom
<1>3. Len(sliced[p]) \in Nat
  BY DEF TypeOK
<1>4. \A i \in 1..Len(sliced[p]) : n + 1 - i \in 1..Len(order)
  BY <1>1, <1>2, <1>3
<1>5. \A k \in 1..n : k \in 1..Len(order)
  BY <1>1
<1> QED
  BY <1>1, <1>4, <1>5 DEF CopiedFrom

\* Every step keeps what is true of the slices that listings have taken.
LEMMA SliceStep == IInv /\ [Next]_vars => SliceInv'
<1> SUFFICES ASSUME IInv, [Next]_vars PROVE SliceInv'
  OBVIOUS
<1>0. PlacesInv /\ TypeOK /\ SliceInv
  BY DEF IInv
<1> DEFINE Copying == {"looking", "answered"} \cup Writing
<1>1. ASSUME NEW q \in Requests, Arrive(q) PROVE SliceInv'
  <2>1. /\ pc[q] = "idle" /\ pc' = [pc EXCEPT ![q] = "listing"]
        /\ answeredBefore' = [answeredBefore EXCEPT ![q] = Answered]
        /\ UNCHANGED <<sliced, order>>
    BY <1>1 DEF Arrive
  <2>2. \A p \in Requests : \A s \in answeredBefore'[p] : pc'[s] = "answered"
    BY <1>0, <2>1 DEF SliceInv, TypeOK, Answered
  <2>3. \A p \in Requests : pc'[p] \in Copying =>
          pc[p] \in Copying /\ p # q /\ answeredBefore'[p] = answeredBefore[p]
    BY <1>0, <2>1 DEF TypeOK, Writing
  <2>4. Len(order) \in Nat
    BY <1>0 DEF TypeOK
  <2>5. \A p \in Requests : pc'[p] \in Copying => \E n \in 0..Len(order') : CopiedFrom(p, n)'
    BY <1>0, <2>1, <2>3, <2>4, CopyStands DEF SliceInv
  <2> QED
    BY <2>2, <2>5 DEF SliceInv
<1>2. ASSUME NEW q \in Requests, Slice(q) PROVE SliceInv'
  <2>1. /\ pc[q] = "listing" /\ pc' = [pc EXCEPT ![q] = "looking"]
        /\ sliced' = [sliced EXCEPT ![q] = RecentIds(Lookback)]
        /\ UNCHANGED <<answeredBefore, order>>
    BY <1>2 DEF Slice
  <2>2. \A p \in Requests : \A s \in answeredBefore'[p] : pc'[s] = "answered"
    BY <1>0, <2>1 DEF SliceInv, TypeOK
  <2>3. Len(order) \in Nat /\ DOMAIN order = 1..Len(order) /\ sliced'[q] = RecentIds(Lookback)
    BY <1>0, <2>1 DEF TypeOK
  <2>4. \A s \in answeredBefore[q] : s \in IdsOf(order)
    BY <1>0 DEF SliceInv, PlacesInv, Enlisted, TypeOK
  <2>5. \A s \in answeredBefore[q] : \E k \in 1..Len(order) : order[k] = s
    BY <2>3, <2>4 DEF IdsOf
  <2>6. CopiedFrom(q, Len(order))'
    BY <1>0, <2>1, <2>3, <2>5, RecentIdsType DEF CopiedFrom
  <2>7. \A p \in Requests : p # q /\ pc'[p] \in Copying =>
          pc[p] \in Copying /\ sliced'[p] = sliced[p]
    BY <1>0, <2>1 DEF TypeOK
  <2>8. \A p \in Requests : p # q /\ pc'[p] \in Copying => \E n \in 0..Len(order') : CopiedFrom(p, n)'
    BY <1>0, <2>1, <2>3, <2>7, CopyStands DEF SliceInv
  <2>9. Len(order) \in 0..Len(order')
    BY <2>1, <2>3
  <2> QED
    BY <2>2, <2>6, <2>8, <2>9 DEF SliceInv
<1>3. ASSUME NEW q \in Requests,
             \/ Look(q) \/ LookRaises(q) \/ Listed(q) \/ Think(q) \/ Abort(q)
             \/ Place(q) \/ AppendRecord(q) \/ Respond(q)
      PROVE  SliceInv'
  <2>1. UNCHANGED <<sliced, answeredBefore, order>>
    BY <1>3 DEF Look, LookRaises, Listed, Think, Abort, Place, AppendRecord, Respond
  <2>2. \A p \in Requests : /\ pc'[p] \in Copying => pc[p] \in Copying
                            /\ pc[p] = "answered" => pc'[p] = "answered"
    BY <1>0, <1>3
    DEF Look, LookRaises, Listed, Think, Abort, Place, AppendRecord, Respond, TypeOK, Writing
  <2>3. \A p \in Requests : \A s \in answeredBefore'[p] : pc'[s] = "answered"
    BY <1>0, <2>1, <2>2 DEF SliceInv, TypeOK
  <2>4. Len(order) \in Nat
    BY <1>0 DEF TypeOK
  <2>5. \A p \in Requests : pc'[p] \in Copying => \E n \in 0..Len(order') : CopiedFrom(p, n)'
    BY <1>0, <2>1, <2>2, <2>4, CopyStands DEF SliceInv
  <2> QED
    BY <2>3, <2>5 DEF SliceInv
<1>4. ASSUME NEW q \in Requests, Enlist(q) PROVE SliceInv'
  <2>1. UNCHANGED <<sliced, answeredBefore>>
    BY <1>4 DEF Enlist
  <2>2. \A p \in Requests : /\ pc'[p] \in Copying => pc[p] \in Copying
                            /\ pc[p] = "answered" => pc'[p] = "answered"
    BY <1>0, <1>4 DEF Enlist, TypeOK, Writing
  <2>3. \A p \in Requests : \A s \in answeredBefore'[p] : pc'[s] = "answered"
    BY <1>0, <2>1, <2>2 DEF SliceInv, TypeOK
  <2>4. /\ Len(order) \in Nat /\ Len(order') >= Len(order) /\ Len(order') \in Nat
        /\ \A i \in 1..Len(order) : order'[i] = order[i]
    BY <1>0, <1>4, EnlistAppends DEF TypeOK
  <2>5. \A p \in Requests : pc'[p] \in Copying => \E n \in 0..Len(order') : CopiedFrom(p, n)'
    BY <1>0, <2>1, <2>2, <2>4, CopyStands DEF SliceInv
  <2> QED
    BY <2>3, <2>5 DEF SliceInv
<1>5. CASE UNCHANGED vars
  BY <1>0, <1>5 DEF vars, SliceInv, CopiedFrom
<1> QED
  BY <1>1, <1>2, <1>3, <1>4, <1>5 DEF Next, Step

\* Initially nothing of a copy is done.
LEMMA NothingLooked ==
  ASSUME NEW S, NEW copy \in Seq(S)
  PROVE  Splits(copy, << >>, copy)
  BY DEF Splits

\* Taking the next id keeps done and left a split of the copy.
LEMMA OneLookup ==
  ASSUME NEW S, NEW copy \in Seq(S), NEW done \in Seq(S), NEW left \in Seq(S),
         left # << >>, Splits(copy, done, left)
  PROVE  Splits(copy, Append(done, Head(left)), Tail(left))
<1> DEFINE more == Append(done, Head(left))
<1>1. /\ Len(left) \in Nat \ {0} /\ Len(done) \in Nat
      /\ Len(Tail(left)) = Len(left) - 1
      /\ \A i \in 1..Len(Tail(left)) : Tail(left)[i] = left[i + 1]
      /\ Head(left) = left[1] /\ Head(left) \in S
  OBVIOUS
<1>2. /\ Len(more) = Len(done) + 1
      /\ \A i \in 1..Len(done) : more[i] = done[i]
      /\ more[Len(done) + 1] = Head(left)
  BY <1>1
<1> HIDE DEF more
<1>3. Len(copy) = Len(more) + Len(Tail(left))
  BY <1>1, <1>2 DEF Splits
<1>4. \A i \in 1..Len(more) : more[i] = copy[i]
  <2>1. left[1] = copy[Len(done) + 1]
    BY <1>1 DEF Splits
  <2> QED
    BY <1>1, <1>2, <2>1 DEF Splits
<1>5. ASSUME NEW i \in 1..Len(Tail(left)) PROVE Tail(left)[i] = copy[Len(more) + i]
  <2>1. i + 1 \in 1..Len(left) /\ Len(done) + (i + 1) = Len(more) + i
    BY <1>1, <1>2
  <2>2. left[i + 1] = copy[Len(done) + (i + 1)]
    BY <2>1 DEF Splits
  <2> QED
    BY <1>1, <2>1, <2>2
<1>6. Splits(copy, more, Tail(left))
  BY <1>3, <1>4, <1>5 DEF Splits
<1> QED
  BY <1>6 DEF more

\* When nothing is left, all of the copy is done.
LEMMA AllLooked ==
  ASSUME NEW S, NEW copy \in Seq(S), NEW done \in Seq(S), Splits(copy, done, << >>)
  PROVE  done = copy
<1>1. Len(copy) = Len(done) /\ \A i \in 1..Len(done) : done[i] = copy[i]
  BY DEF Splits
<1> QED
  BY <1>1

\* Every step keeps what is true of the lookups of listings under way.
LEMMA LookStep == IInv /\ [Next]_vars => LookInv'
<1> SUFFICES ASSUME IInv, [Next]_vars PROVE LookInv'
  OBVIOUS
<1>0. TypeOK /\ LookInv
  BY DEF IInv
<1>1. ASSUME NEW q \in Requests, Slice(q) PROVE LookInv'
  <2>1. /\ pc[q] = "listing" /\ found[q] = << >>
        /\ pc' = [pc EXCEPT ![q] = "looking"]
        /\ sliced' = [sliced EXCEPT ![q] = RecentIds(Lookback)]
        /\ todo' = [todo EXCEPT ![q] = RecentIds(Lookback)]
        /\ found' = found
    BY <1>0, <1>1 DEF Slice, LookInv
  <2>2. Splits(sliced'[q], found'[q], todo'[q]) /\ pc'[q] = "looking"
    BY <1>0, <2>1, RecentIdsType, NothingLooked DEF TypeOK
  <2>3. \A p \in Requests \ {q} : /\ pc'[p] = pc[p] /\ sliced'[p] = sliced[p]
                                  /\ todo'[p] = todo[p] /\ found'[p] = found[p]
    BY <1>0, <2>1 DEF TypeOK
  <2> QED
    BY <1>0, <2>2, <2>3 DEF LookInv, Writing
<1>2. ASSUME NEW q \in Requests, Look(q) PROVE LookInv'
  <2>1. /\ pc[q] = "looking" /\ todo[q] # << >> /\ pc' = pc /\ sliced' = sliced
        /\ todo' = [todo EXCEPT ![q] = Tail(@)]
        /\ found' = [found EXCEPT ![q] = Append(@, Head(todo[q]))]
    BY <1>2 DEF Look
  <2>2. /\ sliced[q] \in Seq(Requests) /\ found[q] \in Seq(Requests) /\ todo[q] \in Seq(Requests)
        /\ todo'[q] = Tail(todo[q]) /\ found'[q] = Append(found[q], Head(todo[q]))
        /\ \A p \in Requests \ {q} : todo'[p] = todo[p] /\ found'[p] = found[p]
    BY <1>0, <2>1 DEF TypeOK
  <2>3. Splits(sliced[q], found'[q], todo'[q])
    BY <1>0, <2>1, <2>2, OneLookup DEF LookInv
  <2> QED
    BY <1>0, <2>1, <2>2, <2>3 DEF LookInv, Writing
<1>3. ASSUME NEW q \in Requests, Listed(q) PROVE LookInv'
  <2>1. /\ pc[q] = "looking" /\ todo[q] = << >> /\ UNCHANGED <<todo, found, sliced>>
        /\ pc' = [pc EXCEPT ![q] = "thinking"]
    BY <1>3 DEF Listed
  <2>2. found[q] = sliced[q]
    BY <1>0, <2>1, AllLooked DEF LookInv, TypeOK
  <2>3. \A p \in Requests \ {q} : pc'[p] = pc[p]
    BY <1>0, <2>1 DEF TypeOK
  <2>4. pc'[q] = "thinking"
    BY <1>0, <2>1 DEF TypeOK
  <2> QED
    BY <1>0, <2>1, <2>2, <2>3, <2>4 DEF LookInv
<1>4. ASSUME NEW q \in Requests,
             \/ Arrive(q) \/ LookRaises(q) \/ Think(q) \/ Abort(q) \/ Enlist(q)
             \/ Place(q) \/ AppendRecord(q) \/ Respond(q)
      PROVE  LookInv'
  <2>1. UNCHANGED <<todo, found, sliced>>
    BY <1>4 DEF Arrive, LookRaises, Think, Abort, Enlist, Place, AppendRecord, Respond
  <2>2. \A p \in Requests :
          /\ pc'[p] \in {"idle", "listing"} => pc[p] \in {"idle", "listing"}
          /\ pc'[p] = "looking" => pc[p] = "looking"
          /\ pc'[p] \in {"answered"} \cup Writing => pc[p] \in {"answered"} \cup Writing
    BY <1>0, <1>4
    DEF Arrive, LookRaises, Think, Abort, Enlist, Place, AppendRecord, Respond, TypeOK, Writing
  <2> QED
    BY <1>0, <2>1, <2>2 DEF LookInv
<1>5. CASE UNCHANGED vars
  BY <1>0, <1>5 DEF vars, LookInv
<1> QED
  BY <1>1, <1>2, <1>3, <1>4, <1>5 DEF Next, Step

\* The inductive invariant.
THEOREM Inductive == Spec => []IInv
<1>1. IInv /\ [Next]_vars => IInv'
  BY NextType, PlacesStep, SliceStep, LookStep DEF IInv
<1> QED
  BY InitIInv, <1>1, PTL DEF Spec

-----------------------------------------------------------------------------
\* _order and _store agree but for the saves between their two steps: no id is
\* listed twice, none is stored unlisted.
THEOREM OrderAgrees == Spec => []OrderMatchesStore
<1>1. IInv => OrderMatchesStore
  <2> SUFFICES ASSUME IInv PROVE OrderMatchesStore
    OBVIOUS
  <2>1. PlacesInv /\ Stored \subseteq Requests /\ IdsOf(order) \subseteq Requests
    BY DEF IInv, TypeOK, IdsOf
  <2> QED
    BY <2>1 DEF PlacesInv, OrderMatchesStore, Enlisted, Placed
<1> QED
  BY Inductive, <1>1, PTL

\* A listing that returns is the snapshot taken when it began, and misses what
\* was answered before only for later recommendations.
THEOREM ListingComplete == Spec => []ListingIsComplete
<1>1. IInv => ListingIsComplete
  <2> SUFFICES ASSUME IInv, NEW q \in Requests, pc[q] \in Writing \cup {"answered"}
               PROVE  /\ found[q] = sliced[q]
                      /\ \A s \in answeredBefore[q] :
                           \/ s \in IdsOf(found[q])
                           \/ /\ Len(found[q]) = Lookback
                              /\ \A r \in IdsOf(found[q]) : Later(r, s)
                      /\ \A i, j \in DOMAIN found[q] :
                           i < j => Later(found[q][i], found[q][j])
    BY DEF ListingIsComplete
  <2>1. found[q] = sliced[q]
    BY DEF IInv, LookInv
  <2>2. PICK n \in 0..Len(order) : CopiedFrom(q, n)
    BY DEF IInv, SliceInv
  <2>3. /\ n \in Nat /\ n <= Len(order) /\ Len(order) \in Nat /\ Lookback \in Nat \ {0}
        /\ DOMAIN order = 1..Len(order)
        /\ sliced[q] \in Seq(Requests) /\ DOMAIN sliced[q] = 1..Len(sliced[q])
    BY LookbackAssumption DEF IInv, TypeOK
  <2>4. /\ Len(sliced[q]) = IF n < Lookback THEN n ELSE Lookback
        /\ \A i \in 1..Len(sliced[q]) : sliced[q][i] = order[n + 1 - i]
        /\ \A s \in answeredBefore[q] : \E k \in 1..n : order[k] = s
    BY <2>2 DEF CopiedFrom
  <2>5. \A i \in 1..Len(sliced[q]) : n + 1 - i \in DOMAIN order
    BY <2>3, <2>4
  <2>6. \A i, j \in DOMAIN found[q] : i < j => Later(found[q][i], found[q][j])
    <3> SUFFICES ASSUME NEW i \in 1..Len(sliced[q]), NEW j \in 1..Len(sliced[q]), i < j
                 PROVE  Later(sliced[q][i], sliced[q][j])
      BY <2>1, <2>3
    <3>1. n + 1 - i > n + 1 - j
      BY <2>3
    <3> QED
      BY <2>4, <2>5, <3>1 DEF Later
  <2>7. ASSUME NEW s \in answeredBefore[q], s \notin IdsOf(sliced[q])
        PROVE  Len(sliced[q]) = Lookback /\ \A r \in IdsOf(sliced[q]) : Later(r, s)
    <3>1. PICK k \in 1..n : order[k] = s
      BY <2>4
    <3>2. \A i \in 1..Len(sliced[q]) : sliced[q][i] # s
      BY <2>3, <2>7 DEF IdsOf
    <3>3. ~ (n + 1 - k <= Len(sliced[q]))
      <4> SUFFICES ASSUME n + 1 - k <= Len(sliced[q]) PROVE FALSE
        OBVIOUS
      <4>1. n + 1 - k \in 1..Len(sliced[q]) /\ n + 1 - (n + 1 - k) = k
        BY <2>3, <2>4
      <4>2. sliced[q][n + 1 - k] = order[k]
        BY <2>4, <4>1
      <4> QED
        BY <3>1, <3>2, <4>1, <4>2
    <3>4. Len(sliced[q]) = Lookback
      BY <2>3, <2>4, <3>3
    <3>5. ASSUME NEW r \in IdsOf(sliced[q]) PROVE Later(r, s)
      <4>1. PICK i \in 1..Len(sliced[q]) : sliced[q][i] = r
        BY <2>3, <3>5 DEF IdsOf
      <4>2. n + 1 - i > k /\ k \in DOMAIN order /\ order[n + 1 - i] = r
        BY <2>3, <2>4, <3>3, <4>1
      <4> QED
        BY <2>5, <3>1, <4>1, <4>2 DEF Later
    <3> QED
      BY <3>4, <3>5
  <2> QED
    BY <2>1, <2>6, <2>7
<1> QED
  BY Inductive, <1>1, PTL

-----------------------------------------------------------------------------
(***************************************************************************)
(* Without a lock the store still implements the ledger: placing a row     *)
(* publishes it, whatever else happens between its two steps.              *)
(***************************************************************************)
LEMMA LedgerInit == Init => Ledger!Init
  BY DEF Init, Ledger!Init, Answered

\* What the ledger counts as attested is what the audit log holds.
LEMMA AttestedIsRecorded == Ledger!Attested = Recorded
  BY DEF Ledger!Attested, Recorded

\* Every step of the store is a step of the ledger or leaves it as it is.
LEMMA LedgerStep == IInv /\ [Next]_vars => [Ledger!Next]_(Ledger!vars)
<1> SUFFICES ASSUME IInv, [Next]_vars PROVE [Ledger!Next]_(Ledger!vars)
  OBVIOUS
<1>0. TypeOK /\ PlacesInv
  BY DEF IInv
<1>1. ASSUME NEW q \in Requests, Place(q) PROVE Ledger!Publish(q)
  <2>1. /\ pc[q] = "placing" /\ pc' = [pc EXCEPT ![q] = "auditing"] /\ records' = records
        /\ store' = [r \in Stored \cup {q} |->
                       IF r = q THEN [instrument |-> asked[q], generatedAt |-> 0] ELSE store[r]]
    BY <1>1 DEF Place
  <2>2. q \notin DOMAIN store
    BY <1>0, <2>1 DEF PlacesInv, Placed, Stored
  <2>3. [instrument |-> asked[q], generatedAt |-> 0] \in Ledger!Recommendation
    BY <1>0 DEF Ledger!Recommendation, TypeOK
  <2>4. Answered' = Answered
    BY <1>0, <2>1 DEF Answered, TypeOK
  <2> QED
    BY <2>1, <2>2, <2>3, <2>4 DEF Ledger!Publish, Stored
<1>2. ASSUME NEW q \in Requests, AppendRecord(q) PROVE Ledger!Attest(q)
  <2>1. /\ pc[q] = "auditing" /\ pc' = [pc EXCEPT ![q] = "responding"] /\ store' = store
        /\ records' = Append(records, [id |-> q, instrument |-> asked[q]])
    BY <1>2 DEF AppendRecord
  <2>2. q \in DOMAIN store /\ store[q].instrument = asked[q]
    BY <1>0, <2>1 DEF PlacesInv, Placed, Stored
  <2>3. q \notin Ledger!Attested
    BY <1>0, <2>1, AttestedIsRecorded DEF PlacesInv
  <2>4. Answered' = Answered
    BY <1>0, <2>1 DEF Answered, TypeOK
  <2> QED
    BY <2>1, <2>2, <2>3, <2>4 DEF Ledger!Attest
<1>3. ASSUME NEW q \in Requests, Respond(q) PROVE Ledger!Deliver(q)
  <2>1. /\ pc[q] = "responding" /\ pc' = [pc EXCEPT ![q] = "answered"]
        /\ store' = store /\ records' = records
    BY <1>3 DEF Respond
  <2>2. q \in Ledger!Attested
    BY <1>0, <2>1, AttestedIsRecorded DEF PlacesInv
  <2>3. Answered' = Answered \cup {q}
    BY <1>0, <2>1 DEF Answered, TypeOK
  <2> QED
    BY <2>1, <2>2, <2>3 DEF Ledger!Deliver
<1>4. ASSUME NEW q \in Requests,
             \/ Arrive(q) \/ Slice(q) \/ Look(q) \/ LookRaises(q) \/ Listed(q)
             \/ Think(q) \/ Abort(q) \/ Enlist(q)
      PROVE  UNCHANGED Ledger!vars
  <2>1. store' = store /\ records' = records
    BY <1>4 DEF Arrive, Slice, Look, LookRaises, Listed, Think, Abort, Enlist
  <2>2. \A p \in Requests : pc'[p] = "answered" <=> pc[p] = "answered"
    BY <1>0, <1>4 DEF Arrive, Slice, Look, LookRaises, Listed, Think, Abort, Enlist, TypeOK
  <2> QED
    BY <2>1, <2>2 DEF Ledger!vars, Answered
<1>5. CASE UNCHANGED vars
  BY <1>5 DEF vars, Ledger!vars, Answered
<1> QED
  BY <1>1, <1>2, <1>3, <1>4, <1>5 DEF Next, Step, Ledger!Next

\* Every row, record and answer of the unlocked store is a step the ledger takes.
THEOREM ImplementsLedger == Spec => LedgerSpec
  BY Inductive, LedgerInit, LedgerStep, PTL DEF Spec, LedgerSpec, Ledger!Spec
=============================================================================

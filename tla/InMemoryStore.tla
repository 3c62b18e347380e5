---------------------------- MODULE InMemoryStore ---------------------------
(***************************************************************************)
(* The in-memory repositories under concurrent requests: no lock guards    *)
(* them, and a thread may be preempted between any two bytecodes.  What    *)
(* save and list_recent do in several steps is modelled in several steps:  *)
(*                                                                         *)
(*   save         appends the id to _order, then puts the row in _store    *)
(*   list_recent  copies the end of _order, then looks each id up in       *)
(*                _store; a missing key raises KeyError                    *)
(*                                                                         *)
(* Each request runs as in RecommendationService: it reads list_recent for *)
(* the memory agent, saves, appends its audit record and answers.  The     *)
(* store lives as long as the process; one behaviour is one such life.     *)
(***************************************************************************)
EXTENDS Naturals, Sequences, FiniteSets

CONSTANTS Requests,     \* POSTs; each makes one recommendation with a fresh id
          Instruments,  \* what they ask about
          Lookback      \* limit of list_recent (200 in the memory agent)

ASSUME LookbackAssumption == Lookback \in Nat \ {0}

VARIABLES
  pc,             \* where the thread of each request is
  asked,          \* the instrument each request asks about
  store,          \* _store: row by id
  order,          \* _order: ids in the order they were first saved
  records,        \* _records of the audit repository
  todo,           \* ids a list_recent in progress has still to look up
  found,          \* ids it has looked up, most recent first
  answeredBefore, \* history: requests already answered when list_recent began
  sliced          \* history: the ids list_recent copied, most recent first

vars == <<pc, asked, store, order, records, todo, found, answeredBefore, sliced>>

Reading == {"idle", "listing", "looking"}
Writing == {"thinking", "saving", "placing", "auditing", "responding"}
Ended   == {"answered", "failed", "keyError"}

Row      == [instrument : Instruments, generatedAt : {0}]
Stored   == DOMAIN store
Answered == {q \in Requests : pc[q] = "answered"}

\* The ids of a sequence.
IdsOf(s) == {s[i] : i \in DOMAIN s}

Init ==
  /\ pc = [q \in Requests |-> "idle"]
  /\ asked \in [Requests -> Instruments]
  /\ store = [q \in {} |-> 0]
  /\ order = << >>
  /\ records = << >>
  /\ todo = [q \in Requests |-> << >>]
  /\ found = [q \in Requests |-> << >>]
  /\ answeredBefore = [q \in Requests |-> {}]
  /\ sliced = [q \in Requests |-> << >>]

-----------------------------------------------------------------------------
\* The request arrives and its thread gets as far as the memory agent.
Arrive(q) ==
  /\ pc[q] = "idle"
  /\ pc' = [pc EXCEPT ![q] = "listing"]
  /\ answeredBefore' = [answeredBefore EXCEPT ![q] = Answered]
  /\ UNCHANGED <<asked, store, order, records, todo, found, sliced>>

\* order[-n:][::-1]: the last n ids (all, if there are fewer), last one first.
RecentIds(n) ==
  LET len == IF Len(order) < n THEN Len(order) ELSE n
  IN  [i \in 1..len |-> order[Len(order) + 1 - i]]

\* list_recent, first line.
Slice(q) ==
  /\ pc[q] = "listing"
  /\ sliced' = [sliced EXCEPT ![q] = RecentIds(Lookback)]
  /\ todo' = [todo EXCEPT ![q] = RecentIds(Lookback)]
  /\ pc' = [pc EXCEPT ![q] = "looking"]
  /\ UNCHANGED <<asked, store, order, records, found, answeredBefore>>

\* Bug: an id that is not in _store yet is skipped.
LookSkips(q) ==
  /\ pc[q] = "looking"
  /\ todo[q] # << >>
  /\ todo' = [todo EXCEPT ![q] = Tail(@)]
  /\ found' = IF Head(todo[q]) \in Stored
                THEN [found EXCEPT ![q] = Append(@, Head(todo[q]))]
                ELSE found
  /\ UNCHANGED <<pc, asked, store, order, records, answeredBefore, sliced>>

\* list_recent, second line: one lookup of the comprehension.
Look(q) ==
  /\ pc[q] = "looking"
  /\ todo[q] # << >>
  /\ Head(todo[q]) \in Stored
  /\ todo' = [todo EXCEPT ![q] = Tail(@)]
  /\ found' = [found EXCEPT ![q] = Append(@, Head(todo[q]))]
  /\ UNCHANGED <<pc, asked, store, order, records, answeredBefore, sliced>>

\* ... and the lookup of an id whose save is still between its two steps.
LookRaises(q) ==
  /\ pc[q] = "looking"
  /\ todo[q] # << >>
  /\ Head(todo[q]) \notin Stored
  /\ pc' = [pc EXCEPT ![q] = "keyError"]
  /\ UNCHANGED <<asked, store, order, records, todo, found, answeredBefore, sliced>>

\* list_recent returns; the agents go on.
Listed(q) ==
  /\ pc[q] = "looking"
  /\ todo[q] = << >>
  /\ pc' = [pc EXCEPT ![q] = "thinking"]
  /\ UNCHANGED <<asked, store, order, records, todo, found, answeredBefore, sliced>>

\* The rest of the pipeline and the synthesis; a fresh uuid.
Think(q) ==
  /\ pc[q] = "thinking"
  /\ pc' = [pc EXCEPT ![q] = "saving"]
  /\ UNCHANGED <<asked, store, order, records, todo, found, answeredBefore, sliced>>

\* An agent, a feed or the model raises.
Abort(q) ==
  /\ pc[q] \in {"listing", "thinking"}
  /\ pc' = [pc EXCEPT ![q] = "failed"]
  /\ UNCHANGED <<asked, store, order, records, todo, found, answeredBefore, sliced>>

\* Bug: the membership check is lost, and a save that is tried again lists the
\* id again.
EnlistTwice(q) ==
  /\ pc[q] = "saving"
  /\ order' = order \o <<q, q>>
  /\ pc' = [pc EXCEPT ![q] = "placing"]
  /\ UNCHANGED <<asked, store, records, todo, found, answeredBefore, sliced>>

\* save, first step: the id, not yet in _store, goes to the end of _order.
Enlist(q) ==
  /\ pc[q] = "saving"
  /\ order' = IF q \in Stored THEN order ELSE Append(order, q)
  /\ pc' = [pc EXCEPT ![q] = "placing"]
  /\ UNCHANGED <<asked, store, records, todo, found, answeredBefore, sliced>>

\* save, second step: _store[id] = recommendation.
Place(q) ==
  /\ pc[q] = "placing"
  /\ store' = [r \in Stored \cup {q} |->
                 IF r = q THEN [instrument |-> asked[q], generatedAt |-> 0]
                 ELSE store[r]]
  /\ pc' = [pc EXCEPT ![q] = "auditing"]
  /\ UNCHANGED <<asked, order, records, todo, found, answeredBefore, sliced>>

\* Bug: the record replaces the last one.
AppendOver(q) ==
  /\ pc[q] = "auditing"
  /\ records' = Append(SubSeq(records, 1, Len(records) - 1),
                       [id |-> q, instrument |-> asked[q]])
  /\ pc' = [pc EXCEPT ![q] = "responding"]
  /\ UNCHANGED <<asked, store, order, todo, found, answeredBefore, sliced>>

\* The audit repository's append: one list.append.
AppendRecord(q) ==
  /\ pc[q] = "auditing"
  /\ records' = Append(records, [id |-> q, instrument |-> asked[q]])
  /\ pc' = [pc EXCEPT ![q] = "responding"]
  /\ UNCHANGED <<asked, store, order, todo, found, answeredBefore, sliced>>

Respond(q) ==
  /\ pc[q] = "responding"
  /\ pc' = [pc EXCEPT ![q] = "answered"]
  /\ UNCHANGED <<asked, store, order, records, todo, found, answeredBefore, sliced>>

Step(q) ==
  \/ Slice(q) \/ Look(q) \/ LookRaises(q) \/ Listed(q) \/ Think(q)
  \/ Enlist(q) \/ Place(q) \/ AppendRecord(q) \/ Respond(q)

Next == \E q \in Requests : Arrive(q) \/ Step(q) \/ Abort(q)

Spec == Init /\ [][Next]_vars

-----------------------------------------------------------------------------
TypeOK ==
  /\ pc \in [Requests -> Reading \cup Writing \cup Ended]
  /\ asked \in [Requests -> Instruments]
  /\ Stored \subseteq Requests
  /\ store \in [Stored -> Row]
  /\ order \in Seq(Requests)
  /\ records \in Seq([id : Requests, instrument : Instruments])
  /\ todo \in [Requests -> Seq(Requests)]
  /\ found \in [Requests -> Seq(Requests)]
  /\ answeredBefore \in [Requests -> SUBSET Requests]
  /\ sliced \in [Requests -> Seq(Requests)]

\* _order and _store agree but for saves between their two steps: every stored
\* id stands in the order exactly once, and an id without a row is one whose
\* thread is about to place it.
OrderMatchesStore ==
  /\ Stored \subseteq IdsOf(order)
  /\ \A i, j \in DOMAIN order : order[i] = order[j] => i = j
  /\ \A q \in IdsOf(order) \ Stored : pc[q] = "placing"

\* r comes after s in _order.
Later(r, s) == \E m, n \in DOMAIN order : m > n /\ order[m] = r /\ order[n] = s

\* A listing that returns is a snapshot, however long the lookups took: what
\* _order ended with when it began, most recent first.  It holds every
\* recommendation answered before the request arrived, unless Lookback later
\* ones took its place.
ListingIsComplete ==
  \A q \in Requests : pc[q] \in Writing \cup {"answered"} =>
    /\ found[q] = sliced[q]
    /\ \A s \in answeredBefore[q] :
         \/ s \in IdsOf(found[q])
         \/ Len(found[q]) = Lookback /\ \A r \in IdsOf(found[q]) : Later(r, s)
    /\ \A i, j \in DOMAIN found[q] : i < j => Later(found[q][i], found[q][j])

\* Unlocked as it is, the store implements the ledger for the life of the
\* process: a row appears when it is placed in _store.
Ledger == INSTANCE ResearchLedger
            WITH Ids <- Requests, Times <- {0}, ledger <- store,
                 trail <- records, delivered <- Answered
LedgerSpec == Ledger!Spec

\* in_memory.py:14: "Satisfies RecommendationRepository", whose list_recent
\* returns a list of recommendations (repositories.py:20).
ListingNeverRaises == \A q \in Requests : pc[q] # "keyError"
=============================================================================

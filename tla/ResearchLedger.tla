--------------------------- MODULE ResearchLedger ---------------------------
(***************************************************************************)
(* What the recommendation service promises its clients, with no requests, *)
(* threads, feeds or crashes in sight: a ledger of published               *)
(* recommendations, a trail of audit entries, and the set of               *)
(* recommendations a client has been handed.  Nothing is ever taken back.  *)
(* RecommendationService implements this specification.                    *)
(***************************************************************************)
EXTENDS Naturals, Sequences

CONSTANTS Ids,          \* identities of recommendations
          Instruments,  \* what a recommendation is about
          Times         \* when one was generated

VARIABLES ledger,       \* the published recommendations, a function of their ids
          trail,        \* the audit trail, a sequence of entries
          delivered     \* the recommendations handed to a client

vars == <<ledger, trail, delivered>>

Recommendation == [instrument : Instruments, generatedAt : Times]
Entry == [id : Ids, instrument : Instruments]

Attested == {trail[i].id : i \in DOMAIN trail}

Init ==
  /\ ledger = [id \in {} |-> 0]
  /\ trail = << >>
  /\ delivered = {}

\* A recommendation enters the ledger under an id of its own.
Publish(id) ==
  /\ id \notin DOMAIN ledger
  /\ \E rec \in Recommendation :
       ledger' = [x \in DOMAIN ledger \cup {id} |->
                    IF x = id THEN rec ELSE ledger[x]]
  /\ UNCHANGED <<trail, delivered>>

\* The one audit entry of a published recommendation, naming its instrument.
Attest(id) ==
  /\ id \in DOMAIN ledger
  /\ id \notin Attested
  /\ trail' = Append(trail, [id |-> id, instrument |-> ledger[id].instrument])
  /\ UNCHANGED <<ledger, delivered>>

\* Only an attested recommendation is handed out.
Deliver(id) ==
  /\ id \in Attested
  /\ delivered' = delivered \cup {id}
  /\ UNCHANGED <<ledger, trail>>

Next == \E id \in Ids : Publish(id) \/ Attest(id) \/ Deliver(id)

Spec == Init /\ [][Next]_vars
=============================================================================

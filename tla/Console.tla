------------------------------- MODULE Console -------------------------------
(***************************************************************************)
(* The research console in a browser and the service behind it.  The form  *)
(* is disabled from its submission until the answer has been dealt with;   *)
(* the handler of each submission then shows the recommendation it got, or *)
(* an error, and enables the form in any case.  A fetch may be rejected    *)
(* whatever the service did with the request, and the page may be          *)
(* reloaded at any time: the service goes on with what it received, and    *)
(* the user may ask again.                                                 *)
(*                                                                         *)
(* The panels that only read (mode, fleet, trends) are left out.           *)
(***************************************************************************)
EXTENDS PostgresService

CONSTANT None           \* no recommendation

ASSUME NoneAssumption == None \notin Requests

VARIABLES
  disabled,   \* btn.disabled
  handlers,   \* requests whose submit handler awaits its fetch
  result,     \* the recommendation in #result, or None
  status,     \* #research-status: "hidden", "running" or "error"
  shown,      \* history: requests whose recommendation was displayed
  abandoned   \* history: requests the user saw fail or left by a reload

pageVars == <<disabled, handlers, result, status, shown, abandoned>>

vars == <<pc, life, servedBy, window, stamp, latest, txn, rows, trail, auditId, nextId,
          memory, answeredBefore, disabled, handlers, result, status, shown, abandoned>>

ConsoleInit ==
  /\ Init
  /\ disabled = FALSE
  /\ handlers = {}
  /\ result = None
  /\ status = "hidden"
  /\ shown = {}
  /\ abandoned = {}

-----------------------------------------------------------------------------
\* Bug: the form stays enabled while a handler waits.
SubmitAnyTime(q) ==
  /\ Receive(q)
  /\ disabled' = FALSE
  /\ handlers' = handlers \cup {q}
  /\ status' = "running"
  /\ UNCHANGED <<result, shown, abandoned>>

\* The user submits the form and the POST arrives.  The earlier result stays on
\* display meanwhile.
Submit(q) ==
  /\ ~ disabled
  /\ Receive(q)
  /\ disabled' = TRUE
  /\ handlers' = handlers \cup {q}
  /\ status' = "running"
  /\ UNCHANGED <<result, shown, abandoned>>

\* The user submits the form while no process listens: fetch rejects at once.
SubmitInVain ==
  /\ ~ disabled
  /\ life = "down"
  /\ status' = "error"
  /\ result' = None
  /\ UNCHANGED <<serverVars, disabled, handlers, shown, abandoned>>

\* The 201 arrives: renderRecommendation, and finally the form is enabled.
Show(q) ==
  /\ q \in handlers
  /\ pc[q] = "answered"
  /\ handlers' = handlers \ {q}
  /\ result' = q
  /\ status' = "hidden"
  /\ disabled' = FALSE
  /\ shown' = shown \cup {q}
  /\ UNCHANGED <<serverVars, abandoned>>

\* Bug: the form is enabled on success only.
RejectStaysDisabled(q) ==
  /\ q \in handlers
  /\ handlers' = handlers \ {q}
  /\ result' = None
  /\ status' = "error"
  /\ abandoned' = abandoned \cup {q}
  /\ UNCHANGED <<serverVars, disabled, shown>>

\* Bug: an error leaves the previous result on display.
RejectKeepsResult(q) ==
  /\ q \in handlers
  /\ handlers' = handlers \ {q}
  /\ status' = "error"
  /\ disabled' = FALSE
  /\ abandoned' = abandoned \cup {q}
  /\ UNCHANGED <<serverVars, result, shown>>

\* Bug: a lost connection is not reported as an error.
RejectSilently(q) ==
  /\ q \in handlers
  /\ handlers' = handlers \ {q}
  /\ result' = None
  /\ status' = "hidden"
  /\ disabled' = FALSE
  /\ UNCHANGED <<serverVars, shown, abandoned>>

\* A 500, or the connection breaks wherever the request is, even answered: the
\* error replaces the result, and finally the form is enabled.
Reject(q) ==
  /\ q \in handlers
  /\ handlers' = handlers \ {q}
  /\ result' = None
  /\ status' = "error"
  /\ disabled' = FALSE
  /\ abandoned' = abandoned \cup {q}
  /\ UNCHANGED <<serverVars, shown>>

\* The page is loaded anew: its handlers are gone, the service is not told.
Reload ==
  /\ disabled' = FALSE
  /\ handlers' = {}
  /\ result' = None
  /\ status' = "hidden"
  /\ abandoned' = abandoned \cup handlers
  /\ UNCHANGED <<serverVars, shown>>

Settle(q) == Show(q) \/ Reject(q)

ConsoleNext ==
  \/ Work /\ UNCHANGED pageVars
  \/ \E q \in Requests : Submit(q) \/ Settle(q)
  \/ SubmitInVain
  \/ Reload

ConsoleSpec == ConsoleInit /\ [][ConsoleNext]_vars

\* The calls of a thread return or raise, a COMMIT that was sent is carried out
\* or fails, and a fetch whose request has ended resolves or rejects.
ConsoleFairSpec ==
  /\ ConsoleSpec
  /\ \A q \in Requests : /\ WF_vars(Client(q) /\ UNCHANGED pageVars)
                         /\ WF_vars(Server(q) /\ UNCHANGED pageVars)
                         /\ WF_vars(pc[q] \in Ended /\ Settle(q))

-----------------------------------------------------------------------------
PageTypeOK ==
  /\ disabled \in BOOLEAN
  /\ handlers \subseteq Requests
  /\ result \in Requests \cup {None}
  /\ status \in {"hidden", "running", "error"}
  /\ shown \subseteq Requests
  /\ abandoned \subseteq Requests

\* What the page says is true: an error stands alone, the form is disabled just
\* while a submission is running, and a recommendation on display that was
\* answered from the database is in it with its audit record, through crashes,
\* late commits and lives on the in-memory store.
DisplayIsTrue ==
  /\ status = "error" => result = None
  /\ disabled <=> status = "running"
  /\ result \in DurablyAnswered => result \in rows \cap Audited

\* A newer result is not overwritten by the late answer to an older request: the
\* one it replaces was answered before it was asked for.
OldNeverReplacesNew ==
  [][result' # result /\ result # None /\ result' # None =>
       result \in answeredBefore'[result']]_vars

\* Nothing is stored behind the user's back: every recommendation in a store is on
\* its way to the page, was displayed, or was asked for by a submission the user
\* saw fail or left by a reload, so that only a retry of those makes a second one.
StoredIsExplained == rows \cup Held \subseteq handlers \cup shown \cup abandoned

\* The form does not stay disabled, whatever fails or dies behind it.
FormComesBack == disabled ~> ~ disabled
=============================================================================
